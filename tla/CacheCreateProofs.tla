------------------------- MODULE CacheCreateProofs -------------------------
(***************************************************************************)
(* What holds of the opening and creation of the cache for any number of   *)
(* processes: always, and as long as none opens it while another creates it.*)
(***************************************************************************)
EXTENDS CacheCreate, TLAPS

\* Abbreviates the case analysis: what a step of CacheCreate may be.
LEMMA NextCases ==
    ASSUME Next
    PROVE  \E p \in Openers :
              \/ Start(p) \/ Record(p) \/ Close(p) \/ Crash(p)
              \/ \E f \in Files : Stat(p, f) \/ Unlink(p, f) \/ Create(p, f) \/ Check(p, f)
              \/ Rmdir(p) \/ Mkdir(p) \/ Tables(p) \/ Chown(p) \/ Chmod(p)
              \/ FindMode(p) \/ Open(p) \/ Attach(p) \/ Purge(p)
BY DEF Next, OpenerStep

\* What SQLite creates is an inode of the type of inodes.
LEMMA EmptyNodeType == EmptyNode \in Nodes
BY CreateAssumption DEF EmptyNode, Nodes, Modes

\* An opener that goes leaves everything of its own in its type.
LEMMA LeaveType ==
    ASSUME TypeOK, NEW p \in Openers, Leave(p)
    PROVE  /\ pc' \in [Openers -> Pcs] /\ todo' \in [Openers -> SUBSET Files]
           /\ needsCreate' \in [Openers -> BOOLEAN] /\ cur' \in [Openers -> Files]
           /\ fd' \in [Openers -> [Files -> Inodes \cup {None}]]
           /\ shadowMode' \in [Openers -> 0 .. 2]
BY DEF TypeOK, Leave, Pcs, Files, NoFd, shadowNotAvailableMode

\* So does a turn of a loop over the files.
LEMMA LoopType ==
    ASSUME TypeOK, NEW p \in Openers, NEW f \in Files, NEW a \in Pcs, NEW b \in Pcs,
           LoopOver(p, f, a, b)
    PROVE  pc' \in [Openers -> Pcs] /\ todo' \in [Openers -> SUBSET Files]
BY DEF TypeOK, LoopOver

\* Changing one inode keeps the type, and so does changing one attribute of it.
LEMMA SetNodeType ==
    ASSUME TypeOK, NEW f \in Files, NEW i, NEW n, SetNode(f, i, n), i \in Inodes => n \in Nodes
    PROVE  node' \in [Files -> [Inodes -> Nodes]]
BY DEF TypeOK, SetNode

\* Tables, users, group and mode of an inode may be set to any value of theirs.
LEMMA AttributeType ==
    ASSUME NEW n \in Nodes
    PROVE  /\ \A b \in BOOLEAN : [n EXCEPT !.tables = b] \in Nodes
           /\ \A b \in BOOLEAN : [n EXCEPT !.users = b] \in Nodes
           /\ \A g \in {"root", "shadow"} : [n EXCEPT !.group = g] \in Nodes
           /\ \A m \in Modes : [n EXCEPT !.mode = m] \in Nodes
BY DEF Nodes

\* Opening a file with SQLite, which may create it, keeps the types.
LEMMA SqlOpensType ==
    ASSUME TypeOK, NEW p \in Openers, NEW f \in Files, SqlOpens(p, f)
    PROVE  /\ dir' \in BOOLEAN /\ entry' \in [Files -> Inodes \cup {None}]
           /\ node' \in [Files -> [Inodes -> Nodes]]
           /\ fd' \in [Openers -> [Files -> Inodes \cup {None}]]
<1>1. CASE entry[f] # None /\ fd' = [fd EXCEPT ![p][f] = entry[f]] /\ UNCHANGED dirVars
    BY <1>1 DEF TypeOK, dirVars
<1>2. ASSUME NEW i \in Inodes, entry' = [entry EXCEPT ![f] = i],
             SetNode(f, i, EmptyNode),
             fd' = [fd EXCEPT ![p][f] = i], UNCHANGED dir
      PROVE  /\ dir' \in BOOLEAN /\ entry' \in [Files -> Inodes \cup {None}]
             /\ node' \in [Files -> [Inodes -> Nodes]]
             /\ fd' \in [Openers -> [Files -> Inodes \cup {None}]]
    BY <1>2, EmptyNodeType, SetNodeType DEF TypeOK
<1>. QED  BY <1>1, <1>2 DEF SqlOpens

\* So does every step.
LEMMA TypeStep ==
    ASSUME TypeOK, [Next]_vars
    PROVE  TypeOK'
<1>. raced' \in BOOLEAN
    BY DEF Next, vars, TypeOK
<1>. USE DEF Files
<1>1. CASE UNCHANGED vars
    BY <1>1 DEF TypeOK, vars, dirVars, openerVars
<1>2. ASSUME NEW p \in Openers, Start(p)  PROVE TypeOK'
    BY <1>2 DEF TypeOK, Start, dirVars, Pcs
<1>3. ASSUME NEW p \in Openers, NEW f \in Files, Stat(p, f)  PROVE TypeOK'
    <2>1. CASE Leave(p) /\ UNCHANGED dirVars
        BY <2>1, LeaveType DEF TypeOK, dirVars
    <2>2. ASSUME NEW needs \in BOOLEAN,
                 needsCreate' = [needsCreate EXCEPT ![p] = needs],
                 LoopOver(p, f, "stat", IF needs THEN "unlink" ELSE "check"),
                 UNCHANGED <<cur, fd, shadowMode, dirVars>>
          PROVE  TypeOK'
        <3>1. pc' \in [Openers -> Pcs] /\ todo' \in [Openers -> SUBSET Files]
            BY <2>2, LoopType DEF Pcs
        <3>. QED  BY <2>2, <3>1 DEF TypeOK, dirVars
    <2>. QED  BY <1>3, <2>1, <2>2 DEF Stat, TypeOK
<1>4. ASSUME NEW p \in Openers, NEW f \in Files, Unlink(p, f)  PROVE TypeOK'
    <2>1. pc' \in [Openers -> Pcs] /\ todo' \in [Openers -> SUBSET Files]
        BY <1>4, LoopType DEF Unlink, Pcs
    <2>. QED  BY <1>4, <2>1 DEF TypeOK, Unlink
<1>5. ASSUME NEW p \in Openers, NEW f \in Files, Create(p, f)  PROVE TypeOK'
    <2>1. CASE Leave(p) /\ UNCHANGED dirVars
        BY <2>1, LeaveType DEF TypeOK, dirVars
    <2>2. CASE /\ SqlOpens(p, f)
               /\ cur' = [cur EXCEPT ![p] = f]
               /\ pc' = [pc EXCEPT ![p] = "tables"]
               /\ UNCHANGED <<todo, needsCreate, shadowMode>>
        BY <2>2, SqlOpensType DEF TypeOK, Pcs
    <2>. QED  BY <1>5, <2>1, <2>2 DEF Create
<1>6. ASSUME NEW p \in Openers, NEW f \in Files, Check(p, f)  PROVE TypeOK'
    <2>1. pc' \in [Openers -> Pcs] /\ todo' \in [Openers -> SUBSET Files]
        BY <1>6, LoopType, LeaveType DEF Check, Pcs
    <2>. QED  BY <1>6, <2>1, LeaveType DEF TypeOK, Check, dirVars
<1>7. ASSUME NEW p \in Openers, Rmdir(p) \/ Mkdir(p)  PROVE TypeOK'
    BY <1>7, LeaveType DEF TypeOK, Rmdir, Mkdir, dirVars, Pcs
<1>8. ASSUME NEW p \in Openers, Tables(p)  PROVE TypeOK'
    <2>1. CASE Leave(p) /\ UNCHANGED dirVars
        BY <2>1, LeaveType DEF TypeOK, dirVars
    <2>2. CASE /\ SetNode(cur[p], fd[p][cur[p]], [node[cur[p]][fd[p][cur[p]]] EXCEPT !.tables = TRUE])
               /\ fd' = [fd EXCEPT ![p] = NoFd]
               /\ pc' = [pc EXCEPT ![p] = "chown"]
               /\ UNCHANGED <<dir, entry, todo, needsCreate, cur, shadowMode>>
        <3>1. cur[p] \in Files /\ \A i \in Inodes : node[cur[p]][i] \in Nodes
            BY DEF TypeOK
        <3>2. node' \in [Files -> [Inodes -> Nodes]]
            BY <2>2, <3>1, SetNodeType, AttributeType
        <3>. QED  BY <2>2, <3>2 DEF TypeOK, NoFd, Pcs
    <2>. QED  BY <1>8, <2>1, <2>2 DEF Tables
<1>9. ASSUME NEW p \in Openers, Chown(p)  PROVE TypeOK'
    <2>1. CASE Leave(p) /\ UNCHANGED dirVars
        BY <2>1, LeaveType DEF TypeOK, dirVars
    <2>2. CASE entry[cur[p]] # None
                /\ SetNode(cur[p], entry[cur[p]],
                           [node[cur[p]][entry[cur[p]]] EXCEPT !.group = fileGOwner[cur[p]]])
                /\ pc' = [pc EXCEPT ![p] = "chmod"]
                /\ UNCHANGED <<dir, entry, todo, needsCreate, cur, fd, shadowMode>>
        <3>1. entry[cur[p]] \in Inodes /\ cur[p] \in Files
                /\ fileGOwner[cur[p]] \in {"root", "shadow"}
                /\ node[cur[p]][entry[cur[p]]] \in Nodes
            BY <2>2 DEF TypeOK, fileGOwner
        <3>2. node' \in [Files -> [Inodes -> Nodes]]
            BY <2>2, <3>1, SetNodeType, AttributeType
        <3>. QED  BY <2>2, <3>2 DEF TypeOK, Pcs
    <2>. QED  BY <1>9, <2>1, <2>2 DEF Chown
<1>10. ASSUME NEW p \in Openers, Chmod(p)  PROVE TypeOK'
    <2>1. CASE Leave(p) /\ UNCHANGED dirVars
        BY <2>1, LeaveType DEF TypeOK, dirVars
    <2>2. CASE /\ entry[cur[p]] # None
               /\ SetNode(cur[p], entry[cur[p]],
                          [node[cur[p]][entry[cur[p]]] EXCEPT !.mode = filePermission[cur[p]]])
               /\ LoopOver(p, cur[p], "create", "check")
               /\ UNCHANGED <<dir, entry, needsCreate, cur, fd, shadowMode>>
        <3>1. entry[cur[p]] \in Inodes /\ cur[p] \in Files
                /\ filePermission[cur[p]] \in Modes
                /\ node[cur[p]][entry[cur[p]]] \in Nodes
            BY <2>2 DEF TypeOK, filePermission, Modes
        <3>2. node' \in [Files -> [Inodes -> Nodes]]
            BY <2>2, <3>1, SetNodeType, AttributeType
        <3>3. pc' \in [Openers -> Pcs] /\ todo' \in [Openers -> SUBSET Files]
            BY <2>2, <3>1, LoopType DEF Pcs
        <3>. QED  BY <2>2, <3>2, <3>3 DEF TypeOK
    <2>. QED  BY <1>10, <2>1, <2>2 DEF Chmod
<1>11. ASSUME NEW p \in Openers, FindMode(p)  PROVE TypeOK'
    <2>1. Access(Kind[p]) \in 0 .. 2
        BY DEF Access, shadowNotAvailableMode, shadowROMode, shadowRWMode
    <2>. QED  BY <1>11, <2>1 DEF TypeOK, FindMode, dirVars, Pcs
<1>12. ASSUME NEW p \in Openers, Open(p) \/ Attach(p)  PROVE TypeOK'
    BY <1>12, SqlOpensType, LeaveType DEF TypeOK, Open, Attach, dirVars, Pcs
<1>13. ASSUME NEW p \in Openers, Purge(p) \/ Close(p) \/ Crash(p)  PROVE TypeOK'
    BY <1>13, LeaveType DEF TypeOK, Purge, Close, Crash, dirVars, Pcs
<1>14. ASSUME NEW p \in Openers, Record(p)  PROVE TypeOK'
    <2>1. ASSUME NEW f \in Files, NEW i \in Inodes
          PROVE  [node[f][i] EXCEPT !.users = @ \/ fd[p][f] = i] \in Nodes
        <3>1. node[f][i] \in Nodes
            BY DEF TypeOK
        <3>. DEFINE b == node[f][i].users \/ fd[p][f] = i
        <3>2. [node[f][i] EXCEPT !.users = b] \in Nodes
            <4>1. b \in BOOLEAN  OBVIOUS
            <4>. HIDE DEF b
            <4>. QED  BY <3>1, <4>1, AttributeType
        <3>. QED  BY <3>2
    <2>2. node' \in [Files -> [Inodes -> Nodes]]
        BY <1>14, <2>1 DEF Record
    <2>. QED  BY <1>14, <2>2 DEF TypeOK, Record, openerVars
<1>. QED
    BY NextCases, <1>1, <1>2, <1>3, <1>4, <1>5, <1>6, <1>7, <1>8, <1>9, <1>10, <1>11,
       <1>12, <1>13, <1>14

\* At first no file is open.
LEMMA InitType == Init => TypeOK
<1>. SUFFICES ASSUME Init PROVE TypeOK
    OBVIOUS
<1>1. node \in [Files -> [Inodes -> Nodes]]
    BY EmptyNodeType DEF Init
<1>2. cur \in [Openers -> Files]
    BY DEF Init, Files
<1>3. needsCreate \in [Openers -> BOOLEAN] /\ dir \in BOOLEAN
    BY DEF Init
<1>4. pc \in [Openers -> Pcs] /\ shadowMode \in [Openers -> 0 .. 2]
    BY DEF Init, Pcs, shadowNotAvailableMode
<1>5. NoFd \in [Files -> Inodes \cup {None}]
    BY DEF NoFd
<1>. QED  BY <1>1, <1>2, <1>3, <1>4, <1>5 DEF Init, TypeOK

\* Every variable stays in its type.
THEOREM CreateTyping == Spec => []TypeOK
BY InitType, TypeStep, PTL DEF Spec

-----------------------------------------------------------------------------
(* Always: the tables of a writable cache.                                 *)

\* An inode somebody has open keeps its tables: SQLite creates a file under a free
\* inode only.
LEMMA TablesStay ==
    ASSUME TypeOK, [Next]_vars,
           NEW q \in Openers, NEW f \in Files, fd[q][f] \in Inodes, node[f][fd[q][f]].tables
    PROVE  node'[f][fd[q][f]].tables
<1>. DEFINE i == fd[q][f]
<1>. i \in Inodes /\ node[f][i] \in Nodes /\ node[f][i].tables
    BY DEF TypeOK
<1>. HIDE DEF i
<1>1. ASSUME UNCHANGED node  PROVE node'[f][i].tables
    BY <1>1
<1>2. ASSUME NEW g \in Files, NEW j, NEW n, SetNode(g, j, n), (g = f /\ j = i) => n.tables
      PROVE  node'[f][i].tables
    BY <1>2 DEF SetNode, TypeOK
<1>3. ASSUME NEW p \in Openers, NEW g \in Files, SqlOpens(p, g)  PROVE node'[f][i].tables
    BY <1>3, <1>1, <1>2 DEF SqlOpens, dirVars, i
<1>4. ASSUME NEW p \in Openers, Tables(p)  PROVE node'[f][i].tables
    <2>1. cur[p] \in Files  BY DEF TypeOK
    <2>2. CASE SetNode(cur[p], fd[p][cur[p]], [node[cur[p]][fd[p][cur[p]]] EXCEPT !.tables = TRUE])
        <3>1. (cur[p] = f /\ fd[p][cur[p]] = i) =>
                [node[cur[p]][fd[p][cur[p]]] EXCEPT !.tables = TRUE].tables
            BY DEF Nodes
        <3>. QED  BY <2>1, <2>2, <3>1, <1>2
    <2>. QED  BY <1>4, <1>1, <2>2 DEF Tables, dirVars
<1>5. ASSUME NEW p \in Openers, Chown(p) \/ Chmod(p)  PROVE node'[f][i].tables
    <2>1. cur[p] \in Files  BY DEF TypeOK
    <2>2. CASE \E g : SetNode(cur[p], entry[cur[p]], [node[cur[p]][entry[cur[p]]] EXCEPT !.group = g])
        <3>1. PICK g : SetNode(cur[p], entry[cur[p]], [node[cur[p]][entry[cur[p]]] EXCEPT !.group = g])
            BY <2>2
        <3>2. (cur[p] = f /\ entry[cur[p]] = i) =>
                [node[cur[p]][entry[cur[p]]] EXCEPT !.group = g].tables
            BY DEF Nodes
        <3>. QED  BY <2>1, <3>1, <3>2, <1>2
    <2>3. CASE \E m : SetNode(cur[p], entry[cur[p]], [node[cur[p]][entry[cur[p]]] EXCEPT !.mode = m])
        <3>1. PICK m : SetNode(cur[p], entry[cur[p]], [node[cur[p]][entry[cur[p]]] EXCEPT !.mode = m])
            BY <2>3
        <3>2. (cur[p] = f /\ entry[cur[p]] = i) =>
                [node[cur[p]][entry[cur[p]]] EXCEPT !.mode = m].tables
            BY DEF Nodes
        <3>. QED  BY <2>1, <3>1, <3>2, <1>2
    <2>4. UNCHANGED node
          \/ SetNode(cur[p], entry[cur[p]], [node[cur[p]][entry[cur[p]]] EXCEPT !.group = fileGOwner[cur[p]]])
          \/ SetNode(cur[p], entry[cur[p]], [node[cur[p]][entry[cur[p]]] EXCEPT !.mode = filePermission[cur[p]]])
        BY <1>5 DEF Chown, Chmod, dirVars
    <2>. QED  BY <1>1, <2>2, <2>3, <2>4
<1>6. ASSUME NEW p \in Openers, Record(p)  PROVE node'[f][i].tables
    <2>1. node'[f][i] = [node[f][i] EXCEPT !.users = @ \/ fd[p][f] = i]
        BY <1>6 DEF Record
    <2>. QED  BY <2>1 DEF Nodes
<1>7. ASSUME NEW p \in Openers, NEW g \in Files,
             Create(p, g) \/ Open(p) \/ Attach(p)
      PROVE  node'[f][i].tables
    BY <1>7, <1>1, <1>3 DEF Create, Open, Attach, dirVars, Files
<1>8. ASSUME NEW p \in Openers, NEW g \in Files,
             \/ Start(p) \/ Stat(p, g) \/ Unlink(p, g) \/ Check(p, g) \/ Rmdir(p) \/ Mkdir(p)
             \/ FindMode(p) \/ Purge(p) \/ Close(p) \/ Crash(p)
      PROVE  node'[f][i].tables
    BY <1>8, <1>1 DEF Start, Stat, Unlink, Check, Rmdir, Mkdir, FindMode, Purge, Close, Crash, dirVars
<1>9. ASSUME UNCHANGED vars  PROVE node'[f][i].tables
    BY <1>9, <1>1 DEF vars, dirVars
<1>. QED
    BY NextCases, <1>4, <1>5, <1>6, <1>7, <1>8, <1>9 DEF i

\* A purge that finds the tables makes a writable cache usable, or the lack of a purge.
LEMMA BecomesUsable ==
    ASSUME TypeOK, [Next]_vars,
           NEW q \in Openers, pc'[q] = "using", shadowMode'[q] = shadowRWMode
    PROVE  \/ /\ fd'[q] = fd[q] /\ shadowMode[q] = shadowRWMode
              /\ pc[q] = "using" \/ (pc[q] = "purge" /\ HasTables(q))
           \/ q \in NeverPurge /\ pc[q] = "attach" /\ SqlOpens(q, "shadow")
<1>. USE DEF shadowRWMode, shadowNotAvailableMode
<1>1. CASE UNCHANGED vars
    BY <1>1 DEF vars, openerVars
<1>2. ASSUME NEW p \in Openers, Leave(p)
      PROVE  p # q /\ pc[q] = "using" /\ fd'[q] = fd[q] /\ shadowMode[q] = shadowRWMode
    BY <1>2 DEF Leave, TypeOK
<1>3. ASSUME NEW p \in Openers, NEW f \in Files, SqlOpens(p, f), p # q
      PROVE  fd'[q] = fd[q]
    BY <1>3 DEF SqlOpens, TypeOK
<1>4. ASSUME NEW p \in Openers, NEW f \in Files, Stat(p, f) \/ Unlink(p, f) \/ Check(p, f)
      PROVE  pc[q] = "using" /\ fd'[q] = fd[q] /\ shadowMode[q] = shadowRWMode
    BY <1>4, <1>2 DEF Stat, Unlink, Check, LoopOver, TypeOK
<1>5. ASSUME NEW p \in Openers, NEW f \in Files, Create(p, f)
      PROVE  pc[q] = "using" /\ fd'[q] = fd[q] /\ shadowMode[q] = shadowRWMode
    BY <1>5, <1>2, <1>3 DEF Create, TypeOK
<1>6. ASSUME NEW p \in Openers, Open(p)
      PROVE  pc[q] = "using" /\ fd'[q] = fd[q] /\ shadowMode[q] = shadowRWMode
    BY <1>6, <1>2, <1>3 DEF Open, Files, TypeOK
<1>7. ASSUME NEW p \in Openers, Attach(p)
      PROVE  \/ pc[q] = "using" /\ fd'[q] = fd[q] /\ shadowMode[q] = shadowRWMode
             \/ q \in NeverPurge /\ pc[q] = "attach" /\ SqlOpens(q, "shadow")
    BY <1>7, <1>2, <1>3 DEF Attach, Purges, Files, TypeOK
<1>8. ASSUME NEW p \in Openers,
             Start(p) \/ Rmdir(p) \/ Mkdir(p) \/ Tables(p) \/ Chown(p) \/ Chmod(p) \/ FindMode(p)
      PROVE  pc[q] = "using" /\ fd'[q] = fd[q] /\ shadowMode[q] = shadowRWMode
    BY <1>8, <1>2 DEF Start, Rmdir, Mkdir, Tables, Chown, Chmod, FindMode, LoopOver, TypeOK
<1>9. ASSUME NEW p \in Openers, Purge(p) \/ Record(p) \/ Close(p) \/ Crash(p)
      PROVE  /\ fd'[q] = fd[q] /\ shadowMode[q] = shadowRWMode
             /\ pc[q] = "using" \/ (pc[q] = "purge" /\ HasTables(q))
    BY <1>9, <1>2 DEF Purge, Record, Close, Crash, openerVars, TypeOK
<1>. QED  BY NextCases, <1>1, <1>4, <1>5, <1>6, <1>7, <1>8, <1>9

\* A cache New hands out for writing to a caller whose expiration is not 0 has all its
\* tables, for any number of processes that open and create it at once and may die.
THEOREM WritableTables == Spec => []WritableHasTables
<1>1. Init => WritableHasTables
    BY DEF Init, WritableHasTables
<1>2. ASSUME TypeOK, TypeOK', WritableHasTables, [Next]_vars
      PROVE  WritableHasTables'
    <2>. SUFFICES ASSUME NEW q \in Openers \ NeverPurge, pc'[q] = "using",
                         shadowMode'[q] = shadowRWMode, NEW f \in Files, fd'[q][f] # None
                  PROVE  node'[f][fd'[q][f]].tables
        BY DEF WritableHasTables, HasTables, shadowRWMode
    <2>1. fd'[q] = fd[q] /\ HasTables(q)
        BY <1>2, BecomesUsable DEF WritableHasTables
    <2>2. fd[q][f] \in Inodes /\ node[f][fd[q][f]].tables
        BY <1>2, <2>1 DEF TypeOK, HasTables
    <2>. QED  BY <1>2, <2>1, <2>2, TablesStay
<1>. QED  BY <1>1, <1>2, CreateTyping, PTL DEF Spec

-----------------------------------------------------------------------------
(* As long as nobody opens the cache while another creates it.             *)

\* A login has been recorded in the file f of the directory.
Users(f) == entry[f] # None /\ node[f][entry[f]].users

\* q uses a cache and has the file f open.
Uses(q, f) == pc[q] = "using" /\ fd[q][f] # None

AllSound == \A f \in Files : checkFilePermission(f)

\* Who creates is alone in opening; what is used or recorded is in sound files, which nobody is
\* creating; an opener past the checks has found, and has opened, sound files.
AloneInv ==
    /\ Calm
    /\ \A q \in Openers, f \in Files : Uses(q, f) => AllSound /\ fd[q][f] = entry[f]
    /\ \A f \in Files : Users(f) => AllSound
    /\ \A p \in Openers : Creating(p) =>
          /\ \A q \in Openers, f \in Files : ~Uses(q, f)
          /\ \A f \in Files : ~Users(f)
    /\ \A p \in Openers : pc[p] = "check" => \A f \in Files \ todo[p] : checkFilePermission(f)
    /\ \A p \in Openers : pc[p] \in {"access", "open", "attach", "purge"} => AllSound
    /\ \A p \in Openers : pc[p] \in {"attach", "purge"} => fd[p]["passwd"] = entry["passwd"]
    /\ \A p \in Openers : pc[p] = "purge" => fd[p]["shadow"] = entry["shadow"]
    /\ \A p \in Openers : pc[p] \notin {"tables", "attach", "purge", "using"} => fd[p] = NoFd

\* Where neither paths nor inodes change, neither do the permission check and what is
\* recorded.
LEMMA QuietDirectory ==
    ASSUME UNCHANGED <<entry, node>>
    PROVE  /\ \A f \in Files : checkFilePermission(f)' <=> checkFilePermission(f)
           /\ \A f \in Files : Users(f)' <=> Users(f)
           /\ AllSound' <=> AllSound
BY DEF checkFilePermission, Users, AllSound

\* An opener that gives up leaves everything as it is for the others.
LEMMA LeaveKeepsAlone ==
    ASSUME TypeOK, AloneInv, Calm', NEW p \in Openers, Leave(p), UNCHANGED <<entry, node>>
    PROVE  AloneInv'
<1>1. pc' = [pc EXCEPT ![p] = "over"] /\ fd' = [fd EXCEPT ![p] = NoFd]
      /\ todo' = [todo EXCEPT ![p] = {}] /\ needsCreate' = [needsCreate EXCEPT ![p] = FALSE]
    BY DEF Leave
<1>2. \A q \in Openers : q # p =>
        /\ pc'[q] = pc[q] /\ fd'[q] = fd[q] /\ todo'[q] = todo[q] /\ needsCreate'[q] = needsCreate[q]
    BY <1>1 DEF TypeOK
<1>3. pc'[p] = "over" /\ fd'[p] = NoFd
    BY <1>1 DEF TypeOK
<1>4. \A q \in Openers, f \in Files : Uses(q, f)' => q # p /\ Uses(q, f)
    BY <1>2, <1>3 DEF Uses
<1>5. \A q \in Openers : Creating(q)' => q # p /\ Creating(q)
    BY <1>2, <1>3 DEF Creating
<1>. QED
    BY <1>2, <1>3, <1>4, <1>5, QuietDirectory DEF AloneInv

\* A step of one opener that only moves it within the opening, touching neither the
\* directory nor its connection.
LEMMA MoveKeepsAlone ==
    ASSUME TypeOK, TypeOK', AloneInv, Calm', NEW p \in Openers, NEW b,
           pc' = [pc EXCEPT ![p] = b], UNCHANGED <<entry, node, fd>>,
           \A q \in Openers : q # p => todo'[q] = todo[q] /\ needsCreate'[q] = needsCreate[q],
           b # "using",
           Creating(p)' => Creating(p) \/ ~AllSound,
           b = "check" => \A f \in Files \ todo'[p] : checkFilePermission(f),
           b \in {"access", "open", "attach", "purge"} => AllSound,
           b \notin {"attach", "purge"},
           pc[p] \notin {"tables", "attach", "purge", "using"}
    PROVE  AloneInv'
<1>1. \A q \in Openers : q # p =>
        /\ pc'[q] = pc[q] /\ todo'[q] = todo[q] /\ needsCreate'[q] = needsCreate[q]
    BY DEF TypeOK
<1>2. pc'[p] = b
    BY DEF TypeOK
<1>3. \A q \in Openers, f \in Files : Uses(q, f)' => Uses(q, f)
    BY <1>1, <1>2 DEF Uses
<1>4. \A q \in Openers : q # p => (Creating(q)' => Creating(q))
    BY <1>1 DEF Creating
<1>5. \A q \in Openers : Creating(q)' =>
          /\ \A r \in Openers, f \in Files : ~Uses(r, f)
          /\ \A f \in Files : ~Users(f)
    BY <1>4 DEF AloneInv
<1>. QED
    BY <1>1, <1>2, <1>3, <1>5, QuietDirectory DEF AloneInv

\* A step of a process that is creating the cache, on the directory and its own
\* connection: nobody else is past the start, nothing is used or recorded.
LEMMA CreationKeepsAlone ==
    ASSUME TypeOK, TypeOK', AloneInv, Calm', NEW p \in Openers, NEW b,
           pc' = [pc EXCEPT ![p] = b],
           b \in {"unlink", "rmdir", "mkdir", "create", "tables", "chown", "chmod", "check"},
           Creating(p), UNCHANGED needsCreate,
           \A q \in Openers : q # p => fd'[q] = fd[q] /\ todo'[q] = todo[q],
           b # "tables" => fd'[p] = NoFd,
           b = "check" => todo'[p] = Files,
           \A f \in Files : ~Users(f)'
    PROVE  AloneInv'
<1>1. \A q \in Openers : q # p =>
        /\ pc'[q] = pc[q] /\ todo'[q] = todo[q] /\ needsCreate'[q] = needsCreate[q] /\ fd'[q] = fd[q]
    BY DEF TypeOK
<1>2. pc'[p] = b
    BY DEF TypeOK
<1>3. Opening(p)
    BY DEF Creating, Opening
<1>4. \A q \in Openers : q # p => ~Opening(q)
    BY <1>3 DEF AloneInv, Calm
<1>5. \A q \in Openers, f \in Files : ~Uses(q, f)'
    BY <1>1, <1>2 DEF Uses, AloneInv
<1>6. \A q \in Openers : q # p =>
        pc'[q] \notin {"check", "access", "open", "attach", "purge", "tables"}
    BY <1>1, <1>4 DEF Opening
<1>. QED
    BY <1>1, <1>2, <1>5, <1>6 DEF AloneInv

\* p starts to use what it has opened.
LEMMA UseKeepsAlone ==
    ASSUME TypeOK, AloneInv, Calm', NEW p \in Openers,
           pc' = [pc EXCEPT ![p] = "using"], UNCHANGED <<entry, node, todo, needsCreate>>,
           AllSound,
           \A q \in Openers : q # p => fd'[q] = fd[q],
           \A f \in Files : fd'[p][f] # None => fd'[p][f] = entry[f],
           Opening(p)
    PROVE  AloneInv'
<1>1. \A q \in Openers : q # p => pc'[q] = pc[q] /\ ~Creating(q)
    BY DEF TypeOK, AloneInv, Calm
<1>2. pc'[p] = "using"
    BY DEF TypeOK
<1>3. \A q \in Openers : ~Creating(q)'
    BY <1>1, <1>2 DEF Creating
<1>4. \A q \in Openers, f \in Files : Uses(q, f)' => fd'[q][f] = entry[f]
    BY <1>1 DEF Uses, AloneInv
<1>. QED
    BY <1>1, <1>2, <1>3, <1>4, QuietDirectory DEF AloneInv

\* Changing an inode without recording a login in it records none in the directory.
LEMMA NoNewUsers ==
    ASSUME TypeOK, TypeOK', NEW g \in Files, NEW i, NEW n, SetNode(g, i, n), ~n.users,
           \A f \in Files : ~Users(f),
           \A f \in Files : entry'[f] \in {entry[f], None} \/ (f = g /\ entry'[f] = i)
    PROVE  \A f \in Files : ~Users(f)'
<1>. SUFFICES ASSUME NEW f \in Files, entry'[f] # None  PROVE ~node'[f][entry'[f]].users
    BY DEF Users
<1>1. entry'[f] \in Inodes
    BY DEF TypeOK
<1>2. CASE f = g /\ entry'[f] = i
    BY <1>1, <1>2 DEF SetNode, TypeOK
<1>3. CASE entry'[f] = entry[f] /\ ~(f = g /\ entry'[f] = i)
    BY <1>1, <1>3 DEF SetNode, TypeOK, Users
<1>. QED  BY <1>2, <1>3

\* As long as who creates is alone in opening, every step keeps AloneInv.
LEMMA AloneStep ==
    ASSUME TypeOK, TypeOK', AloneInv, Calm', [Next]_vars
    PROVE  AloneInv'
<1>1. CASE UNCHANGED vars
    BY <1>1, QuietDirectory
       DEF vars, dirVars, openerVars, AloneInv, Uses, Creating, Opening
<1>2. ASSUME NEW p \in Openers, Start(p)  PROVE AloneInv'
    <2>1. \A q \in Openers : q # p => pc'[q] = pc[q] /\ todo'[q] = todo[q]
        BY <1>2 DEF Start, TypeOK
    <2>2. pc'[p] = "stat" /\ ~needsCreate'[p] /\ pc[p] = "idle" /\ fd' = fd
        BY <1>2 DEF Start, TypeOK
    <2>3. \A q \in Openers : ~Creating(q)'
        BY <2>2 DEF Calm, Opening, Creating
    <2>4. \A q \in Openers, f \in Files : Uses(q, f)' => Uses(q, f)
        BY <2>1, <2>2 DEF Uses
    <2>5. UNCHANGED <<entry, node>>
        BY <1>2 DEF Start, dirVars
    <2>. QED
        BY <2>1, <2>2, <2>3, <2>4, <2>5, QuietDirectory DEF AloneInv
<1>3. ASSUME NEW p \in Openers, NEW f \in Files, Stat(p, f)  PROVE AloneInv'
    <2>1. CASE Leave(p) /\ UNCHANGED dirVars
        BY <2>1, LeaveKeepsAlone DEF dirVars
    <2>2. ASSUME NEW needs \in BOOLEAN, needs <=> needsCreate[p] \/ entry[f] = None,
                 needsCreate' = [needsCreate EXCEPT ![p] = needs],
                 LoopOver(p, f, "stat", IF needs THEN "unlink" ELSE "check"),
                 UNCHANGED <<cur, fd, shadowMode, dirVars>>
          PROVE  AloneInv'
        <3>. DEFINE b == IF todo[p] = {f} THEN (IF needs THEN "unlink" ELSE "check") ELSE "stat"
        <3>1. pc' = [pc EXCEPT ![p] = b] /\ pc[p] = "stat"
            BY <1>3, <2>2 DEF LoopOver, Stat
        <3>2. \A q \in Openers : q # p => todo'[q] = todo[q] /\ needsCreate'[q] = needsCreate[q]
            BY <2>2 DEF LoopOver, TypeOK
        <3>3. Creating(p)' => needs
            BY <2>2, <3>1 DEF Creating, TypeOK
        <3>4. needs => Creating(p) \/ ~AllSound
            BY <2>2, <3>1 DEF Creating, AllSound, checkFilePermission
        <3>5. b = "check" => todo'[p] = Files
            BY <2>2 DEF LoopOver, TypeOK
        <3>6. b \in {"stat", "unlink", "check"}
            OBVIOUS
        <3>7. Opening(p) /\ UNCHANGED <<entry, node, fd>>
            BY <2>2, <3>1 DEF Opening, dirVars
        <3>. HIDE DEF b
        <3>. QED  BY <3>1, <3>2, <3>3, <3>4, <3>5, <3>6, <3>7, MoveKeepsAlone
    <2>. QED  BY <1>3, <2>1, <2>2 DEF Stat, TypeOK
<1>4. ASSUME NEW p \in Openers, NEW f \in Files, Unlink(p, f)  PROVE AloneInv'
    <2>. DEFINE b == IF todo[p] = {f} THEN "rmdir" ELSE "unlink"
    <2>1. pc' = [pc EXCEPT ![p] = b] /\ pc[p] = "unlink" /\ UNCHANGED <<needsCreate, fd>>
        BY <1>4 DEF LoopOver, Unlink
    <2>2. Creating(p) /\ fd[p] = NoFd
        BY <2>1 DEF Creating, AloneInv
    <2>3. \A g \in Files : ~Users(g)'
        BY <1>4, <2>2 DEF Unlink, Users, AloneInv, TypeOK
    <2>4. \A q \in Openers : q # p => todo'[q] = todo[q]
        BY <1>4 DEF Unlink, LoopOver, TypeOK
    <2>5. b \in {"rmdir", "unlink"}
        OBVIOUS
    <2>. HIDE DEF b
    <2>. QED  BY <2>1, <2>2, <2>3, <2>4, <2>5, CreationKeepsAlone
<1>5. ASSUME NEW p \in Openers, Rmdir(p) \/ Mkdir(p)  PROVE AloneInv'
    <2>1. CASE Leave(p) /\ UNCHANGED dirVars
        BY <2>1, LeaveKeepsAlone DEF dirVars
    <2>2. ASSUME NEW b \in {"mkdir", "create"}, pc[p] \in {"rmdir", "mkdir"},
                 pc' = [pc EXCEPT ![p] = b],
                 UNCHANGED <<entry, node, todo, needsCreate, cur, fd, shadowMode>>
          PROVE  AloneInv'
        <3>1. Creating(p) /\ fd[p] = NoFd
            BY <2>2 DEF Creating, AloneInv
        <3>2. \A g \in Files : ~Users(g)'
            BY <2>2, <3>1 DEF Users, AloneInv
        <3>. QED  BY <2>2, <3>1, <3>2, CreationKeepsAlone
    <2>. QED  BY <1>5, <2>1, <2>2 DEF Rmdir, Mkdir
<1>6. ASSUME NEW p \in Openers, NEW f \in Files, Create(p, f)  PROVE AloneInv'
    <2>1. CASE Leave(p) /\ UNCHANGED dirVars
        BY <2>1, LeaveKeepsAlone DEF dirVars
    <2>2. CASE SqlOpens(p, f) /\ pc' = [pc EXCEPT ![p] = "tables"] /\ UNCHANGED <<todo, needsCreate>>
        <3>1. Creating(p)
            BY <1>6 DEF Creating, Create
        <3>2. \A g \in Files : ~Users(g)
            BY <3>1 DEF AloneInv
        <3>3. \A g \in Files : ~Users(g)'
            <4>1. CASE UNCHANGED dirVars
                BY <3>2, <4>1 DEF Users, dirVars
            <4>2. ASSUME NEW i \in Inodes, entry' = [entry EXCEPT ![f] = i], SetNode(f, i, EmptyNode)
                  PROVE  \A g \in Files : ~Users(g)'
                <5>1. ~EmptyNode.users
                    BY DEF EmptyNode
                <5>2. \A g \in Files : entry'[g] \in {entry[g], None} \/ (g = f /\ entry'[g] = i)
                    BY <4>2 DEF TypeOK
                <5>. QED  BY <3>2, <4>2, <5>1, <5>2, NoNewUsers
            <4>. QED  BY <2>2, <4>1, <4>2 DEF SqlOpens
        <3>4. \A q \in Openers : q # p => fd'[q] = fd[q]
            BY <2>2 DEF SqlOpens, TypeOK
        <3>. QED  BY <2>2, <3>1, <3>3, <3>4, CreationKeepsAlone
    <2>. QED  BY <1>6, <2>1, <2>2 DEF Create
<1>7. ASSUME NEW p \in Openers, Tables(p)  PROVE AloneInv'
    <2>1. CASE Leave(p) /\ UNCHANGED dirVars
        BY <2>1, LeaveKeepsAlone DEF dirVars
    <2>2. CASE /\ SetNode(cur[p], fd[p][cur[p]], [node[cur[p]][fd[p][cur[p]]] EXCEPT !.tables = TRUE])
               /\ fd' = [fd EXCEPT ![p] = NoFd]
               /\ pc' = [pc EXCEPT ![p] = "chown"]
               /\ UNCHANGED <<dir, entry, todo, needsCreate, cur, shadowMode>>
        <3>1. Creating(p)
            BY <1>7 DEF Creating, Tables
        <3>2. \A g \in Files : ~Users(g)
            BY <3>1 DEF AloneInv
        <3>3. \A g \in Files : ~Users(g)'
            <4>. SUFFICES ASSUME NEW g \in Files, entry[g] # None
                          PROVE  ~node'[g][entry[g]].users
                BY <2>2 DEF Users
            <4>1. entry[g] \in Inodes /\ node[g][entry[g]] \in Nodes /\ ~node[g][entry[g]].users
                BY <3>2 DEF TypeOK, Users
            <4>2. node'[g][entry[g]] \in {node[g][entry[g]], [node[g][entry[g]] EXCEPT !.tables = TRUE]}
                BY <2>2, <4>1 DEF SetNode, TypeOK
            <4>. QED  BY <4>1, <4>2 DEF Nodes
        <3>4. (\A q \in Openers : q # p => fd'[q] = fd[q]) /\ fd'[p] = NoFd
            BY <2>2 DEF TypeOK
        <3>. QED  BY <2>2, <3>1, <3>3, <3>4, CreationKeepsAlone
    <2>. QED  BY <1>7, <2>1, <2>2 DEF Tables
<1>8. ASSUME NEW p \in Openers, Chown(p)  PROVE AloneInv'
    <2>1. CASE Leave(p) /\ UNCHANGED dirVars
        BY <2>1, LeaveKeepsAlone DEF dirVars
    <2>2. CASE /\ SetNode(cur[p], entry[cur[p]],
                          [node[cur[p]][entry[cur[p]]] EXCEPT !.group = fileGOwner[cur[p]]])
               /\ pc' = [pc EXCEPT ![p] = "chmod"]
               /\ UNCHANGED <<dir, entry, todo, needsCreate, cur, fd, shadowMode>>
        <3>1. Creating(p) /\ fd[p] = NoFd
            BY <1>8 DEF Creating, Chown, AloneInv
        <3>2. \A g \in Files : ~Users(g)
            BY <3>1 DEF AloneInv
        <3>3. \A g \in Files : ~Users(g)'
            <4>. SUFFICES ASSUME NEW g \in Files, entry[g] # None
                          PROVE  ~node'[g][entry[g]].users
                BY <2>2 DEF Users
            <4>1. entry[g] \in Inodes /\ node[g][entry[g]] \in Nodes /\ ~node[g][entry[g]].users
                BY <3>2 DEF TypeOK, Users
            <4>2. node'[g][entry[g]] \in {node[g][entry[g]],
                                        [node[g][entry[g]] EXCEPT !.group = fileGOwner[cur[p]]]}
                BY <2>2, <4>1 DEF SetNode, TypeOK
            <4>. QED  BY <4>1, <4>2 DEF Nodes
        <3>. QED  BY <2>2, <3>1, <3>3, CreationKeepsAlone
    <2>. QED  BY <1>8, <2>1, <2>2 DEF Chown
<1>9. ASSUME NEW p \in Openers, Chmod(p)  PROVE AloneInv'
    <2>1. CASE Leave(p) /\ UNCHANGED dirVars
        BY <2>1, LeaveKeepsAlone DEF dirVars
    <2>2. CASE /\ SetNode(cur[p], entry[cur[p]],
                          [node[cur[p]][entry[cur[p]]] EXCEPT !.mode = filePermission[cur[p]]])
               /\ LoopOver(p, cur[p], "create", "check")
               /\ UNCHANGED <<dir, entry, needsCreate, cur, fd, shadowMode>>
        <3>. DEFINE b == IF todo[p] = {cur[p]} THEN "check" ELSE "create"
        <3>1. Creating(p) /\ fd[p] = NoFd
            BY <1>9 DEF Creating, Chmod, AloneInv
        <3>2. \A g \in Files : ~Users(g)
            BY <3>1 DEF AloneInv
        <3>3. \A g \in Files : ~Users(g)'
            <4>. SUFFICES ASSUME NEW g \in Files, entry[g] # None
                          PROVE  ~node'[g][entry[g]].users
                BY <2>2 DEF Users
            <4>1. entry[g] \in Inodes /\ node[g][entry[g]] \in Nodes /\ ~node[g][entry[g]].users
                BY <3>2 DEF TypeOK, Users
            <4>2. node'[g][entry[g]] \in {node[g][entry[g]],
                                        [node[g][entry[g]] EXCEPT !.mode = filePermission[cur[p]]]}
                BY <2>2, <4>1 DEF SetNode, TypeOK
            <4>. QED  BY <4>1, <4>2 DEF Nodes
        <3>4. pc' = [pc EXCEPT ![p] = b]
            BY <2>2 DEF LoopOver
        <3>5. \A q \in Openers : q # p => todo'[q] = todo[q]
            BY <2>2 DEF LoopOver, TypeOK
        <3>6. b = "check" => todo'[p] = Files
            BY <2>2 DEF LoopOver, TypeOK
        <3>7. b \in {"check", "create"}
            OBVIOUS
        <3>. HIDE DEF b
        <3>. QED  BY <2>2, <3>1, <3>3, <3>4, <3>5, <3>6, <3>7, CreationKeepsAlone
    <2>. QED  BY <1>9, <2>1, <2>2 DEF Chmod
<1>10. ASSUME NEW p \in Openers, NEW f \in Files, Check(p, f)  PROVE AloneInv'
    <2>1. CASE Leave(p)
        BY <1>10, <2>1, LeaveKeepsAlone DEF Check, dirVars
    <2>2. CASE /\ checkFilePermission(f) /\ LoopOver(p, f, "check", "access")
               /\ UNCHANGED <<needsCreate, cur, fd, shadowMode>>
        <3>. DEFINE b == IF todo[p] = {f} THEN "access" ELSE "check"
        <3>1. pc' = [pc EXCEPT ![p] = b] /\ pc[p] = "check" /\ UNCHANGED <<entry, node, fd, needsCreate>>
            BY <1>10, <2>2 DEF LoopOver, Check, dirVars
        <3>2. \A q \in Openers : q # p => todo'[q] = todo[q]
            BY <2>2 DEF LoopOver, TypeOK
        <3>3. \A g \in Files \ todo[p] : checkFilePermission(g)
            BY <3>1 DEF AloneInv
        <3>4. b = "access" => AllSound
            BY <2>2, <3>3 DEF AllSound
        <3>5. b = "check" => \A g \in Files \ todo'[p] : checkFilePermission(g)
            BY <2>2, <3>3 DEF LoopOver, TypeOK
        <3>6. b \in {"access", "check"}
            OBVIOUS
        <3>7. Opening(p) /\ ~Creating(p)'
            <4>1. pc'[p] = b
                BY <3>1 DEF TypeOK
            <4>. QED  BY <3>1, <3>6, <4>1 DEF Opening, Creating
        <3>. HIDE DEF b
        <3>. QED  BY <3>1, <3>2, <3>4, <3>5, <3>6, <3>7, MoveKeepsAlone
    <2>. QED  BY <1>10, <2>1, <2>2 DEF Check
<1>11. ASSUME NEW p \in Openers, FindMode(p)  PROVE AloneInv'
    <2>1. pc[p] = "access" /\ UNCHANGED <<entry, node, fd, todo, needsCreate>>
        BY <1>11 DEF FindMode, dirVars
    <2>2. AllSound /\ fd[p] = NoFd /\ Opening(p)
        BY <2>1 DEF AloneInv, Opening
    <2>3. CASE pc' = [pc EXCEPT ![p] = "open"]
        <3>1. ~Creating(p)'
            BY <2>3 DEF Creating, TypeOK
        <3>2. \A q \in Openers : todo'[q] = todo[q] /\ needsCreate'[q] = needsCreate[q]
            BY <2>1
        <3>3. UNCHANGED <<entry, node, fd>>
            BY <2>1
        <3>. DEFINE b == "open"
        <3>4. /\ pc' = [pc EXCEPT ![p] = b] /\ b # "using" /\ b # "check" /\ b \notin {"attach", "purge"}
              /\ pc[p] \notin {"tables", "attach", "purge", "using"}
            BY <2>1, <2>3
        <3>. HIDE DEF b
        <3>. QED  BY <2>2, <3>1, <3>2, <3>3, <3>4, MoveKeepsAlone
    <2>4. CASE pc' = [pc EXCEPT ![p] = "using"]
        BY <2>1, <2>2, <2>4, UseKeepsAlone DEF NoFd
    <2>. QED  BY <1>11, <2>3, <2>4 DEF FindMode
<1>12. ASSUME NEW p \in Openers, Open(p) \/ Attach(p)  PROVE AloneInv'
    <2>1. CASE Leave(p) /\ UNCHANGED dirVars
        BY <2>1, LeaveKeepsAlone DEF dirVars
    <2>2. pc[p] \in {"open", "attach"}
        BY <1>12 DEF Open, Attach
    <2>3. AllSound /\ Opening(p) /\ \A f \in Files : entry[f] # None
        BY <2>2 DEF AloneInv, Opening, AllSound, checkFilePermission
    <2>4. \A q \in Openers : ~Creating(q)
        BY <2>2, <2>3 DEF AloneInv, Calm, Creating
    <2>5. ASSUME NEW f \in Files, SqlOpens(p, f)
          PROVE  fd' = [fd EXCEPT ![p][f] = entry[f]] /\ UNCHANGED <<entry, node>>
        BY <2>3, <2>5 DEF SqlOpens, dirVars
    <2>6. ASSUME NEW b \in {"attach", "purge"}, pc' = [pc EXCEPT ![p] = b],
                 UNCHANGED <<entry, node, todo, needsCreate>>,
                 \A q \in Openers : q # p => fd'[q] = fd[q],
                 fd'[p]["passwd"] = entry["passwd"],
                 b = "purge" => fd'[p]["shadow"] = entry["shadow"]
          PROVE  AloneInv'
        <3>1. \A q \in Openers : q # p => pc'[q] = pc[q] /\ fd'[q] = fd[q]
            BY <2>6 DEF TypeOK
        <3>2. pc'[p] = b
            BY <2>6 DEF TypeOK
        <3>3. \A q \in Openers : ~Creating(q)'
            BY <2>4, <2>6, <3>1, <3>2 DEF Creating
        <3>4. \A q \in Openers, f \in Files : Uses(q, f)' => Uses(q, f) /\ q # p
            BY <3>1, <3>2 DEF Uses
        <3>. QED
            BY <2>3, <2>6, <3>1, <3>2, <3>3, <3>4, QuietDirectory DEF AloneInv
    <2>7. CASE Open(p) /\ SqlOpens(p, "passwd") /\ pc' = [pc EXCEPT ![p] = "attach"]
               /\ UNCHANGED <<todo, needsCreate>>
        <3>1. fd' = [fd EXCEPT ![p]["passwd"] = entry["passwd"]] /\ UNCHANGED <<entry, node>>
            BY <2>5, <2>7 DEF Files
        <3>2. (\A q \in Openers : q # p => fd'[q] = fd[q]) /\ fd'[p]["passwd"] = entry["passwd"]
            BY <3>1 DEF TypeOK, Files
        <3>. QED  BY <2>6, <2>7, <3>1, <3>2
    <2>8. CASE Attach(p) /\ SqlOpens(p, "shadow") /\ UNCHANGED <<todo, needsCreate>>
               /\ pc' = [pc EXCEPT ![p] = IF Purges(p) THEN "purge" ELSE "using"]
        <3>1. fd' = [fd EXCEPT ![p]["shadow"] = entry["shadow"]] /\ UNCHANGED <<entry, node>>
            BY <2>5, <2>8 DEF Files
        <3>2. fd[p]["passwd"] = entry["passwd"]
            BY <2>8 DEF Attach, AloneInv
        <3>3. (\A q \in Openers : q # p => fd'[q] = fd[q]) /\ fd'[p]["passwd"] = entry["passwd"]
              /\ fd'[p]["shadow"] = entry["shadow"]
            BY <3>1, <3>2 DEF TypeOK, Files
        <3>4. CASE pc' = [pc EXCEPT ![p] = "purge"]
            BY <2>6, <2>8, <3>1, <3>3, <3>4
        <3>5. CASE pc' = [pc EXCEPT ![p] = "using"]
            BY <2>3, <2>8, <3>1, <3>3, <3>5, UseKeepsAlone DEF Files
        <3>. QED  BY <2>8, <3>4, <3>5
    <2>. QED  BY <1>12, <2>1, <2>7, <2>8 DEF Open, Attach
<1>13. ASSUME NEW p \in Openers, Purge(p)  PROVE AloneInv'
    <2>1. pc[p] = "purge" /\ UNCHANGED <<entry, node>>
        BY <1>13 DEF Purge, dirVars
    <2>2. AllSound /\ Opening(p) /\ \A f \in Files : fd[p][f] = entry[f]
        BY <2>1 DEF AloneInv, Opening, Files
    <2>3. CASE Leave(p)
        BY <2>1, <2>3, LeaveKeepsAlone
    <2>4. CASE pc' = [pc EXCEPT ![p] = "using"] /\ UNCHANGED <<todo, needsCreate, fd>>
        BY <2>1, <2>2, <2>4, UseKeepsAlone
    <2>. QED  BY <1>13, <2>3, <2>4 DEF Purge
<1>14. ASSUME NEW p \in Openers, Record(p)  PROVE AloneInv'
    <2>1. UNCHANGED <<dir, entry, pc, todo, needsCreate, fd>> /\ pc[p] = "using"
        BY <1>14 DEF Record, openerVars
    <2>2. ASSUME NEW f \in Files, NEW i \in Inodes
          PROVE  /\ node'[f][i].mode = node[f][i].mode /\ node'[f][i].group = node[f][i].group
                 /\ node'[f][i].users => node[f][i].users \/ fd[p][f] = i
        <3>1. node'[f][i] = [node[f][i] EXCEPT !.users = @ \/ fd[p][f] = i]
            BY <1>14 DEF Record
        <3>2. node[f][i] \in Nodes
            BY DEF TypeOK
        <3>. DEFINE b == node[f][i].users \/ fd[p][f] = i
        <3>3. node'[f][i] = [node[f][i] EXCEPT !.users = b]
            BY <3>1
        <3>. HIDE DEF b
        <3>4. /\ node'[f][i].mode = node[f][i].mode /\ node'[f][i].group = node[f][i].group
              /\ node'[f][i].users = b
            BY <3>2, <3>3 DEF Nodes
        <3>. QED  BY <3>4 DEF b
    <2>3. \A f \in Files : checkFilePermission(f)' <=> checkFilePermission(f)
        BY <2>1, <2>2 DEF checkFilePermission, TypeOK
    <2>4. \A f \in Files : Users(f)' => Users(f) \/ Uses(p, f)
        BY <2>1, <2>2 DEF Users, Uses, TypeOK
    <2>5. AllSound' <=> AllSound
        BY <2>3 DEF AllSound
    <2>6. \A q \in Openers : (Creating(q)' <=> Creating(q)) /\ (Opening(q)' <=> Opening(q))
        BY <2>1 DEF Creating, Opening
    <2>7. \A q \in Openers, f \in Files : Uses(q, f)' <=> Uses(q, f)
        BY <2>1 DEF Uses
    <2>. QED  BY <2>1, <2>3, <2>4, <2>5, <2>6, <2>7 DEF AloneInv
<1>15. ASSUME NEW p \in Openers, Close(p) \/ Crash(p)  PROVE AloneInv'
    BY <1>15, LeaveKeepsAlone DEF Close, Crash, dirVars
<1>. QED
    BY NextCases, <1>1, <1>2, <1>3, <1>4, <1>5, <1>6, <1>7, <1>8, <1>9, <1>10, <1>11,
       <1>12, <1>13, <1>14, <1>15

\* At first nobody opens the cache.
LEMMA AloneInit == Init => AloneInv
BY DEF Init, AloneInv, Calm, Opening, Uses, Users, Creating, NoFd

\* AloneInv holds until one opens the cache while another creates it.
LEMMA AloneAlways == Spec => [](TypeOK /\ (raced \/ AloneInv))
<1>1. ASSUME TypeOK, raced \/ AloneInv, [Next]_vars
      PROVE  (TypeOK /\ (raced \/ AloneInv))'
    <2>1. TypeOK'
        BY <1>1, TypeStep
    <2>2. ASSUME ~raced'  PROVE AloneInv'
        <3>1. ~raced
            BY <1>1, <2>2 DEF Next, vars
        <3>2. AloneInv
            BY <1>1, <3>1
        <3>3. Calm'
            <4>1. CASE Next
                BY <2>2, <4>1 DEF Next
            <4>2. CASE UNCHANGED vars
                BY <3>2, <4>2 DEF AloneInv, Calm, Creating, Opening, vars, openerVars
            <4>. QED  BY <1>1, <4>1, <4>2
        <3>. QED  BY <1>1, <2>1, <3>2, <3>3, AloneStep
    <2>. QED  BY <2>1, <2>2
<1>. QED  BY <1>1, InitType, AloneInit, PTL DEF Spec

\* As long as nobody opens the cache while another creates it, what each process uses
\* is the cache of the directory, also after crashes in the middle of a creation.
THEOREM AloneOpenedIsCurrent == Spec => []OpenedIsCurrent
<1>1. raced \/ AloneInv => OpenedIsCurrent
    BY DEF AloneInv, OpenedIsCurrent, Uses
<1>. QED  BY <1>1, AloneAlways, PTL

\* As long as nobody opens the cache while another creates it, a file that holds a
\* login has the group and permission initDB gives it.
THEOREM AloneRecordedIsProtected == Spec => []RecordedIsProtected
<1>1. raced \/ AloneInv => RecordedIsProtected
    BY DEF AloneInv, RecordedIsProtected, Users, AllSound, checkFilePermission
<1>. QED  BY <1>1, AloneAlways, PTL

\* As long as nobody opens the cache while another creates it, none removes a cache a
\* login has been recorded in.
THEOREM AloneRecordedStays == Spec => RecordedStays
<1>1. ASSUME TypeOK, AloneInv, [Next]_vars, NEW f \in Files, Users(f)
      PROVE  entry'[f] = entry[f]
    <2>1. \A p \in Openers : ~Creating(p)
        BY <1>1 DEF AloneInv
    <2>2. entry[f] # None
        BY <1>1 DEF Users
    <2>3. ASSUME NEW p \in Openers, NEW g \in Files, SqlOpens(p, g)
          PROVE  entry'[f] = entry[f]
        BY <1>1, <2>2, <2>3 DEF SqlOpens, dirVars, TypeOK
    <2>4. ASSUME NEW p \in Openers, NEW g \in Files,
                 \/ Start(p) \/ Record(p) \/ Close(p) \/ Crash(p) \/ Stat(p, g) \/ Check(p, g)
                 \/ Rmdir(p) \/ Mkdir(p) \/ Tables(p) \/ Chown(p) \/ Chmod(p) \/ FindMode(p) \/ Purge(p)
          PROVE  entry'[f] = entry[f]
        BY <2>4 DEF Start, Record, Close, Crash, Stat, Check, Rmdir, Mkdir, Tables, Chown, Chmod,
                    FindMode, Purge, dirVars
    <2>5. ASSUME NEW p \in Openers, NEW g \in Files, Unlink(p, g)  PROVE FALSE
        BY <2>1, <2>5 DEF Unlink, Creating
    <2>6. ASSUME NEW p \in Openers, NEW g \in Files, Create(p, g) \/ Open(p) \/ Attach(p)
          PROVE  entry'[f] = entry[f]
        BY <2>3, <2>6 DEF Create, Open, Attach, dirVars, Files
    <2>7. CASE UNCHANGED vars
        BY <2>7 DEF vars, dirVars
    <2>. QED  BY <1>1, NextCases, <2>4, <2>5, <2>6, <2>7
<1>2. TypeOK /\ (raced \/ AloneInv) /\ [Next]_vars =>
        [\A f \in Files : ~raced /\ entry[f] # None /\ node[f][entry[f]].users => entry'[f] = entry[f]]_vars
    BY <1>1 DEF Users
<1>. QED  BY <1>2, AloneAlways, PTL DEF Spec, RecordedStays

-----------------------------------------------------------------------------
(* The NSS module serves what has been recorded.                           *)

\* What SQLite opens is there, or is new and empty.
LEMMA OpenedHasNoUsers ==
    ASSUME TypeOK, NEW p \in Openers, NEW g \in Files, SqlOpens(p, g), NEW f \in Files, Users(f)'
    PROVE  Users(f)
<1>1. CASE UNCHANGED dirVars
    BY <1>1 DEF dirVars, Users
<1>2. ASSUME NEW i \in Inodes, entry' = [entry EXCEPT ![g] = i], SetNode(g, i, EmptyNode)
      PROVE  Users(f)
    <2>1. CASE f = g
        <3>1. entry'[f] = i /\ node'[f][i] = EmptyNode
            BY <1>2, <2>1 DEF SetNode, TypeOK
        <3>. QED  BY <3>1 DEF Users, EmptyNode
    <2>2. CASE f # g
        BY <1>2, <2>2 DEF SetNode, TypeOK, Users
    <2>. QED  BY <2>1, <2>2
<1>. QED  BY <1>1, <1>2 DEF SqlOpens

\* Nor does a change of tables, group or permission record a login.
LEMMA ChangedHasNoUsers ==
    ASSUME TypeOK, entry' = entry, NEW g \in Files, NEW i, NEW n, SetNode(g, i, n),
           i \in Inodes => n.users = node[g][i].users, NEW f \in Files, Users(f)'
    PROVE  Users(f)
<1>1. entry[f] \in Inodes /\ node'[f][entry[f]].users
    BY DEF Users, TypeOK
<1>2. CASE f = g /\ entry[f] = i
    BY <1>1, <1>2 DEF SetNode, TypeOK, Users
<1>3. CASE ~(f = g /\ entry[f] = i)
    BY <1>1, <1>3 DEF SetNode, TypeOK, Users
<1>. QED  BY <1>2, <1>3

\* Only Update records a login.
LEMMA WhoRecords ==
    ASSUME TypeOK, [Next]_vars, NEW f \in Files, ~Users(f), Users(f)'
    PROVE  \E p \in Openers : Record(p)
<1>1. ASSUME UNCHANGED dirVars  PROVE FALSE
    BY <1>1 DEF dirVars, Users
<1>2. ASSUME NEW p \in Openers, NEW g \in Files, Start(p) \/ Close(p) \/ Crash(p) \/ Stat(p, g) \/ Check(p, g)
             \/ FindMode(p) \/ Purge(p)
      PROVE  FALSE
    BY <1>1, <1>2 DEF Start, Close, Crash, Stat, Check, FindMode, Purge
<1>3. ASSUME NEW p \in Openers, NEW g \in Files, Unlink(p, g)  PROVE FALSE
    BY <1>3 DEF Unlink, Users, TypeOK
<1>4. ASSUME NEW p \in Openers, Rmdir(p) \/ Mkdir(p)  PROVE FALSE
    BY <1>1, <1>4 DEF Rmdir, Mkdir, Users
<1>5. ASSUME NEW p \in Openers, NEW g \in Files, Create(p, g) \/ Open(p) \/ Attach(p)  PROVE FALSE
    BY <1>1, <1>5, OpenedHasNoUsers DEF Create, Open, Attach, Files
<1>6. ASSUME NEW p \in Openers, Tables(p)  PROVE FALSE
    <2>. DEFINE g == cur[p]
                i == fd[p][g]
                n == [node[g][i] EXCEPT !.tables = TRUE]
    <2>1. g \in Files /\ (i \in Inodes => n.users = node[g][i].users)
        BY DEF TypeOK, Nodes
    <2>2. CASE entry' = entry /\ SetNode(g, i, n)
        <3>. HIDE DEF g, i, n
        <3>. QED  BY <2>1, <2>2, ChangedHasNoUsers
    <2>. QED  BY <1>1, <1>6, <2>2 DEF Tables
<1>7. ASSUME NEW p \in Openers, Chown(p)  PROVE FALSE
    <2>. DEFINE g == cur[p]
                i == entry[g]
                n == [node[g][i] EXCEPT !.group = fileGOwner[g]]
    <2>1. g \in Files /\ (i \in Inodes => n.users = node[g][i].users)
        BY DEF TypeOK, Nodes
    <2>2. CASE entry' = entry /\ SetNode(g, i, n)
        <3>. HIDE DEF g, i, n
        <3>. QED  BY <2>1, <2>2, ChangedHasNoUsers
    <2>. QED  BY <1>1, <1>7, <2>2 DEF Chown
<1>8. ASSUME NEW p \in Openers, Chmod(p)  PROVE FALSE
    <2>. DEFINE g == cur[p]
                i == entry[g]
                n == [node[g][i] EXCEPT !.mode = filePermission[g]]
    <2>1. g \in Files /\ (i \in Inodes => n.users = node[g][i].users)
        BY DEF TypeOK, Nodes
    <2>2. CASE entry' = entry /\ SetNode(g, i, n)
        <3>. HIDE DEF g, i, n
        <3>. QED  BY <2>1, <2>2, ChangedHasNoUsers
    <2>. QED  BY <1>1, <1>8, <2>2 DEF Chmod
<1>9. CASE UNCHANGED vars
    BY <1>1, <1>9 DEF vars
<1>. QED  BY NextCases, <1>2, <1>3, <1>4, <1>5, <1>6, <1>7, <1>8, <1>9

\* A cache that is there and that nobody creates is changed by the logins it records only.
LEMMA QuietStep ==
    ASSUME [Next]_vars, \A p \in Openers : ~Creating(p), \A f \in Files : entry[f] # None
    PROVE  entry' = entry /\ (node' = node \/ \E p \in Openers : Record(p))
<1>1. ASSUME NEW p \in Openers, NEW g \in Files,
             Start(p) \/ Close(p) \/ Crash(p) \/ Stat(p, g) \/ Check(p, g) \/ FindMode(p) \/ Purge(p)
      PROVE  UNCHANGED dirVars
    BY <1>1 DEF Start, Close, Crash, Stat, Check, FindMode, Purge
<1>2. ASSUME NEW p \in Openers, NEW g \in Files,
             \/ Unlink(p, g) \/ Create(p, g) \/ Rmdir(p) \/ Mkdir(p) \/ Tables(p) \/ Chown(p) \/ Chmod(p)
      PROVE  FALSE
    BY <1>2 DEF Unlink, Create, Rmdir, Mkdir, Tables, Chown, Chmod, Creating
<1>3. ASSUME NEW p \in Openers, Open(p) \/ Attach(p)  PROVE UNCHANGED dirVars
    BY <1>3 DEF Open, Attach, SqlOpens, Files
<1>4. ASSUME NEW p \in Openers, Record(p)  PROVE entry' = entry
    BY <1>4 DEF Record
<1>5. CASE UNCHANGED vars
    BY <1>5 DEF vars, dirVars
<1>6. "passwd" \in Files
    BY DEF Files
<1>. QED  BY NextCases, <1>1, <1>2, <1>3, <1>4, <1>5, <1>6 DEF dirVars

\* A cache that holds a login has its tables, and who may record one has both files open.
ServedInv ==
    /\ (\E f \in Files : Users(f)) => \A g \in Files : node[g][entry[g]].tables
    /\ \A p \in Openers : pc[p] = "using" /\ shadowMode[p] = shadowRWMode =>
          \A f \in Files : fd[p][f] # None

\* Every step of openers that do not race keeps ServedInv.
LEMMA ServedStep ==
    ASSUME TypeOK, AloneInv, ServedInv, [Next]_vars
    PROVE  ServedInv'
<1>1. ASSUME NEW q \in Openers, pc'[q] = "using", shadowMode'[q] = shadowRWMode, NEW f \in Files
      PROVE  fd'[q][f] # None
    <2>1. CASE fd'[q] = fd[q] /\ shadowMode[q] = shadowRWMode /\ pc[q] = "using"
        BY <2>1 DEF ServedInv
    <2>2. CASE fd'[q] = fd[q] /\ pc[q] = "purge"
        BY <2>2 DEF AloneInv, AllSound, checkFilePermission, Files
    <2>3. CASE pc[q] = "attach" /\ SqlOpens(q, "shadow")
        <3>1. fd[q]["passwd"] # None /\ entry["shadow"] # None
            BY <2>3 DEF AloneInv, AllSound, checkFilePermission, Files
        <3>2. fd' = [fd EXCEPT ![q]["shadow"] = entry["shadow"]]
            BY <2>3, <3>1 DEF SqlOpens
        <3>. QED  BY <3>1, <3>2 DEF TypeOK, Files
    <2>. QED  BY <1>1, <2>1, <2>2, <2>3, BecomesUsable
<1>2. ASSUME NEW p \in Openers, Record(p), NEW g \in Files  PROVE node'[g][entry'[g]].tables
    <2>1. fd[p][g] = entry[g] /\ entry[g] \in Inodes /\ node[g][entry[g]].tables /\ entry' = entry
        <3>1. pc[p] = "using" /\ fd[p][g] # None /\ HasTables(p) /\ entry' = entry
            BY <1>2 DEF Record, ServedInv
        <3>2. fd[p][g] = entry[g]
            BY <3>1 DEF AloneInv, Uses
        <3>. QED  BY <3>1, <3>2 DEF HasTables, TypeOK
    <2>2. node'[g][entry[g]] = [node[g][entry[g]] EXCEPT !.users = @ \/ fd[p][g] = entry[g]]
        BY <1>2, <2>1 DEF Record
    <2>3. node[g][entry[g]] \in Nodes
        BY <2>1 DEF TypeOK
    <2>. QED  BY <2>1, <2>2, <2>3 DEF Nodes
<1>3. ASSUME NEW f \in Files, Users(f)', \A p \in Openers : ~Record(p), NEW g \in Files
      PROVE  node'[g][entry'[g]].tables
    <2>1. Users(f)
        BY <1>3, WhoRecords
    <2>2. (\A p \in Openers : ~Creating(p)) /\ \A h \in Files : entry[h] # None
        BY <2>1 DEF AloneInv, AllSound, checkFilePermission
    <2>. QED  BY <1>3, <2>1, <2>2, QuietStep DEF ServedInv
<1>. QED  BY <1>1, <1>2, <1>3 DEF ServedInv, shadowRWMode

\* The permissions initDB gives are enough for the checks of the NSS module.
LEMMA SoundIsServed ==
    ASSUME AllSound, \A g \in Files : node[g][entry[g]].tables, NEW k
    PROVE  nss_lookup(k) = "answers"
<1>1. entry # NoFd
    BY DEF AllSound, checkFilePermission, NoFd, Files
<1>2. \A f \in Files : check_file_permissions(f)
    BY DEF AllSound, checkFilePermission, check_file_permissions
<1>. QED  BY <1>1, <1>2 DEF nss_lookup, Files

\* As long as nobody opens the cache while another creates it, every process finds a
\* recorded user through the NSS module, also after crashes and later openings.
THEOREM AloneRecordedIsServed == Spec => []RecordedIsServed
<1>1. Init => ServedInv
    BY DEF Init, ServedInv, Users, NoFd
<1>2. ASSUME TypeOK, raced \/ AloneInv, raced \/ ServedInv, [Next]_vars
      PROVE  (raced \/ ServedInv)'
    <2>1. raced => raced'
        BY <1>2 DEF Next, vars
    <2>. QED  BY <1>2, <2>1, ServedStep
<1>3. ASSUME raced \/ AloneInv, raced \/ ServedInv  PROVE RecordedIsServed
    <2>. SUFFICES ASSUME ~raced, NEW f \in Files, Users(f), NEW k \in Kinds
                  PROVE  nss_lookup(k) = "answers"
        BY DEF RecordedIsServed, Users
    <2>1. AllSound /\ \A g \in Files : node[g][entry[g]].tables
        BY <1>3 DEF AloneInv, ServedInv
    <2>. QED  BY <2>1, SoundIsServed
<1>. QED  BY <1>1, <1>2, <1>3, AloneAlways, PTL DEF Spec
=============================================================================
