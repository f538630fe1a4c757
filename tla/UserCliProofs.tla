--------------------------- MODULE UserCliProofs ---------------------------
(***************************************************************************)
(* What a move of the home does and does not do, for any runs of aad-cli,  *)
(* homes and file systems, as long as nothing meets a run that the code    *)
(* does not handle.                                                        *)
(***************************************************************************)
EXTENDS UserCli, TLAPS

Moving == {"access", "stat", "rename", "mv", "remove"}
Pcs == {"idle", "query", "busy", "exists", "update"} \cup Moving
Cmds == [value : Paths, moveHome : BOOLEAN]
Results == {"error", "nochange", "updated", "moved", None}
Things == [kind : {"none", "file", "dir"}, has : SUBSET Contents]

\* Only a directory holds anything.
Fits(x) == x \in Things /\ (x.kind # "dir" => x.has = {})

FsOK == fs = [p \in Paths |-> fs[p]] /\ \A p \in Paths : Fits(fs[p])

WorldOK == home \in Paths \cup {None} /\ FsOK /\ busy \in BOOLEAN /\ raced \in BOOLEAN

\* What a run knows once it has made the query: the old home, which is another than
\* the new one.
RunsOK ==
    /\ pc \in [Clis -> Pcs]
    /\ cmd \in [Clis -> Cmds \cup {None}]
    /\ prev \in [Clis -> Paths \cup {None}]
    /\ result \in [Clis -> Results]
    /\ \A c \in Clis : pc[c] # "idle" => cmd[c] \in Cmds
    /\ \A c \in Clis : pc[c] \notin {"idle", "query"} => prev[c] \in Paths /\ prev[c] # cmd[c].value
    /\ \A c \in Clis : pc[c] \in Moving => cmd[c].moveHome

TypeOK == WorldOK /\ RunsOK

\* What a run has made sure of, and nobody but itself has changed since: nobody is
\* logged in, the new home is recorded, the target is free, the home is a directory, and
\* what mv is to remove has been copied.
Sure(c) ==
    /\ pc[c] \notin {"idle", "query", "busy"} /\ cmd[c].moveHome => ~busy
    /\ pc[c] \in Moving => home \in {cmd[c].value, None}
    /\ pc[c] \in {"stat", "rename", "mv"} => fs[cmd[c].value].kind = "none"
    /\ pc[c] \in {"rename", "mv", "remove"} => fs[prev[c]].kind = "dir"
    /\ pc[c] = "remove" => fs[cmd[c].value] = fs[prev[c]]

OneRun == \A c, d \in Clis : Running(c) /\ Running(d) => c = d

Kept == \E p \in Paths : "files" \in fs[p].has

AloneInv == OneRun /\ Kept /\ \A c \in Clis : Sure(c)

-----------------------------------------------------------------------------
(* Types.                                                                  *)

\* What may be at a path.
LEMMA ThingFields ==
    /\ Fits(Nothing) /\ Nothing.kind = "none" /\ Nothing.has = {}
    /\ Fits(File)
    /\ \A h \in SUBSET Contents : Fits(Dir(h)) /\ Dir(h).kind = "dir" /\ Dir(h).has = h
    /\ {"other"} \in SUBSET Contents
  BY DEF Nothing, File, Dir, Things, Fits, Contents

\* A run that ends keeps its types and touches no other,
LEMMA EndRuns ==
    ASSUME RunsOK, NEW c \in Clis, NEW r \in Results, End(c, r)
    PROVE  RunsOK' /\ pc'[c] = "idle" /\ result'[c] = r /\ \A d \in Clis \ {c} : pc'[d] = pc[d]
  BY DEF RunsOK, End, Pcs, Moving

\* and so does one that goes on.
LEMMA GotoRuns ==
    ASSUME RunsOK, NEW c \in Clis, pc[c] \notin {"idle", "query"}, NEW l \in Pcs \ {"idle"}, Goto(c, l),
           l \in Moving => cmd[c].moveHome
    PROVE  RunsOK' /\ pc'[c] = l /\ \A d \in Clis \ {c} : pc'[d] = pc[d]
  BY DEF RunsOK, Goto

\* Every step of a run keeps what the runs know.
LEMMA CliRuns ==
    ASSUME TypeOK, NEW c \in Clis, CliStep(c)
    PROVE  RunsOK' /\ Running(c) /\ \A d \in Clis \ {c} : pc'[d] = pc[d]
  <1> USE DEF Running, TypeOK
  <1>1. CASE Query(c)
    <2>1. ASSUME home \notin {None, cmd[c].value}, prev' = [prev EXCEPT ![c] = home],
                 pc' = [pc EXCEPT ![c] = IF cmd[c].moveHome THEN "busy" ELSE "exists"],
                 UNCHANGED <<cmd, result>>, home \in Paths
          PROVE  RunsOK' /\ Running(c) /\ \A d \in Clis \ {c} : pc'[d] = pc[d]
      BY <1>1, <2>1 DEF Query, RunsOK, Pcs, Moving
    <2> QED
      BY <1>1, <2>1, EndRuns DEF Query, Results, WorldOK
  <1>2. CASE IsBusy(c)
    BY <1>2, EndRuns, GotoRuns DEF IsBusy, Results, Pcs, Moving
  <1>3. CASE UserExists(c)
    BY <1>3, EndRuns, GotoRuns DEF UserExists, Results, Pcs, Moving
  <1>4. CASE UpdateUserAttribute(c) \/ UpdateFails(c)
    BY <1>4, EndRuns, GotoRuns DEF UpdateUserAttribute, UpdateFails, Results, Pcs, Moving
  <1>5. CASE AccessTarget(c) \/ StatHome(c)
    <2>1. cmd[c].moveHome
      BY <1>5 DEF AccessTarget, StatHome, RunsOK, Moving
    <2> QED
      BY <1>5, <2>1, EndRuns, GotoRuns DEF AccessTarget, StatHome, Results, Pcs, Moving
  <1>6. CASE Rename(c) \/ Mv(c) \/ MvRemoves(c)
    <2>1. cmd[c].moveHome
      BY <1>6 DEF Rename, Mv, MvRemoves, RunsOK, Moving
    <2> QED
      BY <1>6, <2>1, EndRuns, GotoRuns DEF Rename, Mv, MvRemoves, Results, Pcs, Moving
  <1>7. CASE Interrupt(c)
    BY <1>7, EndRuns DEF Interrupt, Results
  <1> QED
    BY <1>1, <1>2, <1>3, <1>4, <1>5, <1>6, <1>7 DEF CliStep

\* What one and two changes of the file system leave.
LEMMA PutOne ==
    ASSUME FsOK, NEW v \in Paths, NEW x, Fits(x), fs' = [fs EXCEPT ![v] = x]
    PROVE  FsOK' /\ fs'[v] = x /\ \A q \in Paths \ {v} : fs'[q] = fs[q]
  <1>1. fs' = [q \in Paths |-> IF q = v THEN x ELSE fs[q]]
    BY DEF FsOK
  <1>2. \A q \in Paths : fs'[q] = IF q = v THEN x ELSE fs[q]
    BY <1>1
  <1>3. fs' = [q \in Paths |-> fs'[q]]
    BY <1>1
  <1> QED
    BY <1>2, <1>3 DEF FsOK

\* A move puts what it moves at one path and nothing at the other.
LEMMA PutTwo ==
    ASSUME FsOK, NEW v \in Paths, NEW p \in Paths, v # p, NEW x, Fits(x),
           fs' = [fs EXCEPT ![v] = x, ![p] = Nothing]
    PROVE  FsOK' /\ fs'[v] = x /\ fs'[p] = Nothing /\ \A q \in Paths \ {v, p} : fs'[q] = fs[q]
  <1>1. fs' = [q \in Paths |-> IF q = p THEN Nothing ELSE IF q = v THEN x ELSE fs[q]]
    BY DEF FsOK
  <1>2. \A q \in Paths : fs'[q] = IF q = p THEN Nothing ELSE IF q = v THEN x ELSE fs[q]
    BY <1>1
  <1>3. fs' = [q \in Paths |-> fs'[q]]
    BY <1>1
  <1> QED
    BY <1>2, <1>3, ThingFields DEF FsOK

\* What a step of a run may do to the file system: nothing; move the home onto a target
\* that is free, or into a directory; copy it, in whole or in part, to a free target;
\* remove it.
Moved(c) ==
    /\ pc[c] = "rename"
    /\ fs[prev[c]].kind = "dir"
    /\ fs[cmd[c].value].kind = "none"
    /\ fs'[cmd[c].value] = fs[prev[c]] /\ fs'[prev[c]] = Nothing
    /\ \A q \in Paths \ {cmd[c].value, prev[c]} : fs'[q] = fs[q]
    /\ pc'[c] = "idle" /\ result'[c] = "moved"

MovedInto(c) ==
    pc[c] = "mv" /\ fs[cmd[c].value].kind = "dir" /\ "home" \in fs'[cmd[c].value].has

Copied(c) ==
    /\ pc[c] = "mv" /\ fs[cmd[c].value].kind = "none"
    /\ \A q \in Paths \ {cmd[c].value} : fs'[q] = fs[q]
    /\ \/ pc'[c] = "remove" /\ cmd'[c] = cmd[c] /\ prev'[c] = prev[c] /\ fs'[cmd[c].value] = fs[prev[c]]
       \/ pc'[c] = "idle" /\ result'[c] = "error"

Removed(c) ==
    /\ pc[c] = "remove" /\ fs'[prev[c]] = Nothing
    /\ \A q \in Paths \ {prev[c]} : fs'[q] = fs[q]
    /\ pc'[c] = "idle" /\ result'[c] = "moved"

\* What a step of a run may change: the row by its update, the files by rename, copy and
\* remove.
LEMMA CliWorld ==
    ASSUME TypeOK, NEW c \in Clis, CliStep(c), raced' = raced
    PROVE  /\ WorldOK' /\ busy' = busy
           /\ home' = home \/ pc[c] = "update"
           /\ (fs' = fs /\ ~(pc'[c] = "idle" /\ result'[c] = "moved"))
                \/ Moved(c) \/ MovedInto(c) \/ Copied(c) \/ Removed(c)
  <1> DEFINE p == prev[c]
             v == cmd[c].value
             Unmoved == fs' = fs /\ ~(pc'[c] = "idle" /\ result'[c] = "moved")
  <1> USE DEF TypeOK
  <1>0. RunsOK /\ WorldOK /\ FsOK
    BY DEF WorldOK
  <1>1. pc[c] \in Moving => p \in Paths /\ v \in Paths /\ p # v /\ Fits(fs[p])
    BY <1>0 DEF RunsOK, Moving, FsOK, Cmds
  <1>2. ASSUME FsOK', home' = home, busy' = busy PROVE WorldOK'
    BY <1>0, <1>2 DEF WorldOK
  <1>3. ASSUME NEW r \in Results \ {"moved"}, End(c, r), UNCHANGED fs PROVE Unmoved /\ FsOK'
    BY <1>0, <1>3, EndRuns DEF FsOK
  <1>4. ASSUME NEW l \in Pcs \ {"idle"}, Goto(c, l), UNCHANGED fs PROVE Unmoved /\ FsOK'
    BY <1>0, <1>4 DEF Goto, RunsOK, FsOK
  <1>5. CASE Query(c)
    <2>1. ASSUME pc' = [pc EXCEPT ![c] = IF cmd[c].moveHome THEN "busy" ELSE "exists"], UNCHANGED fs
          PROVE  Unmoved /\ FsOK'
      BY <1>0, <2>1 DEF RunsOK, FsOK
    <2> QED
      BY <1>2, <1>3, <1>5, <2>1 DEF Query, world, Results
  <1>6. CASE IsBusy(c) \/ UserExists(c) \/ UpdateFails(c) \/ AccessTarget(c) \/ StatHome(c)
    BY <1>2, <1>3, <1>4, <1>6 DEF IsBusy, UserExists, UpdateFails, AccessTarget, StatHome, world, Results, Pcs, Moving
  <1>7. CASE UpdateUserAttribute(c)
    <2>1. home' \in Paths \cup {None}
      BY <1>0, <1>7 DEF UpdateUserAttribute, RunsOK, Cmds
    <2>2. Unmoved /\ FsOK'
      BY <1>3, <1>4, <1>7 DEF UpdateUserAttribute, Results, Pcs, Moving
    <2> QED
      BY <1>0, <1>7, <2>1, <2>2 DEF UpdateUserAttribute, WorldOK
  <1>8. CASE Rename(c)
    <2>1. CASE Renames(p, v) /\ fs' = [fs EXCEPT ![v] = fs[p], ![p] = Nothing] /\ End(c, "moved")
      <3>1. FsOK' /\ fs'[v] = fs[p] /\ fs'[p] = Nothing /\ \A q \in Paths \ {v, p} : fs'[q] = fs[q]
        <4>1. p \in Paths /\ v \in Paths /\ p # v /\ Fits(fs[p])
          BY <1>1, <1>8 DEF Rename, Moving
        <4> DEFINE x == fs[p]
        <4> HIDE DEF p, v
        <4>2. fs' = [fs EXCEPT ![v] = x, ![p] = Nothing] /\ Fits(x)
          BY <2>1, <4>1
        <4> HIDE DEF x
        <4>3. FsOK' /\ fs'[v] = x /\ fs'[p] = Nothing /\ \A q \in Paths \ {v, p} : fs'[q] = fs[q]
          BY <1>0, <4>1, <4>2, PutTwo
        <4> QED
          BY <4>3 DEF x
      <3>2. pc'[c] = "idle" /\ result'[c] = "moved"
        BY <1>0, <2>1, EndRuns DEF Results
      <3>3. Moved(c)
        BY <1>8, <2>1, <3>1, <3>2 DEF Rename, Renames, Moved
      <3> QED
        BY <1>2, <1>8, <3>1, <3>3 DEF Rename
    <2>2. CASE Goto(c, "mv") /\ UNCHANGED fs
      BY <1>2, <1>4, <1>8, <2>2 DEF Rename, Pcs, Moving
    <2> QED
      BY <1>8, <2>1, <2>2 DEF Rename
  <1>9. CASE Mv(c)
    <2>0. p \in Paths /\ v \in Paths /\ p # v /\ Fits(fs[p]) /\ Fits(fs[v])
      BY <1>0, <1>1, <1>9 DEF Mv, Moving, FsOK
    <2>1. CASE End(c, "error") /\ UNCHANGED fs
      BY <1>2, <1>3, <1>9, <2>1 DEF Mv, Results
    <2>2. CASE fs[v].kind = "dir" /\ fs' = [fs EXCEPT ![v].has = @ \cup {"home"}, ![p] = Nothing]
      <3> DEFINE x == [fs[v] EXCEPT !.has = @ \cup {"home"}]
      <3>1. Fits(x)
        BY <2>0, <2>2 DEF Fits, Things, Contents
      <3>2. fs' = [fs EXCEPT ![v] = x, ![p] = Nothing]
        BY <2>2
      <3> HIDE DEF x, p, v
      <3>3. FsOK' /\ fs'[v] = x
        BY <1>0, <2>0, <3>1, <3>2, PutTwo
      <3>4. "home" \in x.has
        BY <2>0, <2>2 DEF x, Fits, Things
      <3> QED
        BY <1>2, <1>9, <2>2, <3>3, <3>4 DEF Mv, MovedInto, p, v
    <2>3. CASE fs[v].kind = "none" /\ fs' = [fs EXCEPT ![v] = fs[p]] /\ Goto(c, "remove")
      <3>1. FsOK' /\ fs'[v] = fs[p] /\ \A q \in Paths \ {v} : fs'[q] = fs[q]
        <4> DEFINE x == fs[p]
        <4> HIDE DEF v, p
        <4>1. Fits(x) /\ fs' = [fs EXCEPT ![v] = x]
          BY <2>0, <2>3
        <4> HIDE DEF x
        <4>2. FsOK' /\ fs'[v] = x /\ \A q \in Paths \ {v} : fs'[q] = fs[q]
          BY <1>0, <2>0, <4>1, PutOne
        <4> QED
          BY <4>2 DEF x
      <3>2. pc'[c] = "remove" /\ cmd'[c] = cmd[c] /\ prev'[c] = prev[c]
        BY <1>0, <2>3 DEF Goto, RunsOK
      <3>3. Copied(c)
        BY <1>9, <2>3, <3>1, <3>2 DEF Mv, Copied
      <3> QED
        BY <1>2, <1>9, <3>1, <3>3 DEF Mv
    <2>4. CASE fs[v].kind = "none" /\ fs' = [fs EXCEPT ![v] = Dir({"other"})] /\ End(c, "error")
      <3>1. FsOK' /\ \A q \in Paths \ {v} : fs'[q] = fs[q]
        <4> DEFINE x == Dir({"other"})
        <4>1. Fits(x) /\ fs' = [fs EXCEPT ![v] = x]
          BY <2>4, ThingFields
        <4> HIDE DEF x, v
        <4> QED
          BY <1>0, <2>0, <4>1, PutOne
      <3>2. pc'[c] = "idle" /\ result'[c] = "error"
        BY <1>0, <2>4, EndRuns DEF Results
      <3>3. Copied(c)
        BY <1>9, <2>4, <3>1, <3>2 DEF Mv, Copied
      <3> QED
        BY <1>2, <1>9, <3>1, <3>3 DEF Mv
    <2> QED
      BY <1>9, <2>1, <2>2, <2>3, <2>4 DEF Mv
  <1>10. CASE MvRemoves(c)
    <2>1. p \in Paths /\ fs' = [fs EXCEPT ![p] = Nothing]
      BY <1>1, <1>10 DEF MvRemoves, Moving
    <2>2. FsOK' /\ fs'[p] = Nothing /\ \A q \in Paths \ {p} : fs'[q] = fs[q]
      <3> HIDE DEF p
      <3> QED
        BY <1>0, <2>1, PutOne, ThingFields
    <2>3. pc'[c] = "idle" /\ result'[c] = "moved"
      BY <1>0, <1>10, EndRuns DEF MvRemoves, Results
    <2>4. Removed(c)
      BY <1>10, <2>2, <2>3 DEF MvRemoves, Removed
    <2> QED
      BY <1>2, <1>10, <2>2, <2>4 DEF MvRemoves
  <1>11. CASE Interrupt(c)
    <2>1. None \in Results \ {"moved"}
      BY CliAssumption DEF Results
    <2> QED
      BY <1>2, <1>3, <1>11, <2>1 DEF Interrupt, world
  <1> QED
    BY <1>5, <1>6, <1>7, <1>8, <1>9, <1>10, <1>11 DEF CliStep

-----------------------------------------------------------------------------
(* As long as nothing meets a run that the code does not handle.           *)

\* The step of a run while no other is under way.
LEMMA CliAlone ==
    ASSUME TypeOK, AloneInv, NEW c \in Clis, CliStep(c), raced' = raced
    PROVE  AloneInv'
  <1> DEFINE p == prev[c]
             v == cmd[c].value
  <1>0. RunsOK /\ RunsOK' /\ FsOK /\ Running(c) /\ \A d \in Clis \ {c} : pc'[d] = pc[d]
    BY CliRuns DEF TypeOK, WorldOK
  <1>1. OneRun' /\ \A d \in Clis \ {c} : Sure(d)'
    <2>1. \A d \in Clis \ {c} : pc'[d] = "idle"
      BY <1>0 DEF AloneInv, OneRun, Running
    <2> QED
      BY <2>1 DEF OneRun, Running, Sure, Moving
  <1>2. pc[c] \in Moving => p \in Paths /\ v \in Paths /\ p # v
    BY <1>0 DEF RunsOK, Moving, Cmds
  <1>3. /\ busy' = busy
        /\ home' = home \/ pc[c] = "update"
        /\ fs' = fs \/ Moved(c) \/ Copied(c) \/ Removed(c)
    <2>1. ~MovedInto(c)
      BY DEF MovedInto, AloneInv, Sure
    <2> QED
      BY <2>1, CliWorld
  <1>4. Kept'
    <2>0. PICK q \in Paths : "files" \in fs[q].has
      BY DEF AloneInv, Kept
    <2>1. CASE fs' = fs
      BY <2>0, <2>1 DEF Kept
    <2>2. CASE Moved(c)
      <3>1. fs[v].has = {}
        BY <1>0, <1>2, <2>2 DEF Moved, FsOK, Fits, Moving
      <3>2. CASE q = p
        BY <1>2, <2>0, <2>2, <3>2 DEF Moved, Kept, Moving
      <3>3. CASE q # p
        BY <2>0, <2>2, <3>1, <3>3 DEF Moved, Kept
      <3> QED
        BY <3>2, <3>3
    <2>3. CASE Copied(c)
      <3>1. fs[v].has = {}
        BY <1>0, <1>2, <2>3 DEF Copied, FsOK, Fits, Moving
      <3> QED
        BY <2>0, <2>3, <3>1 DEF Copied, Kept
    <2>4. CASE Removed(c)
      <3>1. fs[v] = fs[p] /\ v \in Paths /\ p # v
        BY <1>2, <2>4 DEF Removed, AloneInv, Sure, Moving
      <3> QED
        BY <2>0, <2>4, <3>1 DEF Removed, Kept
    <2> QED
      BY <1>3, <2>1, <2>2, <2>3, <2>4
  <1>5. Sure(c)'
    <2>0. Sure(c)
      BY DEF AloneInv
    <2>1. CASE pc'[c] = "idle"
      BY <2>1 DEF Sure, Moving
    <2>2. CASE pc'[c] # "idle"
      <3>0. \A r \in Results : ~End(c, r)
        BY <1>0, <2>2, EndRuns
      <3>00. \A l : Goto(c, l) => pc'[c] = l /\ cmd' = cmd /\ prev' = prev
        BY <1>0 DEF Goto, RunsOK
      <3>1. CASE Query(c)
        <4>1. pc'[c] \in {"busy", "exists"} /\ (cmd'[c].moveHome => pc'[c] = "busy")
          BY <1>0, <3>0, <3>1 DEF Query, RunsOK, Results
        <4> QED
          BY <4>1 DEF Sure, Moving
      <3>2. CASE IsBusy(c)
        BY <3>0, <3>00, <3>2 DEF IsBusy, Results, world, Sure, Moving
      <3>3. CASE UserExists(c)
        BY <2>0, <3>0, <3>00, <3>3 DEF UserExists, Results, world, Sure, Moving
      <3>4. CASE UpdateUserAttribute(c)
        <4>1. pc[c] = "update" /\ pc'[c] = "access" /\ cmd' = cmd /\ cmd[c].moveHome
          BY <3>0, <3>00, <3>4 DEF UpdateUserAttribute, Results
        <4>2. ~busy' /\ home' \in {cmd'[c].value, None}
          BY <1>3, <2>0, <3>4, <4>1 DEF UpdateUserAttribute, Sure, Moving
        <4> QED
          BY <4>1, <4>2 DEF Sure, Moving
      <3>5. CASE AccessTarget(c)
        BY <2>0, <3>0, <3>00, <3>5 DEF AccessTarget, Results, world, Sure, Moving
      <3>6. CASE StatHome(c)
        BY <2>0, <3>0, <3>00, <3>6 DEF StatHome, Results, world, Sure, Moving
      <3>7. CASE Rename(c)
        <4>1. pc'[c] = "mv" /\ cmd' = cmd /\ prev' = prev /\ UNCHANGED <<fs, home, busy>> /\ pc[c] = "rename"
          BY <3>0, <3>00, <3>7 DEF Rename, Results
        <4> QED
          BY <2>0, <4>1 DEF Sure, Moving
      <3>8. CASE Mv(c)
        <4>1. /\ pc[c] = "mv" /\ pc'[c] = "remove" /\ cmd' = cmd /\ prev' = prev /\ UNCHANGED <<home, busy>>
              /\ fs' = [fs EXCEPT ![v] = fs[p]]
          BY <3>0, <3>00, <3>8 DEF Mv, Results
        <4>2. fs'[v] = fs[p] /\ fs'[p] = fs[p]
          BY <1>0, <1>2, <4>1 DEF FsOK, Moving
        <4>3. cmd[c].moveHome
          BY <1>0, <4>1 DEF RunsOK, Moving
        <4> QED
          BY <2>0, <4>1, <4>2, <4>3 DEF Sure, Moving
      <3>9. CASE UpdateFails(c) \/ MvRemoves(c) \/ Interrupt(c)
        BY <3>0, <3>9 DEF UpdateFails, MvRemoves, Interrupt, Results
      <3> QED
        BY <3>1, <3>2, <3>3, <3>4, <3>5, <3>6, <3>7, <3>8, <3>9 DEF CliStep
    <2> QED
      BY <2>1, <2>2
  <1> QED
    BY <1>1, <1>4, <1>5 DEF AloneInv

\* pam_mkhomedir makes a home where nothing is.
LEMMA LoginWorld ==
    ASSUME TypeOK, Login
    PROVE  /\ home' \in Paths /\ FsOK'
           /\ \A p \in Paths : fs[p].has \subseteq fs'[p].has
  <1>1. FsOK /\ home' \in Paths
    BY CliAssumption DEF TypeOK, WorldOK, Login
  <1>2. CASE fs' = fs
    BY <1>1, <1>2 DEF FsOK
  <1>3. CASE fs[home'].kind = "none" /\ fs' = [fs EXCEPT ![home'] = Dir({"other"})]
    <2> DEFINE h == home'
               x == Dir({"other"})
    <2>1. Fits(x) /\ h \in Paths /\ fs' = [fs EXCEPT ![h] = x] /\ fs[h].kind = "none"
      BY <1>1, <1>3, ThingFields
    <2> HIDE DEF h, x
    <2>2. FsOK' /\ \A q \in Paths \ {h} : fs'[q] = fs[q]
      BY <1>1, <2>1, PutOne
    <2>3. fs[h].has = {}
      BY <1>1, <2>1 DEF FsOK, Fits
    <2>4. \A q \in Paths : fs[q].has \subseteq fs'[q].has
      BY <2>2, <2>3
    <2> QED
      BY <1>1, <2>2, <2>4
  <1> QED
    BY <1>2, <1>3 DEF Login

\* The administrator clears what is not the user's.
LEMMA ClearWorld ==
    ASSUME TypeOK, NEW q \in Paths, Clear(q)
    PROVE  FsOK' /\ \A p \in Paths, x \in {"files", "home"} : x \in fs[p].has => x \in fs'[p].has
  <1>1. FsOK /\ fs' = [fs EXCEPT ![q] = Nothing] /\ "files" \notin fs[q].has /\ "home" \notin fs[q].has
    BY DEF TypeOK, WorldOK, Clear
  <1>2. FsOK' /\ \A p \in Paths \ {q} : fs'[p] = fs[p]
    BY <1>1, PutOne, ThingFields
  <1> QED
    BY <1>1, <1>2

\* Types are kept.
LEMMA TypeStep == TypeOK /\ [Next]_vars => TypeOK'
  <1> SUFFICES ASSUME TypeOK, [Next]_vars PROVE TypeOK'
    OBVIOUS
  <1>0. RunsOK /\ WorldOK /\ FsOK
    BY DEF TypeOK, WorldOK
  <1>1. raced' \in BOOLEAN
    BY <1>0 DEF Next, vars, WorldOK
  <1>2. ASSUME UNCHANGED <<pc, cmd, prev, result>> PROVE RunsOK'
    BY <1>0, <1>2 DEF RunsOK
  <1>3. ASSUME NEW c \in Clis, CliStep(c), raced' = raced PROVE TypeOK'
    BY <1>3, CliRuns, CliWorld DEF TypeOK
  <1>4. CASE Logout \/ Purge
    BY <1>0, <1>1, <1>2, <1>4 DEF Logout, Purge, WorldOK, FsOK, TypeOK
  <1>5. ASSUME NEW c \in Clis, NEW v \in Paths, NEW m \in MoveHome, Run(c, v, m) PROVE TypeOK'
    <2>1. [value |-> v, moveHome |-> m] \in Cmds
      BY CliAssumption DEF Cmds
    <2> DEFINE x == [value |-> v, moveHome |-> m]
    <2>2. x \in Cmds /\ cmd' = [cmd EXCEPT ![c] = x]
      BY <1>5, <2>1 DEF Run
    <2> HIDE DEF x
    <2>3. RunsOK'
      BY <1>0, <1>5, <2>2 DEF Run, RunsOK, Pcs, Results, Moving, Running
    <2> QED
      BY <1>0, <1>1, <1>5, <2>3 DEF Run, world, WorldOK, FsOK, TypeOK
  <1>6. ASSUME NEW q \in Paths, Clear(q) PROVE TypeOK'
    BY <1>0, <1>1, <1>2, <1>6, ClearWorld DEF Clear, WorldOK, TypeOK
  <1>7. CASE Login
    BY <1>0, <1>1, <1>2, <1>7, LoginWorld DEF Login, WorldOK, TypeOK
  <1>8. CASE UNCHANGED vars
    BY <1>0, <1>1, <1>2, <1>8 DEF vars, WorldOK, FsOK, TypeOK
  <1> QED
    BY <1>3, <1>4, <1>5, <1>6, <1>7, <1>8 DEF Next

\* AloneInv is kept by what the code handles.
LEMMA AloneStep ==
    ASSUME TypeOK, AloneInv, ~raced', [Next]_vars
    PROVE  AloneInv'
  <1>1. ASSUME NEW c \in Clis, CliStep(c), raced' = raced PROVE AloneInv'
    BY <1>1, CliAlone
  <1>2. CASE Logout
    BY <1>2 DEF Logout, AloneInv, OneRun, Running, Kept, Sure
  <1>3. CASE Purge
    BY <1>3 DEF Purge, AloneInv, OneRun, Running, Kept, Sure
  <1>4. ASSUME NEW c \in Clis, NEW v, NEW m, Run(c, v, m), \A d \in Clis : ~Running(d) PROVE AloneInv'
    <2>1. pc'[c] = "query" /\ \A d \in Clis \ {c} : pc'[d] = "idle"
      BY <1>4 DEF Run, Running, TypeOK, RunsOK
    <2>2. Kept'
      BY <1>4 DEF Run, world, AloneInv, Kept
    <2>3. OneRun' /\ \A d \in Clis : Sure(d)'
      BY <2>1 DEF OneRun, Running, Sure, Moving
    <2> QED
      BY <2>2, <2>3 DEF AloneInv
  <1>5. ASSUME NEW q \in Paths, Clear(q), \A d \in Clis : ~Running(d) PROVE AloneInv'
    <2>1. Kept'
      BY <1>5, ClearWorld DEF AloneInv, Kept
    <2>2. OneRun' /\ \A d \in Clis : Sure(d)'
      BY <1>5 DEF Clear, OneRun, Running, Sure, Moving
    <2> QED
      BY <2>1, <2>2 DEF AloneInv
  <1>6. CASE Login /\ \A d \in Clis : Running(d) => pc[d] \in {"query", "busy"}
    <2>1. Kept'
      BY <1>6, LoginWorld DEF AloneInv, Kept
    <2>2. OneRun' /\ \A d \in Clis : Sure(d)'
      BY <1>6 DEF Login, AloneInv, OneRun, Running, Sure, Moving
    <2> QED
      BY <2>1, <2>2 DEF AloneInv
  <1>7. CASE UNCHANGED vars
    BY <1>7 DEF vars, AloneInv, OneRun, Running, Kept, Sure
  <1> QED
    BY <1>1, <1>2, <1>3, <1>4, <1>5, <1>6, <1>7 DEF Next

\* AloneInv holds until something meets a run that the code does not handle.
LEMMA AloneAlways == Spec => [](TypeOK /\ (raced \/ AloneInv))
  <1>1. ASSUME Init PROVE TypeOK /\ AloneInv
    <2>1. \A x \in {Nothing, File, Dir({}), Dir({"other"}), Dir({"files"})} : Fits(x)
      BY ThingFields DEF Contents
    <2>2. fs = [p \in Paths |-> fs[p]] /\ \A p \in Paths : Fits(fs[p])
      BY <1>1, <2>1 DEF Init
    <2>3. WorldOK
      BY <1>1, <2>2, CliAssumption DEF Init, WorldOK, FsOK
    <2>4. RunsOK
      BY <1>1 DEF Init, RunsOK, Pcs, Results, Moving
    <2>5. AloneInv
      BY <1>1, CliAssumption DEF Init, AloneInv, OneRun, Running, Kept, Sure, Moving
    <2> QED
      BY <2>3, <2>4, <2>5 DEF TypeOK
  <1>2. ASSUME TypeOK, raced \/ AloneInv, [Next]_vars PROVE (TypeOK /\ (raced \/ AloneInv))'
    <2>1. raced => raced'
      BY <1>2 DEF Next, vars
    <2> QED
      BY <1>2, <2>1, TypeStep, AloneStep
  <1> QED
    BY <1>1, <1>2, PTL DEF Spec

-----------------------------------------------------------------------------
(* As long as there is one run at a time, whatever else meets it.          *)

Holds(p) == "files" \in fs[p].has \/ "home" \in fs[p].has

\* What mv is about to remove is not all there is.
SpareInv ==
    /\ OneRun
    /\ \E q \in Paths : Holds(q)
    /\ \A c \in Clis : pc[c] = "remove" => \E q \in Paths \ {prev[c]} : Holds(q)

\* The step of a run while no other is under way.
LEMMA CliSpares ==
    ASSUME TypeOK, SpareInv, NEW c \in Clis, CliStep(c), raced' = raced
    PROVE  SpareInv'
  <1> DEFINE p == prev[c]
             v == cmd[c].value
  <1>0. RunsOK /\ FsOK /\ Running(c) /\ \A d \in Clis \ {c} : pc[d] = "idle" /\ pc'[d] = "idle"
    BY CliRuns DEF TypeOK, WorldOK, SpareInv, OneRun, Running
  <1>1. OneRun'
    BY <1>0 DEF OneRun, Running
  <1>2. pc[c] \in Moving => p \in Paths /\ v \in Paths /\ p # v
    BY <1>0 DEF RunsOK, Moving, Cmds
  <1>3. PICK q \in Paths : Holds(q) /\ (pc[c] = "remove" => q # p)
    BY DEF SpareInv
  <1>4. CASE fs' = fs
    <2>1. pc'[c] # "remove" \/ (pc[c] = "mv" /\ fs' = [fs EXCEPT ![v] = fs[p]] /\ fs[v].kind = "none"
                                /\ prev' = prev)
      <3>1. ASSUME NEW r, End(c, r) PROVE pc'[c] # "remove"
        BY <1>0, <3>1 DEF End, RunsOK
      <3>2. ASSUME NEW l \in {"exists", "update", "access", "stat", "rename", "mv"}, Goto(c, l)
            PROVE  pc'[c] # "remove"
        BY <1>0, <3>2 DEF Goto, RunsOK
      <3>3. CASE Query(c)
        BY <1>0, <3>1, <3>3 DEF Query, RunsOK
      <3>4. CASE Mv(c)
        BY <3>1, <3>4 DEF Mv, Goto
      <3> QED
        BY <3>1, <3>2, <3>3, <3>4 DEF CliStep, IsBusy, UserExists, UpdateUserAttribute, UpdateFails,
           AccessTarget, StatHome, Rename, MvRemoves, Interrupt
    <2>2. CASE pc'[c] # "remove"
      BY <1>0, <1>1, <1>3, <1>4, <2>2 DEF SpareInv, Holds
    <2>3. CASE pc[c] = "mv" /\ fs' = [fs EXCEPT ![v] = fs[p]] /\ fs[v].kind = "none" /\ prev' = prev
      <3>1. fs[p] = fs[v] /\ fs[v].has = {} /\ p # v
        BY <1>0, <1>2, <1>4, <2>3 DEF FsOK, Fits, Moving
      <3>2. q # p
        BY <1>3, <3>1 DEF Holds
      <3> QED
        BY <1>0, <1>1, <1>3, <1>4, <2>3, <3>2 DEF SpareInv, Holds
    <2> QED
      BY <2>1, <2>2, <2>3
  <1>5. CASE Moved(c)
    <2>1. v \in Paths /\ p # v /\ fs[v].has = {} /\ pc'[c] = "idle"
      BY <1>0, <1>2, <1>5 DEF Moved, FsOK, Fits, Moving
    <2>2. \E x \in Paths : Holds(x)'
      <3>1. CASE q = p
        BY <1>3, <1>5, <2>1, <3>1 DEF Moved, Holds
      <3>2. CASE q # p
        BY <1>3, <1>5, <2>1, <3>2 DEF Moved, Holds
      <3> QED
        BY <3>1, <3>2
    <2> QED
      BY <1>0, <1>1, <2>1, <2>2 DEF SpareInv
  <1>6. CASE MovedInto(c) /\ pc'[c] = "idle"
    BY <1>0, <1>1, <1>2, <1>6 DEF MovedInto, SpareInv, Holds, Moving
  <1>7. CASE Copied(c)
    <2>1. v \in Paths /\ p # v /\ fs[v].has = {} /\ q # v
      BY <1>0, <1>2, <1>3, <1>7 DEF Copied, FsOK, Fits, Moving, Holds
    <2>2. Holds(q)' /\ (q = p /\ pc'[c] = "remove" => \E x \in Paths \ {p} : Holds(x)')
      BY <1>3, <1>7, <2>1 DEF Copied, Holds
    <2>3. pc'[c] = "remove" => prev'[c] = p
      BY <1>7 DEF Copied
    <2> QED
      BY <1>0, <1>1, <2>1, <2>2, <2>3 DEF SpareInv
  <1>8. CASE Removed(c)
    BY <1>0, <1>1, <1>3, <1>8 DEF Removed, SpareInv, Holds
  <1>9. MovedInto(c) => fs' = fs \/ pc'[c] = "idle"
    BY <1>0 DEF MovedInto, CliStep, Query, IsBusy, UserExists, UpdateUserAttribute, UpdateFails,
           AccessTarget, StatHome, Rename, Mv, MvRemoves, Interrupt, End, RunsOK
  <1> QED
    BY <1>4, <1>5, <1>6, <1>7, <1>8, <1>9, CliWorld

\* Every step that does not make two runs overlap keeps SpareInv.
LEMMA SpareStep ==
    ASSUME TypeOK, SpareInv, ~overlapped', [Next]_vars
    PROVE  SpareInv'
  <1>1. ASSUME NEW c \in Clis, CliStep(c), raced' = raced PROVE SpareInv'
    BY <1>1, CliSpares
  <1>2. CASE UNCHANGED <<fs, pc, prev>>
    BY <1>2 DEF SpareInv, OneRun, Running, Holds
  <1>3. ASSUME NEW c \in Clis, NEW v, NEW m, Run(c, v, m), \A d \in Clis : ~Running(d) PROVE SpareInv'
    <2>1. pc'[c] = "query" /\ (\A d \in Clis \ {c} : pc'[d] = "idle") /\ fs' = fs
      BY <1>3 DEF Run, Running, TypeOK, RunsOK, world
    <2> QED
      BY <2>1 DEF SpareInv, OneRun, Running, Holds
  <1>4. ASSUME \A p \in Paths : Holds(p) => Holds(p)', UNCHANGED <<pc, prev>> PROVE SpareInv'
    BY <1>4 DEF SpareInv, OneRun, Running
  <1>5. ASSUME NEW q \in Paths, Clear(q) PROVE SpareInv'
    BY <1>4, <1>5, ClearWorld DEF Clear, Holds
  <1>6. CASE Login
    BY <1>4, <1>6, LoginWorld DEF Login, Holds
  <1> QED
    BY <1>1, <1>2, <1>3, <1>5, <1>6 DEF Next, Logout, Purge, vars

\* As long as there is one run at a time, the files of the user are somewhere, whatever
\* sessions begin and whatever is made or cleared at the paths during the run, and
\* wherever it fails or is interrupted.
THEOREM NothingGetsLost == Spec => []NothingIsLost
  <1>1. Init => SpareInv
    BY CliAssumption DEF Init, SpareInv, OneRun, Running, Holds
  <1>2. ASSUME TypeOK, overlapped \/ SpareInv, [Next]_vars PROVE (overlapped \/ SpareInv)'
    <2>1. overlapped => overlapped'
      BY <1>2 DEF Next, vars
    <2> QED
      BY <1>2, <2>1, SpareStep
  <1>3. overlapped \/ SpareInv => NothingIsLost
    BY DEF SpareInv, Holds, NothingIsLost
  <1> QED
    BY <1>1, <1>2, <1>3, AloneAlways, PTL DEF Spec

-----------------------------------------------------------------------------

\* As long as nothing meets a run that the code does not handle, no move of the home,
\* whole, interrupted or failed half way through a copy, loses the files of the user.
THEOREM FilesAreKept == Spec => []FilesAreAHome
  <1>1. raced \/ AloneInv => FilesAreAHome
    BY DEF AloneInv, Kept, FilesAreAHome
  <1> QED
    BY <1>1, AloneAlways, PTL

\* Nor does one take the files away from a user who is logged in.
THEOREM BusyHomeIsKept == Spec => BusyHomeStays
  <1>1. ASSUME TypeOK, AloneInv, busy, Next, NEW p \in Paths, "files" \in fs[p].has
        PROVE  "files" \in fs'[p].has
    <2>1. CASE fs' = fs
      BY <1>1, <2>1
    <2>2. ASSUME NEW c \in Clis, CliStep(c), raced' = raced PROVE fs' = fs
      <3>1. pc[c] \notin Moving
        BY <1>1 DEF AloneInv, Sure, TypeOK, RunsOK, Moving
      <3> QED
        BY <1>1, <2>2, <3>1, CliWorld DEF Moved, MovedInto, Copied, Removed, Moving
    <2> QED
      BY <1>1, <2>1, <2>2, ClearWorld, LoginWorld DEF Next, Run, Logout, Purge, world
  <1>2. TypeOK /\ (raced \/ AloneInv) /\ [Next]_vars =>
          [~raced /\ busy =>
              \A p \in Paths : "files" \in fs[p].has => "files" \in fs'[p].has]_vars
    BY <1>1
  <1> QED
    BY <1>2, AloneAlways, PTL DEF Spec, BusyHomeStays

\* Where a run says it has moved the home, the home is there, nothing is left behind, and
\* the user's row says so, unless it has been purged.
THEOREM MovesAreRecorded == Spec => MovedIsRecorded
  <1>1. ASSUME TypeOK, AloneInv, Next, NEW c \in Clis, Ends(c, "moved")
        PROVE  /\ home' \in {cmd[c].value, None}
               /\ fs'[cmd[c].value].kind = "dir"
               /\ fs'[prev[c]].kind = "none"
    <2>0. pc \in [Clis -> Pcs] /\ pc[c] # "idle" /\ pc'[c] = "idle" /\ result'[c] = "moved"
      BY <1>1 DEF TypeOK, RunsOK, Ends, Running
    <2>1. CliStep(c) /\ raced' = raced
      <3>1. ASSUME NEW d \in Clis, CliStep(d), d # c PROVE FALSE
        BY <1>1, <2>0, <3>1, CliRuns
      <3>2. ASSUME NEW d \in Clis, NEW v, NEW m, Run(d, v, m) PROVE FALSE
        BY <2>0, <3>2 DEF Run
      <3> QED
        BY <1>1, <2>0, <3>1, <3>2 DEF Next, Logout, Purge, Clear, Login
    <2>2. Moved(c) \/ Removed(c)
      <3>1. ~MovedInto(c)
        BY <1>1 DEF AloneInv, Sure, MovedInto
      <3>2. ~Copied(c)
        BY <2>0 DEF Copied
      <3> QED
        BY <1>1, <2>0, <2>1, <3>1, <3>2, CliWorld
    <2>3. /\ pc[c] \in {"rename", "remove"} /\ fs[prev[c]].kind = "dir" /\ home' = home
          /\ home \in {cmd[c].value, None}
          /\ pc[c] = "remove" => fs[cmd[c].value] = fs[prev[c]]
      BY <1>1, <2>1, <2>2, CliWorld DEF Moved, Removed, AloneInv, Sure, Moving
    <2>4. prev[c] \in Paths /\ cmd[c].value \in Paths /\ prev[c] # cmd[c].value
      BY <1>1, <2>3 DEF TypeOK, RunsOK, Cmds
    <2> QED
      BY <2>2, <2>3, <2>4, ThingFields DEF Moved, Removed
  <1>2. TypeOK /\ (raced \/ AloneInv) /\ [Next]_vars =>
          [\A c \in Clis : ~raced /\ Ends(c, "moved") =>
              /\ home' \in {cmd[c].value, None}
              /\ fs'[cmd[c].value].kind = "dir"
              /\ fs'[prev[c]].kind = "none"]_vars
    BY <1>1
  <1> QED
    BY <1>2, AloneAlways, PTL DEF Spec, MovedIsRecorded
=============================================================================
