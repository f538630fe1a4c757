------------------------------ MODULE UserCli ------------------------------
(***************************************************************************)
(* aad-cli user <attribute> <value> [--move-home] on one user: the query of*)
(* the old value, the busy check, the update of the passwd table and the   *)
(* move of the home, beside sessions of the user, purges and other runs of *)
(* aad-cli.  Each is a separate step, for nothing locks the user.          *)
(*                                                                         *)
(* The attribute is home: gecos and shell are the runs without --move-home.*)
(* A path holds nothing, a file or a directory; of the content of a        *)
(* directory the model keeps whether the files of the user are in it.      *)
(***************************************************************************)
EXTENDS Naturals, FiniteSets

CONSTANTS
    Clis,           \* runs of aad-cli there may be at a time
    Paths,          \* home directories there may be
    DefaultHome,    \* what the homedir pattern gives for the user
    Device,         \* the file system of a path
    MoveHome,       \* the values of --move-home
    None            \* no row, no value

ASSUME CliAssumption ==
    /\ DefaultHome \in Paths
    /\ Device \in [Paths -> Nat]
    /\ None \notin Paths /\ None # "moved"
    /\ MoveHome \subseteq BOOLEAN

VARIABLES
    home,       \* column home of the user's row
    fs,         \* what is at each path
    busy,       \* does the user run processes
    pc,         \* the call a run is about to make
    cmd,        \* its arguments
    prev,       \* prevValue
    result,     \* how it ended
    raced,      \* history: has something the code does not handle met a run
    overlapped  \* history: have two runs been under way at a time

world == <<home, fs, busy>>
vars == <<home, fs, busy, pc, cmd, prev, result, raced, overlapped>>

\* "files" are the user's own; "other" is anything else; "home" is a home that has
\* been moved into the directory.
Contents == {"files", "other", "home"}
Nothing == [kind |-> "none", has |-> {}]
File == [kind |-> "file", has |-> {}]
Dir(has) == [kind |-> "dir", has |-> has]

Running(c) == pc[c] # "idle"

Init ==
    /\ home = DefaultHome
    /\ fs \in [Paths -> {Nothing, File, Dir({}), Dir({"other"}), Dir({"files"})}]
    /\ \A p \in Paths : "files" \in fs[p].has <=> p = DefaultHome
    /\ busy = FALSE
    /\ pc = [c \in Clis |-> "idle"]
    /\ cmd = [c \in Clis |-> None]
    /\ prev = [c \in Clis |-> None]
    /\ result = [c \in Clis |-> None]
    /\ raced = FALSE /\ overlapped = FALSE

Goto(c, l) == pc' = [pc EXCEPT ![c] = l] /\ UNCHANGED <<cmd, prev, result>>

End(c, r) ==
    /\ pc' = [pc EXCEPT ![c] = "idle"]
    /\ cmd' = [cmd EXCEPT ![c] = None]
    /\ prev' = [prev EXCEPT ![c] = None]
    /\ result' = [result EXCEPT ![c] = r]

-----------------------------------------------------------------------------
(* updateUserAttribute.                                                    *)

Run(c, v, m) ==
    /\ ~Running(c)
    /\ pc' = [pc EXCEPT ![c] = "query"]
    /\ cmd' = [cmd EXCEPT ![c] = [value |-> v, moveHome |-> m]]
    /\ result' = [result EXCEPT ![c] = None]
    /\ UNCHANGED <<world, prev>>

Query(c) ==
    /\ pc[c] = "query"
    /\ \/ home = None /\ End(c, "error")
       \/ home = cmd[c].value /\ End(c, "nochange")
       \/ /\ home \notin {None, cmd[c].value}
          /\ prev' = [prev EXCEPT ![c] = home]
          /\ pc' = [pc EXCEPT ![c] = IF cmd[c].moveHome THEN "busy" ELSE "exists"]
          /\ UNCHANGED <<cmd, result>>
    /\ UNCHANGED world

\* Mutant: what IsBusy says is not looked at.
IsBusy_Ignored(c) ==
    /\ pc[c] = "busy"
    /\ IF home = None THEN End(c, "error") ELSE Goto(c, "exists")
    /\ UNCHANGED world

\* The query of the uid, then a look at all processes.  It fails, too, when one of
\* anybody's ends between the listing of /proc and the look at it.
IsBusy(c) ==
    /\ pc[c] = "busy"
    /\ \/ home # None /\ ~busy /\ Goto(c, "exists")
       \/ End(c, "error")
    /\ UNCHANGED world

\* UpdateUserAttribute: userExists, then the transaction, which may fail (a user
\* other than root, a locked database), or change no row.
UserExists(c) ==
    /\ pc[c] = "exists"
    /\ IF home = None THEN End(c, "error") ELSE Goto(c, "update")
    /\ UNCHANGED world

\* Mutant: the transaction is not committed.
UpdateUserAttribute_NoCommit(c) ==
    /\ pc[c] = "update"
    /\ IF cmd[c].moveHome THEN Goto(c, "access") ELSE End(c, "updated")
    /\ UNCHANGED world

UpdateUserAttribute(c) ==
    /\ pc[c] = "update"
    /\ home' = IF home = None THEN None ELSE cmd[c].value
    /\ IF cmd[c].moveHome THEN Goto(c, "access") ELSE End(c, "updated")
    /\ UNCHANGED <<fs, busy>>

UpdateFails(c) ==
    /\ pc[c] = "update"
    /\ End(c, "error")
    /\ UNCHANGED world

-----------------------------------------------------------------------------
(* moveUserHome.                                                           *)

\* Mutant: nobody looks whether the target is there.
AccessTarget_Skipped(c) ==
    /\ pc[c] = "access"
    /\ Goto(c, "stat")
    /\ UNCHANGED world

AccessTarget(c) ==
    /\ pc[c] = "access"
    /\ IF fs[cmd[c].value].kind # "none" THEN End(c, "error") ELSE Goto(c, "stat")
    /\ UNCHANGED world

StatHome(c) ==
    /\ pc[c] = "stat"
    /\ IF fs[prev[c]].kind # "dir" THEN End(c, "error") ELSE Goto(c, "rename")
    /\ UNCHANGED world

\* os.Rename of a directory: within a file system, and onto nothing, as Go refuses any
\* directory that is there (rename(2) itself would take an empty one).
Renames(p, v) ==
    /\ fs[p].kind = "dir"
    /\ Device[p] = Device[v]
    /\ fs[v].kind = "none"

Rename(c) ==
    LET p == prev[c]
        v == cmd[c].value
    IN  /\ pc[c] = "rename"
        /\ \/ /\ Renames(p, v)
              /\ fs' = [fs EXCEPT ![v] = fs[p], ![p] = Nothing]
              /\ End(c, "moved")
           \/ ~Renames(p, v) /\ Goto(c, "mv") /\ UNCHANGED fs
        /\ UNCHANGED <<home, busy>>

\* Mutant: the home is removed whether or not its copy is complete.
Mv_Unchecked(c) ==
    LET p == prev[c]
        v == cmd[c].value
    IN  /\ pc[c] = "mv"
        /\ \/ /\ fs[p].kind = "none" \/ fs[v].kind = "file"
              /\ End(c, "error") /\ UNCHANGED fs
           \/ /\ fs[p].kind # "none" /\ fs[v].kind # "file"
              /\ \E there \in {fs[p], Dir({"other"})} : fs' = [fs EXCEPT ![v] = there]
              /\ Goto(c, "remove")
        /\ UNCHANGED <<home, busy>>

\* mv puts a directory into one that is there; otherwise it copies and then removes.
Mv(c) ==
    LET p == prev[c]
        v == cmd[c].value
    IN  /\ pc[c] = "mv"
        /\ \/ /\ fs[p].kind = "none" \/ fs[v].kind = "file"
              /\ End(c, "error") /\ UNCHANGED fs
           \/ /\ fs[p].kind # "none" /\ fs[v].kind = "dir"
              /\ fs' = [fs EXCEPT ![v].has = @ \cup {"home"}, ![p] = Nothing]
              /\ End(c, "moved")
           \/ /\ fs[p].kind # "none" /\ fs[v].kind = "none"
              /\ \/ fs' = [fs EXCEPT ![v] = fs[p]] /\ Goto(c, "remove")
                 \/ fs' = [fs EXCEPT ![v] = Dir({"other"})] /\ End(c, "error")
        /\ UNCHANGED <<home, busy>>

MvRemoves(c) ==
    /\ pc[c] = "remove"
    /\ fs' = [fs EXCEPT ![prev[c]] = Nothing]
    /\ End(c, "moved")
    /\ UNCHANGED <<home, busy>>

Interrupt(c) ==
    /\ Running(c)
    /\ End(c, None)
    /\ UNCHANGED world

-----------------------------------------------------------------------------
(* The rest of the machine.                                                *)

\* A session: the login inserts the user if need be, pam_mkhomedir makes the home.
Login ==
    /\ ~busy
    /\ busy' = TRUE
    /\ home' = IF home = None THEN DefaultHome ELSE home
    /\ fs' = IF fs[home'].kind = "none" THEN [fs EXCEPT ![home'] = Dir({"other"})] ELSE fs
    /\ UNCHANGED <<pc, cmd, prev, result>>

Logout ==
    /\ busy
    /\ busy' = FALSE
    /\ UNCHANGED <<home, fs, pc, cmd, prev, result>>

\* A purge takes the row of the user, in a session or not.
Purge ==
    /\ home # None
    /\ home' = None
    /\ UNCHANGED <<fs, busy, pc, cmd, prev, result>>

\* The administrator clears a path that holds nothing of the user's.
Clear(p) ==
    /\ fs[p].kind # "none" /\ fs[p].has \cap {"files", "home"} = {}
    /\ fs' = [fs EXCEPT ![p] = Nothing]
    /\ UNCHANGED <<home, busy, pc, cmd, prev, result>>

CliStep(c) ==
    \/ Query(c) \/ IsBusy(c) \/ UserExists(c)
    \/ UpdateUserAttribute(c) \/ UpdateFails(c)
    \/ AccessTarget(c) \/ StatHome(c) \/ Rename(c) \/ Mv(c) \/ MvRemoves(c)
    \/ Interrupt(c)

\* The code relies on nobody starting another run or clearing a path during a run, and
\* on nobody logging in after IsBusy.
Next ==
    \/ /\ (\E c \in Clis : CliStep(c)) \/ Logout \/ Purge
       /\ UNCHANGED <<raced, overlapped>>
    \/ /\ \E c \in Clis, v \in Paths, m \in MoveHome : Run(c, v, m)
       /\ raced' = (raced \/ \E c \in Clis : Running(c))
       /\ overlapped' = (overlapped \/ \E c \in Clis : Running(c))
    \/ /\ \E p \in Paths : Clear(p)
       /\ raced' = (raced \/ \E c \in Clis : Running(c))
       /\ UNCHANGED overlapped
    \/ /\ Login
       /\ raced' = (raced \/ \E c \in Clis : Running(c) /\ pc[c] \notin {"query", "busy"})
       /\ UNCHANGED overlapped

Spec == Init /\ [][Next]_vars

-----------------------------------------------------------------------------

Ends(c, r) == Running(c) /\ pc'[c] = "idle" /\ result'[c] = r

\* A move never loses the files of the user, nor puts them into a directory somebody
\* else has made: they are a home, if not always the recorded one.
FilesAreAHome == ~raced => \E p \in Paths : "files" \in fs[p].has

\* Nothing of the user's is lost, also when a session begins or a directory appears at the
\* target at any moment of a run, as long as there is one run at a time: at worst mv
\* puts the home inside that directory.
NothingIsLost == ~overlapped => \E p \in Paths : fs[p].has \cap {"files", "home"} # {}

\* Moving a home takes nothing away from a user who is logged in, also when the
\* session has begun during the run, before IsBusy.  Logged in is what IsBusy counts:
\* processes of the user with the root directory of aad-cli.
BusyHomeStays ==
    [][~raced /\ busy =>
          \A p \in Paths : "files" \in fs[p].has => "files" \in fs'[p].has]_vars

\* A run that has moved a home has recorded where it is, unless the user has been
\* purged meanwhile, and left nothing behind.
MovedIsRecorded ==
    [][\A c \in Clis : ~raced /\ Ends(c, "moved") =>
          /\ home' \in {cmd[c].value, None}
          /\ fs'[cmd[c].value].kind = "dir"
          /\ fs'[prev[c]].kind = "none"]_vars
=============================================================================
