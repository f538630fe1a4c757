----------------------------- MODULE ConfigEdit -----------------------------
(***************************************************************************)
(* aad.conf: how config.Load reads it for a domain, how config.Validate    *)
(* judges it, and how aad-cli config --edit replaces it through the one    *)
(* temporary file aad.conf.tmp beside it.                                  *)
(*                                                                         *)
(* A text is garbage the ini parser refuses, or gives every section the    *)
(* keys it sets.  home stands for homedir and shell, which have defaults.  *)
(***************************************************************************)
EXTENDS Naturals, FiniteSets

CONSTANTS
    Domains,        \* domains a section may be for
    Editors,        \* runs of aad-cli config --edit
    Texts,          \* what a user may save: Garbage or functions of sections
    Garbage,        \* a text that is no ini file
    Inodes,         \* inodes there may be at a time
    None            \* no value, no file

DEFAULT == "DEFAULT"
Sections == Domains \cup {DEFAULT}

\* A key is unset (None) or has a value; "bad" is an expiration that is no integer.
SectionKeys == [tenant_id : {None, "t"}, app_id : {None, "a"}, home : {None, "h"},
                offline_credentials_expiration : {None, "days", "bad"}]

NoKeys == [tenant_id |-> None, app_id |-> None, home |-> None,
           offline_credentials_expiration |-> None]

\* The template shipped in conf/: every required key is left for the user to fill in.
Template == [s \in {DEFAULT} |-> NoKeys]
\* os.Create leaves an empty file, which parses like one without keys.
Empty == [s \in {DEFAULT} |-> NoKeys]

ASSUME ConfigAssumption ==
    /\ DEFAULT \notin Domains
    /\ \A t \in Texts \ {Garbage} :
          /\ DOMAIN t \subseteq Sections /\ DEFAULT \in DOMAIN t
          /\ \A s \in DOMAIN t : t[s] \in SectionKeys
    /\ None \notin Inodes

-----------------------------------------------------------------------------
(* internal/config.                                                        *)

LoadError == [tenant_id |-> None, app_id |-> None, home |-> "error",
              offline_credentials_expiration |-> "error"]

\* StrictMapTo: the keys of a section replace those loaded before.
MapTo(loaded, keys) ==
    [k \in DOMAIN loaded |-> IF keys[k] = None THEN loaded[k] ELSE keys[k]]

\* cfg.Section of a domain without a section is an empty one.
KeysOf(text, s) == IF s \in DOMAIN text THEN text[s] ELSE NoKeys

\* defaultHome is what adduser.conf or the constants give.
Load(text, domain) ==
    LET defaults == [NoKeys EXCEPT !.home = "default"]
        loaded == MapTo(MapTo(defaults, KeysOf(text, DEFAULT)), KeysOf(text, domain))
    IN  IF \/ text = Garbage
           \/ \E s \in {DEFAULT, domain} : KeysOf(text, s).offline_credentials_expiration = "bad"
           \/ loaded.tenant_id = None
           \/ loaded.app_id = None
        THEN LoadError ELSE loaded

\* Mutant: only the keys at the beginning of the file are checked.
Validate_DefaultOnly(text) == text # Garbage /\ Load(text, DEFAULT) # LoadError

\* The default section is checked only when it is the only one.
Validate(text) ==
    /\ text # Garbage
    /\ \A s \in DOMAIN text :
          \/ s = DEFAULT /\ Cardinality(DOMAIN text) > 1
          \/ Load(text, s) # LoadError

-----------------------------------------------------------------------------
(* aad-cli config --edit.                                                  *)

VARIABLES
    conf,       \* the inode aad.conf names
    tmp,        \* the inode aad.conf.tmp names
    node,       \* the texts of the inodes
    pc,         \* the call a run is about to make
    fd,         \* the temporary file tempFileWithPreviousConfig has open
    config,     \* the configuration it has open
    raced       \* history: have two runs edited at a time

vars == <<conf, tmp, node, pc, fd, config, raced>>

AllTexts == Texts \cup {Garbage, Template, Empty}

TypeOK ==
    /\ conf \in Inodes \cup {None}
    /\ tmp \in Inodes \cup {None}
    /\ node \in [Inodes -> AllTexts]
    /\ pc \in [Editors -> {"idle", "create", "open", "copy", "edit", "validate", "rename"}]
    /\ fd \in [Editors -> Inodes \cup {None}]
    /\ config \in [Editors -> Inodes \cup {None}]
    /\ raced \in BOOLEAN

\* The machine has a valid configuration or none yet.
Init ==
    /\ conf \in Inodes \cup {None}
    /\ tmp = None
    /\ \E t \in Texts :
          /\ Validate(t)
          /\ node = [i \in Inodes |-> IF i = conf THEN t ELSE Empty]
    /\ pc = [e \in Editors |-> "idle"]
    /\ fd = [e \in Editors |-> None]
    /\ config = [e \in Editors |-> None]
    /\ raced = FALSE

Alone == \A e, o \in Editors : pc[e] # "idle" /\ pc[o] # "idle" => e = o

Goto(e, l) == pc' = [pc EXCEPT ![e] = l]

CloseFiles(e) == fd' = [fd EXCEPT ![e] = None] /\ config' = [config EXCEPT ![e] = None]

\* The run ends, with an error or not; the temporary file stays.
End(e) == Goto(e, "idle") /\ CloseFiles(e)

Start(e) ==
    /\ pc[e] = "idle"
    /\ Goto(e, "create")
    /\ UNCHANGED <<conf, tmp, node, fd, config>>

Free(i) == i \notin {conf, tmp} /\ \A e \in Editors : i \notin {fd[e], config[e]}

\* Opens the path of the temporary file for writing: the file that is there, which
\* keeps its other users, or a new one.
OpenTmp(i) == IF tmp = None THEN Free(i) ELSE i = tmp

\* os.Create truncates a temporary file that is there.
CreateTmp(e) ==
    /\ pc[e] = "create"
    /\ \E i \in Inodes :
          /\ OpenTmp(i)
          /\ tmp' = i
          /\ node' = [node EXCEPT ![i] = Empty]
          /\ fd' = [fd EXCEPT ![e] = i]
    /\ Goto(e, "open")
    /\ UNCHANGED <<conf, config>>

OpenConfig(e) ==
    /\ pc[e] = "open"
    /\ config' = [config EXCEPT ![e] = conf]
    /\ Goto(e, "copy")
    /\ UNCHANGED <<conf, tmp, node, fd>>

\* Mutant: the files are the wrong way round.
CopyConfig_Swapped(e) ==
    /\ pc[e] = "copy"
    /\ node' = IF config[e] = None THEN [node EXCEPT ![fd[e]] = Template]
               ELSE [node EXCEPT ![config[e]] = node[fd[e]]]
    /\ CloseFiles(e)
    /\ Goto(e, "edit")
    /\ UNCHANGED <<conf, tmp>>

\* The template when there was no configuration to open.
CopyConfig(e) ==
    /\ pc[e] = "copy"
    /\ node' = [node EXCEPT ![fd[e]] = IF config[e] = None THEN Template ELSE node[config[e]]]
    /\ CloseFiles(e)
    /\ Goto(e, "edit")
    /\ UNCHANGED <<conf, tmp>>

CopyFails(e) ==
    /\ pc[e] \in {"open", "copy"}
    /\ End(e)
    /\ UNCHANGED <<conf, tmp, node>>

\* The user leaves the file as it is, or saves another text in place.
RunEditor(e) ==
    /\ pc[e] = "edit"
    /\ \/ \E i \in Inodes, t \in Texts :
            OpenTmp(i) /\ tmp' = i /\ node' = [node EXCEPT ![i] = t]
       \/ UNCHANGED <<tmp, node>>
    /\ Goto(e, "validate")
    /\ UNCHANGED <<conf, fd, config>>

EditorFails(e) ==
    /\ pc[e] = "edit"
    /\ End(e)
    /\ UNCHANGED <<conf, tmp, node>>

ValidateTmp(e) ==
    /\ pc[e] = "validate"
    /\ IF tmp # None /\ Validate(node[tmp]) THEN Goto(e, "rename") /\ UNCHANGED <<fd, config>> ELSE End(e)
    /\ UNCHANGED <<conf, tmp, node>>

RenameTmp(e) ==
    /\ pc[e] = "rename"
    /\ \/ tmp # None /\ conf' = tmp /\ tmp' = None
       \/ tmp = None /\ UNCHANGED <<conf, tmp>>
    /\ End(e)
    /\ UNCHANGED node

Interrupt(e) ==
    /\ pc[e] # "idle"
    /\ End(e)
    /\ UNCHANGED <<conf, tmp, node>>

Next ==
    /\ \E e \in Editors :
          \/ Start(e) \/ CreateTmp(e) \/ OpenConfig(e) \/ CopyConfig(e) \/ CopyFails(e)
          \/ RunEditor(e) \/ EditorFails(e) \/ ValidateTmp(e) \/ RenameTmp(e)
          \/ Interrupt(e)
    /\ raced' = (raced \/ ~Alone')

Spec == Init /\ [][Next]_vars

-----------------------------------------------------------------------------

\* Nothing keeps two runs from editing at a time, and they share the temporary file:
\* what follows holds until they do.

\* An edit that is refused, interrupted or under way does not keep anyone from logging
\* in: the installed configuration loads for every domain it has a section for, and,
\* when it has none, for all.
InstalledLoads ==
    ~raced /\ conf # None =>
        /\ node[conf] # Garbage
        /\ \A d \in Domains :
              d \in DOMAIN node[conf] \/ DOMAIN node[conf] = {DEFAULT}
                  => Load(node[conf], d) # LoadError

\* The installed file is replaced, never written: a login that has opened it reads one
\* text.
InstalledIsReplaced ==
    [][~raced /\ conf # None => node'[conf] = node[conf]]_vars
=============================================================================
