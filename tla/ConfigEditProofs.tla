-------------------------- MODULE ConfigEditProofs --------------------------
(***************************************************************************)
(* Edits of aad.conf until two overlap, for any domains, texts and runs,   *)
(* interrupted at any point.                                               *)
(***************************************************************************)
EXTENDS ConfigEdit, FiniteSetTheorems, TLAPS

\* A loaded configuration has its tenant, which the error has not.
LEMMA LoadedOrNot ==
    ASSUME NEW text, NEW d
    PROVE  Load(text, d) # LoadError <=>
              LET loaded == MapTo(MapTo([NoKeys EXCEPT !.home = "default"], KeysOf(text, DEFAULT)),
                                  KeysOf(text, d))
              IN  /\ text # Garbage
                  /\ KeysOf(text, DEFAULT).offline_credentials_expiration # "bad"
                  /\ KeysOf(text, d).offline_credentials_expiration # "bad"
                  /\ loaded.tenant_id # None
                  /\ loaded.app_id # None
<1>. DEFINE loaded == MapTo(MapTo([NoKeys EXCEPT !.home = "default"], KeysOf(text, DEFAULT)),
                            KeysOf(text, d))
<1>1. loaded.tenant_id # None => loaded # LoadError
    BY DEF LoadError
<1>. HIDE DEF loaded
<1>2. Load(text, d) = IF \/ text = Garbage
                         \/ \E s \in {DEFAULT, d} : KeysOf(text, s).offline_credentials_expiration = "bad"
                         \/ loaded.tenant_id = None
                         \/ loaded.app_id = None
                      THEN LoadError ELSE loaded
    BY DEF Load, loaded
<1>3. Load(text, d) # LoadError <=>
                  /\ text # Garbage
                  /\ KeysOf(text, DEFAULT).offline_credentials_expiration # "bad"
                  /\ KeysOf(text, d).offline_credentials_expiration # "bad"
                  /\ loaded.tenant_id # None
                  /\ loaded.app_id # None
    BY <1>1, <1>2
<1>. QED  BY <1>3 DEF loaded

\* A domain without a section loads what the default section alone gives.
LEMMA DefaultServesAll ==
    ASSUME NEW text, NEW d \in Domains, d \notin DOMAIN text, "bad" # None,
           Load(text, DEFAULT) # LoadError
    PROVE  Load(text, d) # LoadError
<1>. DEFINE start == [NoKeys EXCEPT !.home = "default"]
            first == MapTo(start, KeysOf(text, DEFAULT))
<1>1. KeysOf(text, d) = NoKeys
    BY DEF KeysOf
<1>2. DOMAIN start = {"tenant_id", "app_id", "home", "offline_credentials_expiration"}
    BY DEF NoKeys
<1>3. DOMAIN first = DOMAIN start
    BY DEF MapTo
<1>4. /\ MapTo(first, KeysOf(text, DEFAULT)).tenant_id # None => first.tenant_id # None
      /\ MapTo(first, KeysOf(text, DEFAULT)).app_id # None => first.app_id # None
    <2>. HIDE DEF start
    <2>. QED  BY <1>2, <1>3 DEF MapTo
<1>5. /\ MapTo(first, NoKeys).tenant_id = first.tenant_id
      /\ MapTo(first, NoKeys).app_id = first.app_id
    BY <1>2, <1>3 DEF MapTo, NoKeys
<1>6. NoKeys.offline_credentials_expiration # "bad"
    BY DEF NoKeys
<1>. HIDE DEF first
<1>. QED  BY <1>1, <1>4, <1>5, <1>6, LoadedOrNot DEF first

\* What Validate accepts loads for every domain it should.
LEMMA ValidLoads ==
    ASSUME NEW text, Validate(text), NEW d \in Domains, "bad" # None,
           d \in DOMAIN text \/ DOMAIN text = {DEFAULT}
    PROVE  Load(text, d) # LoadError
<1>0. d # DEFAULT
    BY ConfigAssumption
<1>1. CASE d \in DOMAIN text
    BY <1>0, <1>1 DEF Validate
<1>2. CASE d \notin DOMAIN text /\ DOMAIN text = {DEFAULT}
    <2>1. Cardinality(DOMAIN text) = 1
        BY <1>2, FS_Singleton
    <2>2. Load(text, DEFAULT) # LoadError
        BY <1>2, <2>1 DEF Validate
    <2>. QED  BY <1>2, <2>2, DefaultServesAll
<1>. QED  BY <1>1, <1>2

-----------------------------------------------------------------------------

\* One run at a time; what is installed, or about to be, is valid; the temporary file
\* is a file of its own, and only the run that is copying has it open.
EditInv ==
    /\ TypeOK
    /\ Alone
    /\ conf # None => Validate(node[conf])
    /\ tmp # None => tmp # conf
    /\ \A e \in Editors : pc[e] = "rename" => tmp # None /\ Validate(node[tmp])
    /\ \A e \in Editors : pc[e] \in {"open", "copy"} => fd[e] = tmp /\ tmp # None
    /\ \A e \in Editors : pc[e] \notin {"open", "copy"} => fd[e] = None

\* At first nobody edits.
LEMMA EditInit == Init => EditInv
BY ConfigAssumption DEF Init, EditInv, TypeOK, Alone, AllTexts, Empty

\* An edit that ends without a rename changes no file that matters.
LEMMA EndKeeps ==
    ASSUME EditInv, NEW e \in Editors, pc[e] # "idle", End(e), UNCHANGED <<conf, tmp, node>>, raced' \in BOOLEAN
    PROVE  EditInv'
BY DEF EditInv, TypeOK, Alone, End, CloseFiles, Goto

\* A step of a lone editor keeps EditInv and does not write to the installed file.
LEMMA EditStep ==
    ASSUME EditInv, Alone', [Next]_vars
    PROVE  EditInv' /\ (conf # None => node'[conf] = node[conf])
<1>. raced' \in BOOLEAN
    BY DEF Next, vars, EditInv, TypeOK
<1>. USE DEF EditInv, TypeOK, Alone
<1>1. CASE UNCHANGED vars
    BY <1>1 DEF vars
<1>2. ASSUME NEW e \in Editors, Start(e)  PROVE EditInv' /\ UNCHANGED node
    BY <1>2 DEF Start, Goto
<1>3. ASSUME NEW e \in Editors, CreateTmp(e)
      PROVE  EditInv' /\ (conf # None => node'[conf] = node[conf])
    <2>1. PICK i \in Inodes : /\ OpenTmp(i)
                              /\ tmp' = i
                              /\ node' = [node EXCEPT ![i] = Empty]
                              /\ fd' = [fd EXCEPT ![e] = i]
        BY <1>3 DEF CreateTmp
    <2>2. i # conf /\ i # None
        BY <2>1, ConfigAssumption DEF OpenTmp, Free
    <2>3. pc' = [pc EXCEPT ![e] = "open"] /\ pc[e] = "create" /\ UNCHANGED <<conf, config>>
        BY <1>3 DEF CreateTmp, Goto
    <2>4. Empty \in AllTexts
        BY DEF AllTexts
    <2>5. TypeOK'
        BY <2>1, <2>3, <2>4
    <2>6. \A o \in Editors : o # e => pc[o] = "idle" /\ pc'[o] = "idle"
        BY <2>3
    <2>. QED  BY <2>1, <2>2, <2>3, <2>5, <2>6
<1>4. ASSUME NEW e \in Editors, CopyConfig(e)
      PROVE  EditInv' /\ (conf # None => node'[conf] = node[conf])
    <2>1. fd[e] = tmp /\ tmp # None /\ tmp # conf /\ pc[e] = "copy" /\ tmp \in Inodes
        BY <1>4 DEF CopyConfig
    <2>2. /\ pc' = [pc EXCEPT ![e] = "edit"] /\ UNCHANGED <<conf, tmp>>
          /\ fd' = [fd EXCEPT ![e] = None] /\ config' = [config EXCEPT ![e] = None]
        BY <1>4 DEF CopyConfig, CloseFiles, Goto
    <2>3. PICK t \in AllTexts : node' = [node EXCEPT ![tmp] = t]
        BY <1>4, <2>1 DEF CopyConfig, AllTexts
    <2>4. \A o \in Editors : o # e => pc[o] = "idle" /\ pc'[o] = "idle"
        BY <2>1, <2>2
    <2>5. TypeOK'
        BY <2>1, <2>2, <2>3
    <2>. QED  BY <2>1, <2>2, <2>3, <2>4, <2>5
<1>5. ASSUME NEW e \in Editors, RunEditor(e)
      PROVE  EditInv' /\ (conf # None => node'[conf] = node[conf])
    <2>1. pc' = [pc EXCEPT ![e] = "validate"] /\ pc[e] = "edit" /\ UNCHANGED <<conf, fd, config>>
        BY <1>5 DEF RunEditor, Goto
    <2>2. \A o \in Editors : o # e => pc[o] = "idle" /\ pc'[o] = "idle"
        BY <2>1
    <2>3. CASE UNCHANGED <<tmp, node>>
        BY <2>1, <2>2, <2>3
    <2>4. ASSUME NEW i \in Inodes, NEW t \in Texts, OpenTmp(i), tmp' = i,
                 node' = [node EXCEPT ![i] = t]
          PROVE  EditInv' /\ (conf # None => node'[conf] = node[conf])
        <3>1. i # conf
            BY <2>4 DEF OpenTmp, Free
        <3>2. TypeOK'
            BY <2>1, <2>4 DEF AllTexts
        <3>. QED  BY <2>1, <2>2, <2>4, <3>1, <3>2
    <2>. QED  BY <1>5, <2>3, <2>4 DEF RunEditor
<1>6. ASSUME NEW e \in Editors, ValidateTmp(e)  PROVE EditInv' /\ UNCHANGED node
    <2>1. CASE tmp # None /\ Validate(node[tmp]) /\ Goto(e, "rename") /\ UNCHANGED <<fd, config>>
        BY <1>6, <2>1 DEF ValidateTmp, Goto
    <2>2. CASE End(e)
        BY <1>6, <2>2, EndKeeps DEF ValidateTmp
    <2>. QED  BY <1>6, <2>1, <2>2 DEF ValidateTmp
<1>7. ASSUME NEW e \in Editors, RenameTmp(e)  PROVE EditInv' /\ UNCHANGED node
    <2>1. tmp # None /\ Validate(node[tmp]) /\ conf' = tmp /\ tmp' = None /\ UNCHANGED node
        BY <1>7 DEF RenameTmp
    <2>2. /\ pc' = [pc EXCEPT ![e] = "idle"] /\ pc[e] = "rename"
          /\ fd' = [fd EXCEPT ![e] = None] /\ config' = [config EXCEPT ![e] = None]
        BY <1>7 DEF RenameTmp, End, CloseFiles, Goto
    <2>3. \A o \in Editors : pc'[o] = "idle"
        BY <2>2
    <2>4. \A o \in Editors : fd'[o] = None
        BY <2>2
    <2>. QED  BY <2>1, <2>2, <2>3, <2>4
<1>8. ASSUME NEW e \in Editors, CopyFails(e) \/ EditorFails(e) \/ Interrupt(e)
      PROVE  EditInv' /\ UNCHANGED node
    BY <1>8, EndKeeps DEF CopyFails, EditorFails, Interrupt
<1>9. ASSUME NEW e \in Editors, OpenConfig(e)  PROVE EditInv' /\ UNCHANGED node
    BY <1>9 DEF OpenConfig, Goto
<1>. QED  BY <1>1, <1>2, <1>3, <1>4, <1>5, <1>6, <1>7, <1>8, <1>9 DEF Next

\* A step that leaves raced FALSE is one of edits that do not overlap.
LEMMA CalmStep ==
    ASSUME raced \/ EditInv, [Next]_vars, ~raced'
    PROVE  ~raced /\ EditInv /\ Alone'
<1>1. CASE Next
    <2>1. ~(raced \/ ~Alone')
        BY <1>1 DEF Next
    <2>. QED  BY <2>1
<1>2. CASE UNCHANGED vars
    <2>1. ~raced /\ EditInv
        BY <1>2 DEF vars
    <2>. QED  BY <1>2, <2>1 DEF EditInv, Alone, vars
<1>. QED  BY <1>1, <1>2

\* The step that makes two edits overlap is the start of the second.
LEMMA OverlapStarts ==
    ASSUME EditInv, [Next]_vars, ~raced, raced'
    PROVE  \E e \in Editors : Start(e)
<1>1. Next /\ ~Alone'
    BY DEF Next, vars
<1>2. ASSUME NEW e \in Editors, NEW l, pc[e] # "idle", Goto(e, l)  PROVE FALSE
    BY <1>1, <1>2 DEF Goto, Alone, EditInv, TypeOK
<1>. QED
    BY <1>1, <1>2 DEF Next, CreateTmp, OpenConfig, CopyConfig, CopyFails, RunEditor, EditorFails,
       ValidateTmp, RenameTmp, Interrupt, End

\* EditInv holds until two edits overlap.
LEMMA EditAlways == Spec => [](raced \/ EditInv)
<1>1. (raced \/ EditInv) /\ [Next]_vars => (raced \/ EditInv)'
    BY CalmStep, EditStep
<1>. QED  BY <1>1, EditInit, PTL DEF Spec

\* Until edits overlap, the installed configuration always loads, whatever was typed
\* and wherever a run was interrupted.
THEOREM AloneInstalledLoads ==
    ASSUME "bad" # None
    PROVE  Spec => []InstalledLoads
<1>1. raced \/ EditInv => InstalledLoads
    BY ValidLoads DEF EditInv, InstalledLoads, Validate
<1>. QED  BY <1>1, EditAlways, PTL

\* Until edits overlap, nobody writes into the installed file.
THEOREM AloneInstalledIsReplaced == Spec => InstalledIsReplaced
<1>1. ASSUME raced \/ EditInv, [Next]_vars, ~raced, conf # None  PROVE node'[conf] = node[conf]
    <2>1. CASE ~raced'
        BY <1>1, <2>1, CalmStep, EditStep
    <2>2. CASE raced'
        <3>1. PICK e \in Editors : Start(e)
            BY <1>1, <2>2, OverlapStarts
        <3>. QED  BY <3>1 DEF Start
    <2>. QED  BY <2>1, <2>2
<1>2. (raced \/ EditInv) /\ [Next]_vars =>
        [~raced /\ conf # None => node'[conf] = node[conf]]_vars
    BY <1>1
<1>. QED  BY <1>2, EditAlways, PTL DEF Spec, InstalledIsReplaced
=============================================================================
