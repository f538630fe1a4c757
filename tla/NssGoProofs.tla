---------------------------- MODULE NssGoProofs ----------------------------
(***************************************************************************)
(* For any finite set of threads, any users and any of the databases: the  *)
(* bindings release the pooled cache as often as they take it, a cursor is *)
(* of an enumeration under way and has a connection of its own, and an     *)
(* enumeration is whole.                                                   *)
(***************************************************************************)
EXTENDS NssGo, FiniteSetTheorems, TLAPS

Busy == {t \in Threads : pc[t] # "idle"}
Enumerations == {e \in Threads \X Databases : e[2] \in enumerating[e[1]]}

\* An iteration cache is the one of the one thread that enumerates.
OneEnumeration ==
    /\ \A d \in Databases : iteration[d] <=> \E t \in Threads : d \in enumerating[t]
    /\ \A s, t \in Threads, d \in Databases : d \in enumerating[s] /\ d \in enumerating[t] => s = t

\* Whoever uses the cache has it open.
UsedIsOpen == Busy # {} \/ Enumerations # {} => dbOpen

\* Connections are given to one at a time: to a thread for its query, to a cursor
\* for its rows.
ConnsHeld ==
    /\ \A c \in Conns : holder[c] # None => conn[c] # "closed"
    /\ \A b, c \in Conns : holder[b] = holder[c] /\ holder[c] # None => b = c
    /\ \A c \in Conns : holder[c] \in Threads => pc[holder[c]] = "return"
    /\ \A c \in Conns : holder[c] \in Databases => cursor[holder[c]] # None
    /\ ~dbOpen => \A c \in Conns : conn[c] = "closed"

CursorHeld ==
    \A d \in Databases : cursor[d] # None =>
        /\ \E t \in Threads : d \in enumerating[t]
        /\ \E c \in Conns : holder[c] = d

\* What a thread has been given and what the cursor still has is what was due.
Accounted ==
    \A t \in Threads, d \in Databases :
        /\ due[t][d] = None => got[t][d] = {}
        /\ d \notin enumerating[t] => due[t][d] = None
        /\ d \in enumerating[t] /\ cursor[d] = None => due[t][d] = None
        /\ d \in enumerating[t] /\ cursor[d] # None =>
              due[t][d] # None /\ got[t][d] \cup cursor[d] = due[t][d]

\* Uses that have not overlapped are one at most, and need one connection.
AloneInv ==
    dbOpen /\ alone =>
        /\ \A s, t \in Busy : s = t
        /\ \A e, f \in Enumerations : e = f
        /\ Busy = {} \/ Enumerations = {}
        /\ shadowMode > 0 =>
              \E c \in Conns : conn[c] = "attached" /\ \A b \in Conns \ {c} : conn[b] = "closed"

IndInv ==
    /\ TypeOK /\ OneEnumeration /\ UsesAreCounted /\ UsedIsOpen
    /\ ConnsHeld /\ CursorHeld /\ Accounted /\ AloneInv

-----------------------------------------------------------------------------
(* Counting.                                                               *)

\* Uses can be counted.
LEMMA Countable ==
    /\ IsFiniteSet(Databases) /\ IsFiniteSet(Threads)
    /\ IsFiniteSet(Busy) /\ Cardinality(Busy) \in Nat
    /\ IsFiniteSet(Enumerations) /\ Cardinality(Enumerations) \in Nat
  <1>1. IsFiniteSet({"passwd", "group", "shadow"})
    <2>1. IsFiniteSet({"passwd"})
      BY FS_Singleton
    <2>2. IsFiniteSet({"passwd"} \cup {"group"})
      BY <2>1, FS_AddElement
    <2>3. IsFiniteSet(({"passwd"} \cup {"group"}) \cup {"shadow"})
      BY <2>2, FS_AddElement
    <2>4. {"passwd", "group", "shadow"} = ({"passwd"} \cup {"group"}) \cup {"shadow"}
      OBVIOUS
    <2> QED
      BY <2>3, <2>4
  <1>2. IsFiniteSet(Databases) /\ IsFiniteSet(Threads)
    BY <1>1, FS_Subset, NssGoAssumption
  <1>3. IsFiniteSet(Threads \X Databases)
    BY <1>2, FS_Product
  <1>4. IsFiniteSet(Busy)
    BY <1>2, FS_Subset DEF Busy
  <1>5. IsFiniteSet(Enumerations)
    BY <1>3, FS_Subset DEF Enumerations
  <1> QED
    BY <1>2, <1>4, <1>5, FS_CardinalityType

\* The count, of the two sets of uses, before and after a step.
LEMMA CountedAs ==
    /\ UsesAreCounted <=> usedBy = Cardinality(Busy) + Cardinality(Enumerations)
    /\ UsesAreCounted' <=> usedBy' = Cardinality(Busy') + Cardinality(Enumerations')
  BY DEF UsesAreCounted, Busy, Enumerations

\* The count is zero when nobody uses the cache.
LEMMA CountZero ==
    ASSUME UsesAreCounted, usedBy = 0
    PROVE  Busy = {} /\ Enumerations = {}
  <1>1. usedBy = Cardinality(Busy) + Cardinality(Enumerations)
    BY CountedAs
  <1>2. Cardinality(Busy) = 0 /\ Cardinality(Enumerations) = 0
    BY <1>1, Countable
  <1> QED
    BY <1>2, Countable, FS_EmptySet

\* A lookup that begins is one use more.
LEMMA BusyUp ==
    ASSUME TypeOK, NEW t \in Threads, pc[t] = "idle", pc' = [pc EXCEPT ![t] = "query"]
    PROVE  Busy' = Busy \cup {t} /\ Cardinality(Busy') = Cardinality(Busy) + 1
  <1>1. Busy' = Busy \cup {t} /\ t \notin Busy
    BY DEF Busy, TypeOK
  <1> QED
    BY <1>1, Countable, FS_AddElement

\* One that is over is one less.
LEMMA BusyDown ==
    ASSUME TypeOK, NEW t \in Threads, pc[t] = "return", pc' = [pc EXCEPT ![t] = "idle"]
    PROVE  Busy' = Busy \ {t} /\ Cardinality(Busy') = Cardinality(Busy) - 1
  <1>1. Busy' = Busy \ {t} /\ t \in Busy
    BY DEF Busy, TypeOK
  <1> QED
    BY <1>1, Countable, FS_RemoveElement

\* An enumeration that begins is one more,
LEMMA EnumUp ==
    ASSUME TypeOK, NEW t \in Threads, NEW d \in Databases, d \notin enumerating[t],
           enumerating' = [enumerating EXCEPT ![t] = @ \cup {d}]
    PROVE  /\ Enumerations' = Enumerations \cup {<<t, d>>}
           /\ Cardinality(Enumerations') = Cardinality(Enumerations) + 1
  <1>1. Enumerations' = Enumerations \cup {<<t, d>>} /\ <<t, d>> \notin Enumerations
    BY DEF Enumerations, TypeOK
  <1> QED
    BY <1>1, Countable, FS_AddElement

\* one that ends is one less.
LEMMA EnumDown ==
    ASSUME TypeOK, NEW t \in Threads, NEW d \in Databases, d \in enumerating[t],
           enumerating' = [enumerating EXCEPT ![t] = @ \ {d}]
    PROVE  /\ Enumerations' = Enumerations \ {<<t, d>>}
           /\ Cardinality(Enumerations') = Cardinality(Enumerations) - 1
  <1>1. Enumerations' = Enumerations \ {<<t, d>>} /\ <<t, d>> \in Enumerations
    BY DEF Enumerations, TypeOK
  <1> QED
    BY <1>1, Countable, FS_RemoveElement

-----------------------------------------------------------------------------
(* Connections.                                                            *)

\* There is a connection for whoever has none.
LEMMA FreeConn ==
    ASSUME TypeOK, ConnsHeld, NEW x \in Threads \cup Databases, \A b \in Conns : holder[b] # x,
           NEW c \in Conns, Takes(c)
    PROVE  holder[c] = None
  <1> DEFINE Others == (Threads \cup Databases) \ {x}
  <1>1. IsFiniteSet(Others) /\ Cardinality(Others) = MaxConns - 1 /\ MaxConns \in Nat
    <2>1. IsFiniteSet(Threads) /\ IsFiniteSet(Databases) /\ Threads \cap Databases = {}
      BY Countable, NssGoAssumption
    <2>2. /\ IsFiniteSet(Threads \cup Databases)
          /\ Cardinality(Threads \cup Databases) = Cardinality(Threads) + Cardinality(Databases) - 0
      BY <2>1, FS_Union, FS_EmptySet
    <2>3. Cardinality(Threads) \in Nat /\ Cardinality(Databases) \in Nat
      BY <2>1, FS_CardinalityType
    <2>4. /\ IsFiniteSet(Others)
          /\ Cardinality(Others) = Cardinality(Threads \cup Databases) - 1
      BY <2>2, FS_RemoveElement
    <2> QED
      BY <2>2, <2>3, <2>4, NssGoAssumption
  <1>2. ASSUME Idle = {}, \A b \in Conns : conn[b] # "closed" PROVE FALSE
    <2>1. \A b \in Conns : holder[b] # None
      BY <1>2 DEF Idle
    <2>2. holder \in [Conns -> Others]
      BY <2>1 DEF TypeOK
    <2>3. IsFiniteSet(Conns) /\ Cardinality(Conns) >= MaxConns
      BY <1>1, FS_Interval DEF Conns
    <2>4. Cardinality(Others) < Cardinality(Conns) /\ Cardinality(Conns) \in Nat
      BY <1>1, <2>3, FS_CardinalityType
    <2> HIDE DEF Others
    <2>5. \E a, b \in Conns : a # b /\ holder[a] = holder[b]
      BY <1>1, <2>2, <2>3, <2>4, FS_PigeonHole
    <2> QED
      BY <2>1, <2>5 DEF ConnsHeld
  <1>3. CASE c \in Idle
    BY <1>3 DEF Idle
  <1>4. CASE Idle = {} /\ c = CHOOSE b \in Conns : conn[b] = "closed"
    <2>1. conn[c] = "closed"
      BY <1>2, <1>4
    <2> QED
      BY <2>1 DEF ConnsHeld
  <1> QED
    BY <1>3, <1>4 DEF Takes

\* Who is alone is given the connection that has shadow.db.
LEMMA AloneTakes ==
    ASSUME TypeOK, ConnsHeld, CursorHeld, AloneInv, dbOpen, alone, shadowMode > 0,
           NEW c \in Conns, Takes(c),
           \/ \E t \in Threads : pc[t] = "query"
           \/ \E t \in Threads, d \in Databases : d \in enumerating[t] /\ cursor[d] = None
    PROVE  conn' = conn
  <1>1. PICK a \in Conns : conn[a] = "attached"
    BY DEF AloneInv
  <1>2. \A b \in Conns : holder[b] \in Threads => holder[b] \in Busy /\ pc[holder[b]] = "return"
    BY DEF ConnsHeld, Busy
  <1>3. \A b \in Conns : holder[b] \in Databases =>
            \E s \in Threads : <<s, holder[b]>> \in Enumerations /\ cursor[holder[b]] # None
    BY DEF ConnsHeld, CursorHeld, Enumerations
  <1>4. CASE \E t \in Threads : pc[t] = "query"
    <2>1. PICK t \in Threads : pc[t] = "query"
      BY <1>4
    <2>2. t \in Busy
      BY <2>1 DEF Busy
    <2>3. \A b \in Conns : holder[b] \notin Threads /\ holder[b] \notin Databases
      BY <1>2, <1>3, <2>1, <2>2 DEF AloneInv
    <2> QED
      BY <1>1, <2>3 DEF TypeOK, Takes, Idle
  <1>5. CASE \E t \in Threads, d \in Databases : d \in enumerating[t] /\ cursor[d] = None
    <2>1. PICK t \in Threads, d \in Databases : d \in enumerating[t] /\ cursor[d] = None
      BY <1>5
    <2>2. <<t, d>> \in Enumerations
      BY <2>1 DEF Enumerations
    <2>3. \A b \in Conns : holder[b] \notin Threads
      BY <1>2, <2>2 DEF AloneInv
    <2>4. \A b \in Conns : holder[b] \notin Databases
      BY <1>3, <2>1, <2>2 DEF AloneInv
    <2> QED
      BY <1>1, <2>3, <2>4 DEF TypeOK, Takes, Idle
  <1> QED
    BY <1>4, <1>5

\* A released connection is nobody's; if it is the only one it is kept.
LEMMA Released ==
    ASSUME TypeOK, ConnsHeld, NEW x, x # None, Releases(x)
    PROVE  /\ holder' \in [Conns -> {None} \cup Threads \cup Databases]
           /\ conn' \in [Conns -> {"closed", "bare", "attached"}]
           /\ \A c \in Conns : holder'[c] = (IF holder[c] = x THEN None ELSE holder[c])
           /\ \A c \in Conns : holder[c] # x => conn'[c] = conn[c]
           /\ \A a \in Conns :
                conn[a] # "closed" /\ (\A b \in Conns \ {a} : conn[b] = "closed") => conn' = conn
  <1>1. /\ holder' \in [Conns -> {None} \cup Threads \cup Databases]
        /\ \A c \in Conns : holder'[c] = (IF holder[c] = x THEN None ELSE holder[c])
    BY DEF TypeOK, Releases
  <1>2. /\ conn' \in [Conns -> {"closed", "bare", "attached"}]
        /\ \A c \in Conns : holder[c] # x => conn'[c] = conn[c]
    BY DEF TypeOK, Releases
  <1>3. ASSUME NEW a \in Conns, conn[a] # "closed", \A b \in Conns \ {a} : conn[b] = "closed"
        PROVE  conn' = conn
    <2>1. CASE holder[a] = x
      <3>1. Idle = {}
        BY <1>3, <2>1 DEF Idle
      <3>2. Cardinality(Idle) < MaxIdle
        BY <3>1, FS_EmptySet, NssGoAssumption
      <3> QED
        BY <3>2 DEF Releases
    <2>2. CASE holder[a] # x
      <3>1. \A c \in Conns : holder[c] # x
        BY <1>3, <2>2 DEF ConnsHeld
      <3>2. [c \in Conns |-> IF holder[c] = x THEN "closed" ELSE conn[c]] = conn
        BY <3>1 DEF TypeOK
      <3> QED
        BY <3>2 DEF Releases
    <2> QED
      BY <2>1, <2>2
  <1> QED
    BY <1>1, <1>2, <1>3

-----------------------------------------------------------------------------
(* The steps.                                                              *)

\* At first nothing is open.
LEMMA InitInv == Init => IndInv
  <1> SUFFICES ASSUME Init PROVE IndInv
    OBVIOUS
  <1>1. Busy = {} /\ Enumerations = {}
    BY DEF Init, Busy, Enumerations
  <1>2. TypeOK
    <2>1. /\ due \in [Threads -> [Databases -> {None} \cup SUBSET Users]]
          /\ got \in [Threads -> [Databases -> SUBSET Users]]
      BY DEF Init
    <2>2. /\ cursor \in [Databases -> {None} \cup SUBSET Users]
          /\ enumerating \in [Threads -> SUBSET Databases]
          /\ usedBy \in Nat /\ shadowMode \in 0 .. 2
      BY DEF Init
    <2> QED
      BY <2>1, <2>2 DEF Init, TypeOK
  <1>3. OneEnumeration /\ UsedIsOpen /\ AloneInv
    BY <1>1 DEF Init, OneEnumeration, UsedIsOpen, AloneInv
  <1>4. UsesAreCounted
    BY <1>1, FS_EmptySet, CountedAs DEF Init
  <1>5. ConnsHeld /\ CursorHeld /\ Accounted
    BY NssGoAssumption DEF Init, ConnsHeld, CursorHeld, Accounted
  <1> QED
    BY <1>2, <1>3, <1>4, <1>5 DEF IndInv

\* A status is one of the three.
LEMMA AnswerType ==
    ASSUME TypeOK, NEW t \in Threads, NEW err, Answer(t, err)
    PROVE  status' \in [Threads -> {None} \cup Statuses]
  <1>1. ConvertErr(err) \in Statuses
    BY DEF ConvertErr, Statuses
  <1> QED
    BY <1>1 DEF TypeOK, Answer

\* A call that only answers, or a change of the cache by another process.
LEMMA OnlyAnswers ==
    ASSUME IndInv, UNCHANGED <<poolVars, connVars, iterVars, lookupVars>>,
           cached' \subseteq Users, status' \in [Threads -> {None} \cup Statuses]
    PROVE  IndInv'
  <1> USE DEF poolVars, connVars, iterVars, lookupVars, IndInv
  <1>1. Busy' = Busy /\ Enumerations' = Enumerations
    BY DEF Busy, Enumerations
  <1>2. TypeOK'
    BY DEF TypeOK
  <1>3. OneEnumeration' /\ UsedIsOpen' /\ CursorHeld' /\ Accounted'
    BY <1>1 DEF OneEnumeration, UsedIsOpen, CursorHeld, Accounted
  <1>4. UsesAreCounted' /\ ConnsHeld' /\ AloneInv'
    BY <1>1 DEF UsesAreCounted, ConnsHeld, AloneInv
  <1> QED
    BY <1>2, <1>3, <1>4

\* New: one more use, which is alone when there was none.
LEMMA NewKeeps ==
    ASSUME IndInv, NEW t \in Threads, New
    PROVE  /\ usedBy' = usedBy + 1 /\ dbOpen' = TRUE /\ alone' \in BOOLEAN
           /\ shadowMode' \in 0 .. 2 /\ conn' \in [Conns -> {"closed", "bare", "attached"}]
           /\ \A c \in Conns : conn[c] # "closed" => conn'[c] # "closed"
           /\ alone' => Busy = {} /\ Enumerations = {}
           /\ alone' /\ shadowMode' > 0 =>
                \E c \in Conns : conn'[c] = "attached" /\ \A b \in Conns \ {c} : conn'[b] = "closed"
  <1> USE DEF IndInv
  <1>1. (Busy = {} /\ Enumerations = {}) \/ (dbOpen /\ ~(usedBy = 0))
    BY CountZero DEF UsedIsOpen
  <1>2. 1 \in Conns
    <2>1. Cardinality(Threads) \in Nat /\ Cardinality(Databases) \in Nat /\ Cardinality(Threads) # 0
      BY Countable, FS_CardinalityType, FS_EmptySet
    <2> QED
      BY <2>1, NssGoAssumption DEF Conns
  <1>3. shadowMode' \in 0 .. 2 /\ conn' \in [Conns -> {"closed", "bare", "attached"}]
    BY <1>2, NssGoAssumption DEF New, TypeOK
  <1>4. /\ usedBy' = usedBy + 1 /\ dbOpen' = TRUE /\ alone' \in BOOLEAN
        /\ alone' => (dbOpen => alone /\ usedBy = 0)
    BY DEF New
  <1>5. \A c \in Conns : conn[c] # "closed" => conn'[c] # "closed"
    BY DEF New, TypeOK
  <1>6. ASSUME alone', shadowMode' > 0
        PROVE  \E c \in Conns : conn'[c] = "attached" /\ \A b \in Conns \ {c} : conn'[b] = "closed"
    <2>1. CASE dbOpen
      BY <1>4, <1>6, <2>1 DEF New, AloneInv
    <2>2. CASE ~dbOpen
      <3>1. conn' = [conn EXCEPT ![1] = "attached"]
        BY <1>3, <1>6, <2>2 DEF New
      <3> QED
        BY <1>2, <2>2, <3>1 DEF ConnsHeld, TypeOK
    <2> QED
      BY <2>1, <2>2 DEF TypeOK
  <1> QED
    BY <1>1, <1>3, <1>4, <1>5, <1>6

\* A lookup begins.
LEMMA LookupOpensInv ==
    ASSUME IndInv, NEW t \in Threads, NEW d \in {"passwd", "group", "shadow"}, LookupOpens(t, d)
    PROVE  IndInv'
  <1> USE DEF IndInv
  <1>1. /\ New /\ pc[t] = "idle" /\ pc' = [pc EXCEPT ![t] = "query"]
        /\ request' = [request EXCEPT ![t] = d] /\ status' = [status EXCEPT ![t] = None]
        /\ cached' = cached /\ holder' = holder
        /\ UNCHANGED <<iteration, cursor, enumerating, due, got>>
    BY DEF LookupOpens, iterVars
  <1>2. /\ usedBy' = usedBy + 1 /\ dbOpen' = TRUE /\ alone' \in BOOLEAN
        /\ shadowMode' \in 0 .. 2 /\ conn' \in [Conns -> {"closed", "bare", "attached"}]
        /\ \A c \in Conns : conn[c] # "closed" => conn'[c] # "closed"
        /\ alone' => Busy = {} /\ Enumerations = {}
        /\ alone' /\ shadowMode' > 0 =>
             \E c \in Conns : conn'[c] = "attached" /\ \A b \in Conns \ {c} : conn'[b] = "closed"
    BY <1>1, NewKeeps
  <1>3. Busy' = Busy \cup {t} /\ Cardinality(Busy') = Cardinality(Busy) + 1
    BY <1>1, BusyUp
  <1>4. Enumerations' = Enumerations
    BY <1>1 DEF Enumerations
  <1>5. TypeOK'
    BY <1>1, <1>2 DEF TypeOK
  <1>6. UsesAreCounted'
    BY <1>2, <1>3, <1>4, Countable, CountedAs
  <1>7. OneEnumeration' /\ UsedIsOpen' /\ CursorHeld' /\ Accounted'
    BY <1>1, <1>2 DEF OneEnumeration, UsedIsOpen, CursorHeld, Accounted
  <1>8. ConnsHeld'
    BY <1>1, <1>2 DEF ConnsHeld, TypeOK
  <1>9. AloneInv'
    BY <1>2, <1>3, <1>4 DEF AloneInv
  <1> QED
    BY <1>5, <1>6, <1>7, <1>8, <1>9

\* Its query gets a connection that nobody has.
LEMMA LookupQueriesInv ==
    ASSUME IndInv, NEW t \in Threads, NEW u, LookupQueries(t, u)
    PROVE  IndInv'
  <1> USE DEF IndInv
  <1>1. /\ pc[t] = "query" /\ pc' = [pc EXCEPT ![t] = "return"]
        /\ UNCHANGED <<cached, usedBy, dbOpen, shadowMode, alone>>
        /\ UNCHANGED <<iteration, cursor, enumerating, due, got, request>>
    BY DEF LookupQueries, iterVars, poolVars
  <1>2. PICK c \in Conns : TakesFor(t, c)
    BY DEF LookupQueries
  <1>3. status' \in [Threads -> {None} \cup Statuses]
    BY AnswerType DEF LookupQueries
  <1>4. \A b \in Conns : holder[b] # t
    BY <1>1 DEF ConnsHeld
  <1>5. holder[c] = None
    BY <1>2, <1>4, FreeConn DEF TakesFor
  <1>6. /\ holder' = [holder EXCEPT ![c] = t]
        /\ conn' = [conn EXCEPT ![c] = IF @ = "closed" THEN "bare" ELSE @]
    BY <1>2 DEF TakesFor, Takes
  <1>7. Busy' = Busy /\ Enumerations' = Enumerations /\ t \in Busy
    BY <1>1 DEF Busy, Enumerations, TypeOK
  <1>8. TypeOK'
    BY <1>1, <1>3, <1>6 DEF TypeOK
  <1>9. OneEnumeration' /\ UsedIsOpen' /\ Accounted'
    BY <1>1, <1>7 DEF OneEnumeration, UsedIsOpen, Accounted
  <1>10. UsesAreCounted'
    BY <1>1, <1>7, CountedAs
  <1>11. CursorHeld'
    BY <1>1, <1>5, <1>6, NssGoAssumption DEF CursorHeld, TypeOK
  <1>12. ConnsHeld'
    BY <1>1, <1>4, <1>5, <1>6, <1>7, NssGoAssumption DEF ConnsHeld, TypeOK, UsedIsOpen
  <1>13. AloneInv'
    <2>1. ASSUME dbOpen, alone, shadowMode > 0 PROVE conn' = conn
      BY <1>1, <1>2, <2>1, AloneTakes DEF TakesFor
    <2> QED
      BY <1>1, <1>7, <2>1 DEF AloneInv
  <1> QED
    BY <1>8, <1>9, <1>10, <1>11, <1>12, <1>13

\* Or it needs none.
LEMMA LookupNeedsShadowInv ==
    ASSUME IndInv, NEW t \in Threads, LookupNeedsShadow(t)
    PROVE  IndInv'
  <1> USE DEF IndInv
  <1>1. /\ pc[t] = "query" /\ pc' = [pc EXCEPT ![t] = "return"]
        /\ UNCHANGED <<cached, usedBy, dbOpen, shadowMode, alone, conn, holder>>
        /\ UNCHANGED <<iteration, cursor, enumerating, due, got, request>>
    BY DEF LookupNeedsShadow, iterVars, poolVars, connVars
  <1>2. status' \in [Threads -> {None} \cup Statuses]
    BY AnswerType DEF LookupNeedsShadow
  <1>3. Busy' = Busy /\ Enumerations' = Enumerations
    BY <1>1 DEF Busy, Enumerations, TypeOK
  <1>4. TypeOK'
    BY <1>1, <1>2 DEF TypeOK
  <1>5. OneEnumeration' /\ UsedIsOpen' /\ Accounted' /\ CursorHeld'
    BY <1>1, <1>3 DEF OneEnumeration, UsedIsOpen, Accounted, CursorHeld
  <1>6. UsesAreCounted'
    BY <1>1, <1>3, CountedAs
  <1>7. ConnsHeld'
    BY <1>1 DEF ConnsHeld, TypeOK
  <1>8. AloneInv'
    BY <1>1, <1>3 DEF AloneInv
  <1> QED
    BY <1>4, <1>5, <1>6, <1>7, <1>8

\* A lookup returns.
LEMMA LookupReturnsInv ==
    ASSUME IndInv, NEW t \in Threads, LookupReturns(t)
    PROVE  IndInv'
  <1> USE DEF IndInv
  <1>1. /\ Releases(t) /\ usedBy' = usedBy - 1
        /\ pc[t] = "return" /\ pc' = [pc EXCEPT ![t] = "idle"]
        /\ request' = [request EXCEPT ![t] = None]
        /\ UNCHANGED <<cached, dbOpen, shadowMode, alone, status>>
        /\ UNCHANGED <<iteration, cursor, enumerating, due, got>>
    BY DEF LookupReturns, Close, iterVars
  <1>2. t # None /\ t \notin Databases
    BY NssGoAssumption
  <1>3. /\ holder' \in [Conns -> {None} \cup Threads \cup Databases]
        /\ conn' \in [Conns -> {"closed", "bare", "attached"}]
        /\ \A c \in Conns : holder'[c] = (IF holder[c] = t THEN None ELSE holder[c])
        /\ \A c \in Conns : holder[c] # t => conn'[c] = conn[c]
        /\ \A a \in Conns :
             conn[a] # "closed" /\ (\A b \in Conns \ {a} : conn[b] = "closed") => conn' = conn
    BY <1>1, <1>2, Released
  <1>4. Busy' = Busy \ {t} /\ Cardinality(Busy') = Cardinality(Busy) - 1 /\ Cardinality(Busy') \in Nat
    BY <1>1, BusyDown, Countable, FS_RemoveElement, FS_CardinalityType
  <1>5. Enumerations' = Enumerations
    BY <1>1 DEF Enumerations
  <1>6. UsesAreCounted' /\ usedBy' \in Nat
    BY <1>1, <1>4, <1>5, Countable, CountedAs
  <1>7. TypeOK'
    BY <1>1, <1>3, <1>6 DEF TypeOK
  <1>8. OneEnumeration' /\ UsedIsOpen' /\ Accounted'
    BY <1>1, <1>4, <1>5 DEF OneEnumeration, UsedIsOpen, Accounted
  <1>9. CursorHeld'
    BY <1>1, <1>2, <1>3 DEF CursorHeld
  <1>10. ConnsHeld'
    <2>1. dbOpen
      BY <1>1 DEF UsedIsOpen, Busy
    <2>2. \A c \in Conns : holder'[c] # None =>
            holder'[c] = holder[c] /\ holder[c] # t /\ conn'[c] = conn[c]
      BY <1>3
    <2>3. \A s \in Threads \ {t} : pc'[s] = pc[s]
      BY <1>1 DEF TypeOK
    <2>4. \A c \in Conns : holder'[c] \in Threads \cup Databases => holder'[c] # None
      BY NssGoAssumption
    <2> QED
      BY <1>1, <2>1, <2>2, <2>3, <2>4 DEF ConnsHeld
  <1>11. AloneInv'
    BY <1>1, <1>3, <1>4, <1>5 DEF AloneInv
  <1> QED
    BY <1>6, <1>7, <1>8, <1>9, <1>10, <1>11

\* An enumeration begins.
LEMMA StartInv ==
    ASSUME IndInv, NEW t \in Threads, NEW d \in Databases, StartEntryIteration(t, d)
    PROVE  IndInv'
  <1> USE DEF IndInv
  <1>1. /\ New /\ pc[t] = "idle" /\ ~iteration[d]
        /\ iteration' = [iteration EXCEPT ![d] = TRUE]
        /\ enumerating' = [enumerating EXCEPT ![t] = @ \cup {d}]
        /\ UNCHANGED <<cached, holder, cursor, due, got, pc, request>>
    BY DEF StartEntryIteration, lookupVars
  <1>2. status' \in [Threads -> {None} \cup Statuses]
    BY AnswerType DEF StartEntryIteration
  <1>3. /\ usedBy' = usedBy + 1 /\ dbOpen' = TRUE /\ alone' \in BOOLEAN
        /\ shadowMode' \in 0 .. 2 /\ conn' \in [Conns -> {"closed", "bare", "attached"}]
        /\ \A c \in Conns : conn[c] # "closed" => conn'[c] # "closed"
        /\ alone' => Busy = {} /\ Enumerations = {}
        /\ alone' /\ shadowMode' > 0 =>
             \E c \in Conns : conn'[c] = "attached" /\ \A b \in Conns \ {c} : conn'[b] = "closed"
    BY <1>1, NewKeeps
  <1>4. \A s \in Threads : d \notin enumerating[s]
    BY <1>1 DEF OneEnumeration
  <1>5. /\ Enumerations' = Enumerations \cup {<<t, d>>}
        /\ Cardinality(Enumerations') = Cardinality(Enumerations) + 1
    BY <1>1, <1>4, EnumUp
  <1>6. Busy' = Busy
    BY <1>1 DEF Busy
  <1>7. cursor[d] = None
    BY <1>4 DEF CursorHeld
  <1>8. TypeOK'
    <2>1. enumerating' \in [Threads -> SUBSET Databases] /\ iteration' \in [Databases -> BOOLEAN]
      BY <1>1 DEF TypeOK
    <2>2. usedBy' \in Nat
      BY <1>3 DEF TypeOK
    <2> QED
      BY <1>1, <1>2, <1>3, <2>1, <2>2 DEF TypeOK
  <1>9. OneEnumeration'
    BY <1>1, <1>4 DEF OneEnumeration, TypeOK
  <1>10. UsesAreCounted'
    BY <1>3, <1>5, <1>6, Countable, CountedAs
  <1>11. UsedIsOpen' /\ ConnsHeld'
    BY <1>1, <1>3 DEF UsedIsOpen, ConnsHeld
  <1>12. CursorHeld'
    BY <1>1, <1>7 DEF CursorHeld, TypeOK
  <1>13. Accounted'
    BY <1>1, <1>4, <1>7 DEF Accounted, TypeOK
  <1>14. AloneInv'
    BY <1>3, <1>5, <1>6 DEF AloneInv
  <1> QED
    BY <1>8, <1>9, <1>10, <1>11, <1>12, <1>13, <1>14

\* Its first entry: the cursor gets a connection of its own.
LEMMA NextEntryQueriesInv ==
    ASSUME IndInv, NEW t \in Threads, NEW d \in Databases, NextEntryQueries(t, d)
    PROVE  IndInv'
  <1> USE DEF IndInv
  <1>1. /\ d \in enumerating[t] /\ cursor[d] = None
        /\ UNCHANGED <<cached, usedBy, dbOpen, shadowMode, alone>>
        /\ UNCHANGED <<iteration, enumerating, pc, request>>
    BY DEF NextEntryQueries, poolVars, lookupVars
  <1>2. PICK c \in Conns : TakesFor(d, c)
    BY DEF NextEntryQueries
  <1>3. PICK u \in cached : cursor' = [cursor EXCEPT ![d] = cached \ {u}] /\ Given(t, d, u)
    BY DEF NextEntryQueries
  <1>4. status' \in [Threads -> {None} \cup Statuses]
    BY AnswerType DEF NextEntryQueries
  <1>5. \A b \in Conns : holder[b] # d
    BY <1>1 DEF ConnsHeld
  <1>6. holder[c] = None
    BY <1>2, <1>5, FreeConn DEF TakesFor
  <1>7. /\ holder' = [holder EXCEPT ![c] = d]
        /\ conn' = [conn EXCEPT ![c] = IF @ = "closed" THEN "bare" ELSE @]
    BY <1>2 DEF TakesFor, Takes
  <1>8. cached \subseteq Users /\ cached # None /\ cached \ {u} # None
    BY NssGoAssumption DEF TypeOK
  <1>9. due[t][d] = None /\ got[t][d] = {}
    BY <1>1 DEF Accounted
  <1>10. /\ due' = [due EXCEPT ![t][d] = cached]
         /\ got' = [got EXCEPT ![t][d] = {u}]
    BY <1>3, <1>9 DEF Given, TypeOK
  <1>11. Busy' = Busy /\ Enumerations' = Enumerations /\ <<t, d>> \in Enumerations
    BY <1>1 DEF Busy, Enumerations
  <1>12. TypeOK'
    BY <1>1, <1>3, <1>4, <1>7, <1>8, <1>10 DEF TypeOK
  <1>13. OneEnumeration' /\ UsedIsOpen'
    BY <1>1, <1>11 DEF OneEnumeration, UsedIsOpen
  <1>14. UsesAreCounted'
    BY <1>1, <1>11, CountedAs
  <1>15. CursorHeld'
    BY <1>1, <1>3, <1>6, <1>7, NssGoAssumption DEF CursorHeld, TypeOK
  <1>16. ConnsHeld'
    BY <1>1, <1>3, <1>5, <1>6, <1>7, <1>8, <1>11, NssGoAssumption DEF ConnsHeld, TypeOK, UsedIsOpen
  <1>17. Accounted'
    <2> SUFFICES ASSUME NEW s \in Threads, NEW e \in Databases
                 PROVE  /\ due'[s][e] = None => got'[s][e] = {}
                        /\ e \notin enumerating[s] => due'[s][e] = None
                        /\ e \in enumerating[s] /\ cursor'[e] = None => due'[s][e] = None
                        /\ e \in enumerating[s] /\ cursor'[e] # None =>
                              due'[s][e] # None /\ got'[s][e] \cup cursor'[e] = due'[s][e]
      BY <1>1 DEF Accounted
    <2>1. CASE s = t /\ e = d
      <3>1. due'[s][e] = cached /\ got'[s][e] = {u} /\ cursor'[e] = cached \ {u}
        BY <1>3, <1>10, <2>1 DEF TypeOK
      <3> QED
        BY <1>1, <1>8, <2>1, <3>1
    <2>2. CASE ~(s = t /\ e = d)
      <3>1. due'[s][e] = due[s][e] /\ got'[s][e] = got[s][e]
        BY <1>10, <2>2 DEF TypeOK
      <3>2. e = d => e \notin enumerating[s]
        BY <1>1, <2>2 DEF OneEnumeration
      <3>3. e # d => cursor'[e] = cursor[e]
        BY <1>3 DEF TypeOK
      <3> QED
        BY <3>1, <3>2, <3>3 DEF Accounted
    <2> QED
      BY <2>1, <2>2
  <1>18. AloneInv'
    <2>1. ASSUME dbOpen, alone, shadowMode > 0 PROVE conn' = conn
      BY <1>1, <1>2, <2>1, AloneTakes DEF TakesFor
    <2> QED
      BY <1>1, <1>11, <2>1 DEF AloneInv
  <1> QED
    BY <1>12, <1>13, <1>14, <1>15, <1>16, <1>17, <1>18

\* Its first query finds nobody or cannot run: the connection goes back at once.
LEMMA NextEntryNoneInv ==
    ASSUME IndInv, NEW t \in Threads, NEW d \in Databases,
           NextEntryFindsNone(t, d) \/ NextEntryCannotQuery(t, d)
    PROVE  IndInv'
  <1> USE DEF IndInv
  <1>1. /\ d \in enumerating[t] /\ cursor[d] = None
        /\ UNCHANGED <<cached, usedBy, dbOpen, shadowMode, alone, holder>>
        /\ UNCHANGED <<iteration, cursor, enumerating, due, got, pc, request>>
    BY DEF NextEntryFindsNone, NextEntryCannotQuery, poolVars, lookupVars, iterVars
  <1>2. PICK c \in Conns : Takes(c)
    BY DEF NextEntryFindsNone, NextEntryCannotQuery
  <1>3. conn' = [conn EXCEPT ![c] = IF @ = "closed" THEN "bare" ELSE @]
    BY <1>2 DEF Takes
  <1>4. status' \in [Threads -> {None} \cup Statuses]
    BY AnswerType DEF NextEntryFindsNone, NextEntryCannotQuery
  <1>5. Busy' = Busy /\ Enumerations' = Enumerations /\ <<t, d>> \in Enumerations
    BY <1>1 DEF Busy, Enumerations
  <1>6. TypeOK'
    BY <1>1, <1>3, <1>4 DEF TypeOK
  <1>7. OneEnumeration' /\ UsedIsOpen' /\ CursorHeld' /\ Accounted'
    BY <1>1, <1>5 DEF OneEnumeration, UsedIsOpen, CursorHeld, Accounted
  <1>8. UsesAreCounted'
    BY <1>1, <1>5, CountedAs
  <1>9. ConnsHeld'
    BY <1>1, <1>3, <1>5 DEF ConnsHeld, TypeOK, UsedIsOpen
  <1>10. AloneInv'
    <2>1. ASSUME dbOpen, alone, shadowMode > 0 PROVE conn' = conn
      BY <1>1, <1>2, <2>1, AloneTakes
    <2> QED
      BY <1>1, <1>5, <2>1 DEF AloneInv
  <1> QED
    BY <1>6, <1>7, <1>8, <1>9, <1>10

\* A further entry moves from what is to come to what has been given.
LEMMA NextEntryGivesInv ==
    ASSUME IndInv, NEW t \in Threads, NEW d \in Databases, NextEntryGives(t, d)
    PROVE  IndInv'
  <1> USE DEF IndInv
  <1>1. /\ d \in enumerating[t] /\ cursor[d] # None
        /\ UNCHANGED <<cached, usedBy, dbOpen, shadowMode, alone, conn, holder>>
        /\ UNCHANGED <<iteration, enumerating, pc, request>>
    BY DEF NextEntryGives, poolVars, lookupVars, connVars
  <1>2. PICK u \in cursor[d] : cursor' = [cursor EXCEPT ![d] = @ \ {u}] /\ Given(t, d, u)
    BY DEF NextEntryGives
  <1>3. status' \in [Threads -> {None} \cup Statuses]
    BY AnswerType DEF NextEntryGives
  <1>4. cursor[d] \subseteq Users /\ cursor[d] \ {u} # None
    BY <1>1, NssGoAssumption DEF TypeOK
  <1>5. due[t][d] # None /\ got[t][d] \cup cursor[d] = due[t][d]
    BY <1>1 DEF Accounted
  <1>6. due' = due /\ got' = [got EXCEPT ![t][d] = @ \cup {u}]
    BY <1>2, <1>5 DEF Given, TypeOK
  <1>7. Busy' = Busy /\ Enumerations' = Enumerations
    BY <1>1 DEF Busy, Enumerations
  <1>8. TypeOK'
    <2>1. cursor' \in [Databases -> {None} \cup SUBSET Users]
      BY <1>2, <1>4 DEF TypeOK
    <2>2. got' \in [Threads -> [Databases -> SUBSET Users]]
      BY <1>4, <1>6 DEF TypeOK
    <2> QED
      BY <1>1, <1>3, <1>6, <2>1, <2>2 DEF TypeOK
  <1>9. OneEnumeration' /\ UsedIsOpen'
    BY <1>1, <1>7 DEF OneEnumeration, UsedIsOpen
  <1>10. UsesAreCounted'
    BY <1>1, <1>7, CountedAs
  <1>11. CursorHeld'
    BY <1>1, <1>2 DEF CursorHeld, TypeOK
  <1>12. ConnsHeld'
    BY <1>1, <1>2, <1>4 DEF ConnsHeld, TypeOK
  <1>13. Accounted'
    <2> SUFFICES ASSUME NEW s \in Threads, NEW e \in Databases
                 PROVE  /\ due[s][e] = None => got'[s][e] = {}
                        /\ e \notin enumerating[s] => due[s][e] = None
                        /\ e \in enumerating[s] /\ cursor'[e] = None => due[s][e] = None
                        /\ e \in enumerating[s] /\ cursor'[e] # None =>
                              due[s][e] # None /\ got'[s][e] \cup cursor'[e] = due[s][e]
      BY <1>1, <1>6 DEF Accounted
    <2>1. CASE s = t /\ e = d
      <3>1. got'[s][e] = got[t][d] \cup {u} /\ cursor'[e] = cursor[d] \ {u}
        BY <1>2, <1>6, <2>1 DEF TypeOK
      <3> QED
        BY <1>1, <1>4, <1>5, <2>1, <3>1
    <2>2. CASE ~(s = t /\ e = d)
      <3>1. got'[s][e] = got[s][e]
        BY <1>6, <2>2 DEF TypeOK
      <3>2. e = d => e \notin enumerating[s]
        BY <1>1, <2>2 DEF OneEnumeration
      <3>3. e # d => cursor'[e] = cursor[e]
        BY <1>2 DEF TypeOK
      <3> QED
        BY <3>1, <3>2, <3>3 DEF Accounted
    <2> QED
      BY <2>1, <2>2
  <1>14. AloneInv'
    BY <1>1, <1>7 DEF AloneInv
  <1> QED
    BY <1>8, <1>9, <1>10, <1>11, <1>12, <1>13, <1>14

\* A cursor that is closed leaves its connection, and its connection only.
LEMMA CursorCloses ==
    ASSUME IndInv, NEW d \in Databases, CloseIterator(d), UNCHANGED <<pc, dbOpen>>, dbOpen
    PROVE  /\ cursor' = [cursor EXCEPT ![d] = None]
           /\ holder' \in [Conns -> {None} \cup Threads \cup Databases]
           /\ conn' \in [Conns -> {"closed", "bare", "attached"}]
           /\ ConnsHeld'
           /\ \A e \in Databases \ {d} : (\E c \in Conns : holder[c] = e) => \E c \in Conns : holder'[c] = e
           /\ \A a \in Conns :
                conn[a] # "closed" /\ (\A b \in Conns \ {a} : conn[b] = "closed") => conn' = conn
  <1> USE DEF IndInv
  <1>0. d # None
    BY NssGoAssumption
  <1>1. cursor' = [cursor EXCEPT ![d] = None]
    BY DEF CloseIterator
  <1>2. /\ holder' \in [Conns -> {None} \cup Threads \cup Databases]
        /\ conn' \in [Conns -> {"closed", "bare", "attached"}]
        /\ \A c \in Conns : holder'[c] = (IF holder[c] = d THEN None ELSE holder[c])
        /\ \A c \in Conns : holder[c] # d => conn'[c] = conn[c]
        /\ \A a \in Conns :
             conn[a] # "closed" /\ (\A b \in Conns \ {a} : conn[b] = "closed") => conn' = conn
    <2>1. CASE cursor[d] # None
      BY <1>0, <2>1, Released DEF CloseIterator
    <2>2. CASE cursor[d] = None
      <3>1. conn' = conn /\ holder' = holder
        BY <2>2 DEF CloseIterator, connVars
      <3>2. \A c \in Conns : holder[c] # d
        BY <2>2 DEF ConnsHeld
      <3> QED
        BY <3>1, <3>2 DEF TypeOK
    <2> QED
      BY <2>1, <2>2
  <1>3. ConnsHeld'
    <2>1. \A c \in Conns : holder'[c] # None =>
            holder'[c] = holder[c] /\ holder[c] # d /\ conn'[c] = conn[c]
      BY <1>2
    <2>2. \A e \in Databases \ {d} : cursor'[e] = cursor[e]
      BY <1>1 DEF TypeOK
    <2>3. \A c \in Conns : holder'[c] \in Threads \cup Databases => holder'[c] # None
      BY NssGoAssumption
    <2> QED
      BY <2>1, <2>2, <2>3 DEF ConnsHeld
  <1>4. \A e \in Databases \ {d} : (\E c \in Conns : holder[c] = e) => \E c \in Conns : holder'[c] = e
    BY <1>2
  <1> QED
    BY <1>1, <1>2, <1>3, <1>4

\* What is forgotten of one enumeration concerns no other.
LEMMA Forgotten ==
    ASSUME TypeOK, NEW t \in Threads, NEW d \in Databases, Forget(t, d)
    PROVE  /\ due' \in [Threads -> [Databases -> {None} \cup SUBSET Users]]
           /\ got' \in [Threads -> [Databases -> SUBSET Users]]
           /\ due'[t][d] = None /\ got'[t][d] = {}
           /\ \A s \in Threads, e \in Databases :
                ~(s = t /\ e = d) => due'[s][e] = due[s][e] /\ got'[s][e] = got[s][e]
  <1>1. /\ due' \in [Threads -> [Databases -> {None} \cup SUBSET Users]]
        /\ due'[t][d] = None
        /\ \A s \in Threads, e \in Databases : ~(s = t /\ e = d) => due'[s][e] = due[s][e]
    BY DEF Forget, TypeOK
  <1>2. /\ got' \in [Threads -> [Databases -> SUBSET Users]]
        /\ got'[t][d] = {}
        /\ \A s \in Threads, e \in Databases : ~(s = t /\ e = d) => got'[s][e] = got[s][e]
    BY DEF Forget, TypeOK
  <1> QED
    BY <1>1, <1>2

\* The last entry has been given.
LEMMA NextEntryEndsInv ==
    ASSUME IndInv, NEW t \in Threads, NEW d \in Databases, NextEntryEnds(t, d)
    PROVE  IndInv'
  <1> USE DEF IndInv
  <1>1. /\ d \in enumerating[t] /\ CloseIterator(d) /\ Forget(t, d)
        /\ UNCHANGED <<cached, usedBy, dbOpen, shadowMode, alone>>
        /\ UNCHANGED <<iteration, enumerating, pc, request>>
    BY DEF NextEntryEnds, CloseIterator, poolVars, lookupVars
  <1>2. status' \in [Threads -> {None} \cup Statuses]
    BY AnswerType DEF NextEntryEnds
  <1>3. Busy' = Busy /\ Enumerations' = Enumerations /\ <<t, d>> \in Enumerations
    BY <1>1 DEF Busy, Enumerations
  <1>4. /\ cursor' = [cursor EXCEPT ![d] = None]
        /\ holder' \in [Conns -> {None} \cup Threads \cup Databases]
        /\ conn' \in [Conns -> {"closed", "bare", "attached"}]
        /\ ConnsHeld'
        /\ \A e \in Databases \ {d} : (\E c \in Conns : holder[c] = e) => \E c \in Conns : holder'[c] = e
        /\ \A a \in Conns :
             conn[a] # "closed" /\ (\A b \in Conns \ {a} : conn[b] = "closed") => conn' = conn
    BY <1>1, <1>3, CursorCloses DEF UsedIsOpen
  <1>5. /\ due' \in [Threads -> [Databases -> {None} \cup SUBSET Users]]
        /\ got' \in [Threads -> [Databases -> SUBSET Users]]
        /\ due'[t][d] = None /\ got'[t][d] = {}
        /\ \A s \in Threads, e \in Databases :
             ~(s = t /\ e = d) => due'[s][e] = due[s][e] /\ got'[s][e] = got[s][e]
    BY <1>1, Forgotten
  <1>6. cursor'[d] = None /\ \A e \in Databases \ {d} : cursor'[e] = cursor[e]
    BY <1>4 DEF TypeOK
  <1>7. TypeOK'
    BY <1>1, <1>2, <1>4, <1>5 DEF TypeOK
  <1>8. OneEnumeration' /\ UsedIsOpen'
    BY <1>1, <1>3 DEF OneEnumeration, UsedIsOpen
  <1>9. UsesAreCounted'
    BY <1>1, <1>3, CountedAs
  <1>10. CursorHeld'
    BY <1>1, <1>4, <1>6 DEF CursorHeld
  <1>11. Accounted'
    <2> SUFFICES ASSUME NEW s \in Threads, NEW e \in Databases
                 PROVE  /\ due'[s][e] = None => got'[s][e] = {}
                        /\ e \notin enumerating[s] => due'[s][e] = None
                        /\ e \in enumerating[s] /\ cursor'[e] = None => due'[s][e] = None
                        /\ e \in enumerating[s] /\ cursor'[e] # None =>
                              due'[s][e] # None /\ got'[s][e] \cup cursor'[e] = due'[s][e]
      BY <1>1 DEF Accounted
    <2>1. CASE s = t /\ e = d
      BY <1>5, <1>6, <2>1
    <2>2. CASE s # t /\ e = d
      <3>1. e \notin enumerating[s]
        BY <1>1, <2>2 DEF OneEnumeration
      <3> QED
        BY <1>5, <2>2, <3>1 DEF Accounted
    <2>3. CASE e # d
      BY <1>5, <1>6, <2>3 DEF Accounted
    <2> QED
      BY <2>1, <2>2, <2>3
  <1>12. AloneInv'
    BY <1>1, <1>3, <1>4 DEF AloneInv
  <1> QED
    BY <1>4, <1>7, <1>8, <1>9, <1>10, <1>11, <1>12

\* The enumeration is ended, with entries to come or without.
LEMMA EndEntryIterationInv ==
    ASSUME IndInv, NEW t \in Threads, NEW d \in Databases, EndEntryIteration(t, d)
    PROVE  IndInv'
  <1> USE DEF IndInv
  <1>1. /\ d \in enumerating[t] /\ CloseIterator(d) /\ Forget(t, d) /\ usedBy' = usedBy - 1
        /\ iteration' = [iteration EXCEPT ![d] = FALSE]
        /\ enumerating' = [enumerating EXCEPT ![t] = @ \ {d}]
        /\ UNCHANGED <<cached, dbOpen, shadowMode, alone, pc, request>>
    BY DEF EndEntryIteration, Close, lookupVars
  <1>2. status' \in [Threads -> {None} \cup Statuses]
    BY AnswerType DEF EndEntryIteration
  <1>3. /\ Enumerations' = Enumerations \ {<<t, d>>} /\ <<t, d>> \in Enumerations
        /\ Cardinality(Enumerations') = Cardinality(Enumerations) - 1
        /\ Cardinality(Enumerations') \in Nat
    <2>1. <<t, d>> \in Enumerations
      BY <1>1 DEF Enumerations
    <2> QED
      BY <1>1, <2>1, EnumDown, Countable, FS_RemoveElement, FS_CardinalityType
  <1>4. Busy' = Busy
    BY <1>1 DEF Busy
  <1>5. /\ cursor' = [cursor EXCEPT ![d] = None]
        /\ holder' \in [Conns -> {None} \cup Threads \cup Databases]
        /\ conn' \in [Conns -> {"closed", "bare", "attached"}]
        /\ ConnsHeld'
        /\ \A e \in Databases \ {d} : (\E c \in Conns : holder[c] = e) => \E c \in Conns : holder'[c] = e
        /\ \A a \in Conns :
             conn[a] # "closed" /\ (\A b \in Conns \ {a} : conn[b] = "closed") => conn' = conn
    BY <1>1, <1>3, CursorCloses DEF UsedIsOpen
  <1>6. /\ due' \in [Threads -> [Databases -> {None} \cup SUBSET Users]]
        /\ got' \in [Threads -> [Databases -> SUBSET Users]]
        /\ due'[t][d] = None /\ got'[t][d] = {}
        /\ \A s \in Threads, e \in Databases :
             ~(s = t /\ e = d) => due'[s][e] = due[s][e] /\ got'[s][e] = got[s][e]
    BY <1>1, Forgotten
  <1>7. cursor'[d] = None /\ \A e \in Databases \ {d} : cursor'[e] = cursor[e]
    BY <1>5 DEF TypeOK
  <1>8. \A s \in Threads, e \in Databases : e \in enumerating'[s] <=> (e \in enumerating[s] /\ e # d)
    BY <1>1 DEF OneEnumeration, TypeOK
  <1>9. UsesAreCounted' /\ usedBy' \in Nat
    BY <1>1, <1>3, <1>4, Countable, CountedAs
  <1>10. TypeOK'
    <2>1. enumerating' \in [Threads -> SUBSET Databases] /\ iteration' \in [Databases -> BOOLEAN]
      BY <1>1 DEF TypeOK
    <2> QED
      BY <1>1, <1>2, <1>5, <1>6, <1>9, <2>1 DEF TypeOK
  <1>11. OneEnumeration'
    BY <1>1, <1>8 DEF OneEnumeration, TypeOK
  <1>12. UsedIsOpen' /\ CursorHeld'
    BY <1>1, <1>3, <1>4, <1>5, <1>7, <1>8 DEF UsedIsOpen, CursorHeld
  <1>13. Accounted'
    <2> SUFFICES ASSUME NEW s \in Threads, NEW e \in Databases
                 PROVE  /\ due'[s][e] = None => got'[s][e] = {}
                        /\ e \notin enumerating'[s] => due'[s][e] = None
                        /\ e \in enumerating'[s] /\ cursor'[e] = None => due'[s][e] = None
                        /\ e \in enumerating'[s] /\ cursor'[e] # None =>
                              due'[s][e] # None /\ got'[s][e] \cup cursor'[e] = due'[s][e]
      BY DEF Accounted
    <2>1. CASE s = t /\ e = d
      BY <1>6, <1>7, <2>1
    <2>2. CASE s # t /\ e = d
      <3>1. e \notin enumerating[s]
        BY <1>1, <2>2 DEF OneEnumeration
      <3> QED
        BY <1>6, <1>8, <2>2, <3>1 DEF Accounted
    <2>3. CASE e # d
      BY <1>6, <1>7, <1>8, <2>3 DEF Accounted
    <2> QED
      BY <2>1, <2>2, <2>3
  <1>14. AloneInv'
    BY <1>1, <1>3, <1>4, <1>5 DEF AloneInv
  <1> QED
    BY <1>5, <1>9, <1>10, <1>11, <1>12, <1>13, <1>14

\* The timer closes a cache that nobody uses.
LEMMA TeardownInv == ASSUME IndInv, Teardown PROVE IndInv'
  <1> USE DEF IndInv
  <1>1. /\ usedBy = 0 /\ dbOpen' = FALSE
        /\ cursor' = [d \in Databases |-> None]
        /\ conn' = [c \in Conns |-> "closed"]
        /\ holder' = [c \in Conns |-> None]
        /\ UNCHANGED <<cached, usedBy, shadowMode, alone, iteration, enumerating, due, got, pc, request, status>>
    BY DEF Teardown, lookupVars
  <1>2. Busy = {} /\ Enumerations = {}
    BY <1>1, CountZero
  <1>3. Busy' = {} /\ Enumerations' = {}
    BY <1>1, <1>2 DEF Busy, Enumerations
  <1>4. TypeOK'
    BY <1>1 DEF TypeOK
  <1>5. UsesAreCounted'
    BY <1>1, <1>2, <1>3, CountedAs
  <1>6. OneEnumeration' /\ UsedIsOpen' /\ CursorHeld'
    BY <1>1, <1>3 DEF OneEnumeration, UsedIsOpen, CursorHeld
  <1>7. ConnsHeld' /\ AloneInv'
    BY <1>1, NssGoAssumption DEF ConnsHeld, AloneInv
  <1>8. Accounted'
    <2>1. \A t \in Threads, d \in Databases : <<t, d>> \notin Enumerations
      BY <1>2
    <2>2. \A t \in Threads, d \in Databases : d \notin enumerating[t]
      BY <2>1 DEF Enumerations
    <2> QED
      BY <1>1, <2>2 DEF Accounted
  <1> QED
    BY <1>4, <1>5, <1>6, <1>7, <1>8

\* Every step keeps the inductive invariant: one case per action of the bindings.
LEMMA NextInv == IndInv /\ [Next]_vars => IndInv'
  <1> SUFFICES ASSUME IndInv, [Next]_vars PROVE IndInv'
    OBVIOUS
  <1>0. TypeOK /\ status \in [Threads -> {None} \cup Statuses] /\ cached \subseteq Users
    BY DEF IndInv, TypeOK
  <1>1. ASSUME NEW t \in Threads,
               UNCHANGED <<cached, poolVars, connVars, iterVars, lookupVars>>,
               status' \in [Threads -> {None} \cup Statuses]
        PROVE  IndInv'
    BY <1>0, <1>1, OnlyAnswers
  <1>2. ASSUME NEW t \in Threads, LookupOfShadowGroup(t) PROVE IndInv'
    BY <1>0, <1>1, <1>2 DEF LookupOfShadowGroup, Statuses
  <1>3. ASSUME NEW t \in Threads, LookupCannotOpen(t) PROVE IndInv'
    BY <1>0, <1>1, <1>3, AnswerType DEF LookupCannotOpen
  <1>4. ASSUME NEW t \in Threads, NEW d \in Databases,
               StartRefused(t, d) \/ NextWithoutStart(t, d) \/ EndWithoutStart(t, d)
        PROVE  IndInv'
    BY <1>0, <1>1, <1>4, AnswerType DEF StartRefused, NextWithoutStart, EndWithoutStart
  <1>5. ASSUME NEW u \in Users, Login(u) \/ Purge(u) PROVE IndInv'
    BY <1>0, <1>5, OnlyAnswers DEF Login, Purge
  <1>6. ASSUME NEW t \in Threads, Call(t) PROVE IndInv'
    BY <1>2, <1>3, <1>4, <1>6, LookupOpensInv, LookupQueriesInv, LookupNeedsShadowInv, LookupReturnsInv,
       StartInv, NextEntryQueriesInv, NextEntryNoneInv, NextEntryGivesInv, NextEntryEndsInv,
       EndEntryIterationInv DEF Call
  <1>7. CASE UNCHANGED vars
    BY <1>0, <1>7, OnlyAnswers DEF vars
  <1> QED
    BY <1>5, <1>6, <1>7, TeardownInv DEF Next

\* IndInv is an invariant of the bindings.
LEMMA SystemInv == Spec => []IndInv
  BY InitInv, NextInv, PTL DEF Spec

-----------------------------------------------------------------------------
\* Types: what the pool, the connections, the cursors and the threads may hold.
THEOREM Typing == Spec => []TypeOK
  <1>1. IndInv => TypeOK
    BY DEF IndInv
  <1> QED
    BY <1>1, SystemInv, PTL

\* Every path of the bindings closes the cache as often as it has asked New for it.
THEOREM CountIsOfUses == Spec => []UsesAreCounted
  <1>1. IndInv => UsesAreCounted
    BY DEF IndInv
  <1> QED
    BY <1>1, SystemInv, PTL

\* No cursor outlives its enumeration, and none shares its connection with a lookup
\* or with another cursor, for any number of threads.
THEOREM CursorsAreUsed == Spec => []CursorIsInUse
  <1>1. IndInv => CursorIsInUse
    <2> SUFFICES ASSUME IndInv, NEW d \in Databases, cursor[d] # None
                 PROVE  /\ \E t \in Threads : d \in enumerating[t]
                        /\ Cardinality({c \in Conns : holder[c] = d}) = 1
      BY DEF CursorIsInUse
    <2>1. \E t \in Threads : d \in enumerating[t]
      BY DEF IndInv, CursorHeld
    <2>2. PICK a \in Conns : holder[a] = d
      BY DEF IndInv, CursorHeld
    <2>3. {c \in Conns : holder[c] = d} = {a}
      BY <2>2, NssGoAssumption DEF IndInv, ConnsHeld
    <2> QED
      BY <2>1, <2>3, FS_Singleton
  <1> QED
    BY <1>1, SystemInv, PTL

\* While the uses of the cache have not overlapped, no connection lacks shadow.db.
THEOREM AloneIsServed == Spec => []AloneHasShadow
  <1>1. IndInv => AloneHasShadow
    <2> SUFFICES ASSUME IndInv, dbOpen, alone, shadowMode > 0, NEW c \in Conns
                 PROVE  conn[c] # "bare"
      BY DEF AloneHasShadow
    <2>1. PICK a \in Conns : conn[a] = "attached" /\ \A b \in Conns \ {a} : conn[b] = "closed"
      BY DEF IndInv, AloneInv
    <2> QED
      BY <2>1
  <1> QED
    BY <1>1, SystemInv, PTL

\* An enumeration that comes to its end has given every user it owed.
THEOREM EnumerationsAreWhole == Spec => EnumerationIsWhole
  <1>1. ASSUME IndInv, NEW t \in Threads, NEW d \in Databases, due[t][d] # None, cursor[d] = {}
        PROVE  got[t][d] = due[t][d]
    <2>1. cursor[d] # None
      BY <1>1, NssGoAssumption
    <2>2. got[t][d] \cup cursor[d] = due[t][d]
      BY <1>1, <2>1 DEF IndInv, Accounted
    <2> QED
      BY <1>1, <2>2
  <1>2. IndInv /\ [Next]_vars =>
            [\A t \in Threads, d \in Databases :
                due[t][d] # None /\ due'[t][d] = None /\ d \in enumerating'[t] /\ cursor[d] = {}
                    => got[t][d] = due[t][d]]_vars
    BY <1>1
  <1> QED
    BY <1>2, SystemInv, PTL DEF Spec, EnumerationIsWhole
=============================================================================
