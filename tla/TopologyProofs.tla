--------------------------- MODULE TopologyProofs ---------------------------
(* Proofs about Topology, OpenAPIImport and TopologyCache, for tables, writers, *)
(* documents, replicas and goroutines of any number.                          *)
EXTENDS OpenAPIImport, TopologyCache, FiniteSetTheorems, SequenceTheorems, TLAPS

-----------------------------------------------------------------------------
\* Facts about the helpers.

\* A hash is a member of Hashes, so it is never the "no baseline" value.
LEMMA HashType ==
    ASSUME NEW name \in ToolNames, NEW def \in Defs
    PROVE  Hash(name, def) \in Hashes /\ Hash(name, def) # NoHash
  <1>1. Canon[def] \in Defs
    BY TopologyAssumption
  <1> QED
    BY <1>1, TopologyAssumption DEF Hash, Hashes

\* The SELECT of SaveEndpoint returns a hash and a version, or no row.
LEMMA StoredType ==
    ASSUME NEW row \in EpRow \cup {NoRow}
    PROVE  /\ Stored(row) \in Found \cup {NoRow}
           /\ Stored(row) = NoRow <=> row = NoRow
  BY TopologyAssumption DEF Stored, EpRow, Found

\* The version SaveEndpoint computes from what it found is a version.
LEMMA NextVersionType ==
    ASSUME NEW found \in Found \cup {NoRow}, NEW hash
    PROVE  NextVersion(found, hash) \in Nat \ {0}
  BY DEF NextVersion, Found

-----------------------------------------------------------------------------
\* Every step, and so every reachable state, keeps the tables and the saves
\* under way well-formed.
LEMMA TypeStep == TypeOK /\ [Next]_vars => TypeOK'
  <1> SUFFICES ASSUME TypeOK, [Next]_vars PROVE TypeOK'
    OBVIOUS
  <1>1. ASSUME NEW c \in Conns, NEW row \in ConnRow, SaveConnection(c, row)
        PROVE  TypeOK'
    BY <1>1 DEF TypeOK, SaveConnection
  <1>2. ASSUME NEW c \in Conns, DeleteConnection(c)
        PROVE  TypeOK'
    BY <1>2 DEF TypeOK, DeleteConnection
  <1>3. ASSUME NEW w \in Writers, NEW e \in Eps, NEW c \in Conns,
               NEW name \in ToolNames, NEW def \in Defs,
               SaveEndpointLookup(w, e, c, name, def)
        PROVE  TypeOK'
    <2> DEFINE hash    == Hash(name, def)
               found   == Stored(endpoints[e])
               version == NextVersion(found, hash)
               row     == [conn |-> c, name |-> name, def |-> def,
                           hash |-> hash, version |-> version]
    <2>1. hash \in Hashes
      BY HashType
    <2>f. found \in Found \cup {NoRow}
      BY StoredType DEF TypeOK
    <2>2. version \in Nat \ {0}
      BY <2>f, NextVersionType
    <2>3. row \in EpRow
      BY <2>1, <2>2 DEF EpRow
    <2>4. [ep |-> e, found |-> found, row |-> row] \in Pending
      BY <2>3, <2>f DEF Pending
    <2>5. /\ saving' = [saving EXCEPT ![w] = [ep |-> e, found |-> found, row |-> row]]
          /\ UNCHANGED <<connections, endpoints>>
      BY <1>3 DEF SaveEndpointLookup
    <2> HIDE DEF row
    <2> QED
      BY <2>4, <2>5 DEF TypeOK
  <1>4. ASSUME NEW w \in Writers, SaveEndpointUpsert(w)
        PROVE  TypeOK'
    <2>1. saving[w] \in Pending
      BY <1>4 DEF TypeOK, SaveEndpointUpsert
    <2> QED
      BY <1>4, <2>1 DEF TypeOK, SaveEndpointUpsert, Upserted, Pending
  <1>5. ASSUME NEW w \in Writers, SaveEndpointFails(w)
        PROVE  TypeOK'
    BY <1>5 DEF TypeOK, SaveEndpointFails
  <1>6. ASSUME NEW e \in Eps, DeleteEndpoint(e)
        PROVE  TypeOK'
    BY <1>6 DEF TypeOK, DeleteEndpoint
  <1>7. CASE UNCHANGED vars
    BY <1>7 DEF TypeOK, vars
  <1> QED
    BY <1>1, <1>2, <1>3, <1>4, <1>5, <1>6, <1>7 DEF Next

\* The tables hold rows of the schema and a save under way holds such a row:
\* type correctness of SaveConnection, SaveEndpoint and the deletes.
THEOREM TypeCorrect == Spec => []TypeOK
  <1>1. Init => TypeOK
    BY LegacyAssumption DEF Init, TypeOK
  <1> QED
    BY <1>1, TypeStep, PTL DEF Spec

-----------------------------------------------------------------------------
\* HashPinsDefinition is not inductive alone: the row an upsert writes was
\* computed one statement earlier, so the saves under way must agree too.
PendingHashOK ==
    \A w \in Writers : saving[w] # Idle
        => saving[w].row.hash = Hash(saving[w].row.name, saving[w].row.def)

HashInv == HashPinsDefinition /\ PendingHashOK

LEMMA HashStep == TypeOK /\ HashInv /\ [Next]_vars => HashInv'
  <1> SUFFICES ASSUME TypeOK, HashInv, [Next]_vars PROVE HashInv'
    OBVIOUS
  <1> USE DEF HashInv
  <1>1. ASSUME NEW c \in Conns, NEW row \in ConnRow, SaveConnection(c, row)
        PROVE  HashInv'
    BY <1>1 DEF SaveConnection, HashPinsDefinition, PendingHashOK
  <1>2. ASSUME NEW c \in Conns, DeleteConnection(c)
        PROVE  HashInv'
    BY <1>2 DEF DeleteConnection, HashPinsDefinition, PendingHashOK, TypeOK
  <1>3. ASSUME NEW w \in Writers, NEW e \in Eps, NEW c \in Conns,
               NEW name \in ToolNames, NEW def \in Defs,
               SaveEndpointLookup(w, e, c, name, def)
        PROVE  HashInv'
    <2>1. HashPinsDefinition'
      BY <1>3 DEF SaveEndpointLookup, HashPinsDefinition
    <2>2. PendingHashOK'
      BY <1>3 DEF SaveEndpointLookup, PendingHashOK, TypeOK
    <2> QED
      BY <2>1, <2>2
  <1>4. ASSUME NEW w \in Writers, SaveEndpointUpsert(w)
        PROVE  HashInv'
    <2>1. PendingHashOK'
      BY <1>4 DEF SaveEndpointUpsert, PendingHashOK, TypeOK
    <2>2. saving[w] \in Pending
      BY <1>4 DEF TypeOK, SaveEndpointUpsert
    <2>3. HashPinsDefinition'
      BY <1>4, <2>2 DEF SaveEndpointUpsert, Upserted, HashPinsDefinition,
                        PendingHashOK, TypeOK, Pending
    <2> QED
      BY <2>1, <2>3
  <1>5. ASSUME NEW w \in Writers, SaveEndpointFails(w)
        PROVE  HashInv'
    BY <1>5 DEF SaveEndpointFails, HashPinsDefinition, PendingHashOK, TypeOK
  <1>6. ASSUME NEW e \in Eps, DeleteEndpoint(e)
        PROVE  HashInv'
    BY <1>6 DEF DeleteEndpoint, HashPinsDefinition, PendingHashOK, TypeOK
  <1>7. CASE UNCHANGED vars
    BY <1>7 DEF HashPinsDefinition, PendingHashOK, vars
  <1> QED
    BY <1>1, <1>2, <1>3, <1>4, <1>5, <1>6, <1>7 DEF Next

\* However many SaveEndpoint calls race, a stored definition_hash is the hash
\* of the definition stored with it.
THEOREM HashPinned == Spec => []HashPinsDefinition
  <1>1. Init => HashInv
    BY LegacyAssumption DEF Init, HashInv, HashPinsDefinition, PendingHashOK
  <1>2. HashInv => HashPinsDefinition
    BY DEF HashInv
  <1> QED
    BY <1>1, <1>2, HashStep, TypeCorrect, PTL DEF Spec

-----------------------------------------------------------------------------
\* With foreign keys enforced no endpoint refers to a missing connection, the
\* upsert of a save that raced DeleteConnection included.
THEOREM NoOrphanEndpoints ==
    ASSUME ForeignKeys PROVE Spec => []NoOrphans
  <1>1. Init => NoOrphans
    BY LegacyAssumption DEF Init, NoOrphans
  <1>2. TypeOK /\ NoOrphans /\ [Next]_vars => NoOrphans'
    <2> SUFFICES ASSUME TypeOK, NoOrphans, [Next]_vars PROVE NoOrphans'
      OBVIOUS
    <2>1. ASSUME NEW c \in Conns, NEW row \in ConnRow, SaveConnection(c, row)
          PROVE  NoOrphans'
      <3>1. row # NoRow
        BY TopologyAssumption
      <3> QED
        BY <2>1, <3>1 DEF SaveConnection, NoOrphans, TypeOK
    <2>2. ASSUME NEW c \in Conns, DeleteConnection(c)
          PROVE  NoOrphans'
      BY <2>2 DEF DeleteConnection, NoOrphans, TypeOK
    <2>3. ASSUME NEW w \in Writers, NEW e \in Eps, NEW c \in Conns,
                 NEW name \in ToolNames, NEW def \in Defs,
                 SaveEndpointLookup(w, e, c, name, def)
          PROVE  NoOrphans'
      BY <2>3 DEF SaveEndpointLookup, NoOrphans
    <2>4. ASSUME NEW w \in Writers, SaveEndpointUpsert(w)
          PROVE  NoOrphans'
      <3>1. saving[w] \in Pending
        BY <2>4 DEF TypeOK, SaveEndpointUpsert
      <3> QED
        BY <2>4, <3>1 DEF SaveEndpointUpsert, Upserted, NoOrphans, TypeOK, Pending
    <2>5. ASSUME NEW w \in Writers, SaveEndpointFails(w)
          PROVE  NoOrphans'
      BY <2>5 DEF SaveEndpointFails, NoOrphans
    <2>6. ASSUME NEW e \in Eps, DeleteEndpoint(e)
          PROVE  NoOrphans'
      BY <2>6 DEF DeleteEndpoint, NoOrphans, TypeOK
    <2>7. CASE UNCHANGED vars
      BY <2>7 DEF NoOrphans, vars
    <2> QED
      BY <2>1, <2>2, <2>3, <2>4, <2>5, <2>6, <2>7 DEF Next
  <1> QED
    BY <1>1, <1>2, TypeCorrect, PTL DEF Spec

\* The version in hand is the one that follows what the SELECT of the save found.
PendingVersionOK ==
    \A w \in Writers : saving[w] # Idle =>
        saving[w].row.version = NextVersion(saving[w].found, saving[w].row.hash)

LEMMA VersionStep == TypeOK /\ PendingVersionOK /\ [Next]_vars => PendingVersionOK'
  <1> SUFFICES ASSUME TypeOK, PendingVersionOK, [Next]_vars,
                      NEW v \in Writers, saving'[v] # Idle
               PROVE  saving'[v].row.version = NextVersion(saving'[v].found, saving'[v].row.hash)
    BY DEF PendingVersionOK
  <1>1. ASSUME NEW w \in Writers, NEW e \in Eps, NEW c \in Conns,
               NEW name \in ToolNames, NEW def \in Defs,
               SaveEndpointLookup(w, e, c, name, def)
        PROVE  saving'[v].row.version = NextVersion(saving'[v].found, saving'[v].row.hash)
    <2>1. CASE v = w
      BY <1>1, <2>1 DEF SaveEndpointLookup, TypeOK
    <2>2. CASE v # w
      BY <1>1, <2>2 DEF SaveEndpointLookup, TypeOK, PendingVersionOK
    <2> QED
      BY <2>1, <2>2
  <1>2. ASSUME NEW w \in Writers, SaveEndpointUpsert(w) \/ SaveEndpointFails(w)
        PROVE  saving'[v] = saving[v]
    BY <1>2 DEF SaveEndpointUpsert, SaveEndpointFails, TypeOK
  <1>3. ASSUME \/ \E c \in Conns : \E row \in ConnRow : SaveConnection(c, row)
               \/ \E c \in Conns : DeleteConnection(c)
               \/ \E e \in Eps : DeleteEndpoint(e)
               \/ UNCHANGED vars
        PROVE  saving'[v] = saving[v]
    BY <1>3 DEF SaveConnection, DeleteConnection, DeleteEndpoint, vars
  <1>4. CASE saving'[v] = saving[v]
    BY <1>4 DEF PendingVersionOK
  <1> QED
    BY <1>1, <1>2, <1>3, <1>4 DEF Next

\* However many SaveEndpoint calls overlap, the version of a stored endpoint goes up by
\* one exactly when its definition_hash changes, unless the call that wrote the row did
\* so on a hash or a version that was no longer the stored one.
THEOREM VersionCountsChanges == Spec => VersionFollowsHash
  <1> DEFINE Follows(e) == endpoints'[e].version =
                              IF endpoints'[e].hash = endpoints[e].hash
                              THEN endpoints[e].version ELSE endpoints[e].version + 1
             Overtaken(e) == \E w \in Writers : /\ saving[w] # Idle /\ saving'[w] = Idle
                                                /\ saving[w].ep = e
                                                /\ saving[w].found # Stored(endpoints[e])
             A == \A e \in Eps : endpoints[e] # NoRow /\ endpoints'[e] # NoRow =>
                    \/ endpoints'[e].version =
                          IF endpoints'[e].hash = endpoints[e].hash
                          THEN endpoints[e].version ELSE endpoints[e].version + 1
                    \/ \E w \in Writers :
                          /\ saving[w] # Idle /\ saving'[w] = Idle
                          /\ saving[w].ep = e
                          /\ saving[w].found # Stored(endpoints[e])
  <1>1. Init => PendingVersionOK
    BY DEF Init, PendingVersionOK
  <1>2. TypeOK /\ PendingVersionOK /\ [Next]_vars =>
          [A]_vars
    <2> SUFFICES ASSUME TypeOK, PendingVersionOK, Next, NEW e \in Eps,
                        endpoints[e] # NoRow, endpoints'[e] # NoRow
                 PROVE  Follows(e) \/ Overtaken(e)
      OBVIOUS
    <2>1. ASSUME NEW w \in Writers, SaveEndpointUpsert(w), saving[w].ep = e
          PROVE  Follows(e) \/ Overtaken(e)
      <3>1. saving[w] # Idle /\ saving'[w] = Idle /\ endpoints'[e] = saving[w].row
        BY <2>1 DEF SaveEndpointUpsert, Upserted, TypeOK
      <3>2. CASE saving[w].found # Stored(endpoints[e])
        BY <2>1, <3>1, <3>2
      <3>3. CASE saving[w].found = Stored(endpoints[e])
        <4>1. saving[w].found # NoRow /\ saving[w].found.hash = endpoints[e].hash
                /\ saving[w].found.version = endpoints[e].version
          BY <3>3, StoredType DEF Stored, TypeOK
        <4>2. endpoints'[e].version = NextVersion(saving[w].found, endpoints'[e].hash)
          BY <3>1 DEF PendingVersionOK
        <4>3. Follows(e)
          BY <4>1, <4>2 DEF NextVersion
        <4> QED
          BY <4>3
      <3> QED
        BY <3>2, <3>3
    <2>2. ASSUME NEW w \in Writers, SaveEndpointUpsert(w), saving[w].ep # e
          PROVE  endpoints'[e] = endpoints[e]
      BY <2>2 DEF SaveEndpointUpsert, TypeOK
    <2>3. CASE endpoints'[e] = endpoints[e]
      BY <2>3
    <2>4. ASSUME NEW c \in Conns, DeleteConnection(c)
          PROVE  endpoints'[e] = endpoints[e]
      BY <2>4 DEF DeleteConnection, TypeOK
    <2>5. ASSUME NEW f \in Eps, DeleteEndpoint(f)
          PROVE  endpoints'[e] = endpoints[e]
      BY <2>5 DEF DeleteEndpoint, TypeOK
    <2>6. ASSUME \/ \E c \in Conns : \E row \in ConnRow : SaveConnection(c, row)
                 \/ \E w \in Writers, f \in Eps, c \in Conns,
                       name \in ToolNames, def \in Defs :
                       SaveEndpointLookup(w, f, c, name, def)
                 \/ \E w \in Writers : SaveEndpointFails(w)
          PROVE  endpoints'[e] = endpoints[e]
      BY <2>6 DEF SaveConnection, SaveEndpointLookup, SaveEndpointFails
    <2> HIDE DEF Follows, Overtaken
    <2>7. CASE \E w \in Writers : SaveEndpointUpsert(w)
      BY <2>1, <2>2, <2>3, <2>7
    <2> QED
      BY <2>3, <2>4, <2>5, <2>6, <2>7 DEF Next
  <1> HIDE DEF A
  <1>3. Spec => [][A]_vars
    BY <1>1, <1>2, VersionStep, TypeCorrect, PTL DEF Spec
  <1> QED
    BY <1>3 DEF VersionFollowsHash, A

-----------------------------------------------------------------------------
(* OpenAPIImport.                                                           *)

\* The number uniqueName gives the i-th operation: how often its base was used.
Uses(doc, i) == Cardinality({j \in 1 .. i : doc.ops[j].base = doc.ops[i].base})

\* Operations have a base that is a tool name and a sequence, and a definition.
LEMMA OperationType ==
    ASSUME NEW doc \in Documents
    PROVE  /\ Len(doc.ops) \in Nat /\ DOMAIN doc.ops = 1 .. Len(doc.ops)
           /\ \A i \in DOMAIN doc.ops :
                 /\ doc.ops[i].base \in ToolNames /\ doc.ops[i].def \in Defs
                 /\ \E S : doc.ops[i].base \in Seq(S)
           /\ doc.title \in ConnNames
  <1>1. doc \in Document
    BY ImportAssumption
  <1>2. doc.ops \in Seq(Operation) /\ doc.title \in ConnNames
    BY <1>1 DEF Document
  <1>3. /\ Len(doc.ops) \in Nat /\ DOMAIN doc.ops = 1 .. Len(doc.ops)
        /\ \A i \in DOMAIN doc.ops : doc.ops[i] \in Operation
    BY <1>2, LenProperties, ElementOfSeq
  <1>4. ASSUME NEW name \in ToolNames
        PROVE  \E S : name \in Seq(S)
    <2> DEFINE S == {name[i] : i \in 1 .. Len(name)}
    <2>1. Len(name) \in Nat /\ name = [i \in 1 .. Len(name) |-> name[i]]
      BY ImportAssumption
    <2>2. name \in [1 .. Len(name) -> S]
      BY <2>1
    <2>3. name \in Seq(S)
      BY <2>1, <2>2, SeqDef
    <2> QED
      BY <2>3
  <1> QED
    BY <1>2, <1>3, <1>4 DEF Operation

\* A later use of a base has a larger number; numbers start at 1 and do not exceed
\* the number of operations.
LEMMA UsesCount ==
    ASSUME NEW doc \in Documents, NEW i \in DOMAIN doc.ops
    PROVE  /\ Uses(doc, i) \in 1 .. Len(doc.ops)
           /\ \A j \in DOMAIN doc.ops :
                 i < j /\ doc.ops[i].base = doc.ops[j].base => Uses(doc, i) < Uses(doc, j)
  <1> DEFINE U(k) == {j \in 1 .. k : doc.ops[j].base = doc.ops[k].base}
  <1>0. Len(doc.ops) \in Nat /\ DOMAIN doc.ops = 1 .. Len(doc.ops)
    BY OperationType
  <1>1. ASSUME NEW k \in DOMAIN doc.ops
        PROVE  /\ IsFiniteSet(U(k)) /\ Cardinality(U(k)) \in Nat
               /\ Cardinality(U(k)) <= k /\ Cardinality(U(k)) >= 1
    <2>1. k \in Nat /\ 1 \in Int /\ k \in Int /\ 1 <= k
      BY <1>0
    <2>2. IsFiniteSet(1 .. k) /\ Cardinality(1 .. k) = k
      BY <2>1, FS_Interval
    <2>3. U(k) \in SUBSET (1 .. k) /\ k \in U(k)
      BY <2>1
    <2>4. IsFiniteSet(U(k)) /\ Cardinality(U(k)) <= Cardinality(1 .. k)
      BY <2>2, <2>3, FS_Subset
    <2>5. Cardinality(U(k)) \in Nat /\ Cardinality(U(k)) # 0
      BY <2>3, <2>4, FS_CardinalityType, FS_EmptySet
    <2> QED
      BY <2>1, <2>2, <2>4, <2>5
  <1>2. \A k \in DOMAIN doc.ops : Uses(doc, k) = Cardinality(U(k))
    BY DEF Uses
  <1>3. ASSUME NEW j \in DOMAIN doc.ops, i < j, doc.ops[i].base = doc.ops[j].base
        PROVE  Cardinality(U(i)) < Cardinality(U(j))
    <2>1. U(i) \in SUBSET U(j) /\ j \in U(j) /\ j \notin U(i)
      BY <1>0, <1>3
    <2>2. /\ Cardinality(U(i)) <= Cardinality(U(j))
          /\ Cardinality(U(j)) = Cardinality(U(i)) => U(j) = U(i)
      BY <1>1, <2>1, FS_Subset
    <2>3. Cardinality(U(i)) \in Nat /\ Cardinality(U(j)) \in Nat
      BY <1>1
    <2> QED
      BY <2>1, <2>2, <2>3
  <1>4. Cardinality(U(i)) \in 1 .. Len(doc.ops)
    <2>1. /\ Cardinality(U(i)) \in Nat
          /\ Cardinality(U(i)) <= i /\ Cardinality(U(i)) >= 1
      BY <1>1
    <2> HIDE DEF U
    <2> QED
      BY <1>0, <2>1
  <1> QED
    BY <1>2, <1>3, <1>4

\* A suffix changes the name and can be read off it.
LEMMA SuffixInjective ==
    ASSUME NEW S, NEW a \in Seq(S), NEW T, NEW b \in Seq(T),
           NEW m \in Nat, NEW n \in Nat
    PROVE  /\ Append(a, m) # a
           /\ Append(a, m) = Append(b, n) => a = b /\ m = n
  <1> DEFINE V == S \cup T \cup Nat
  <1>1. a \in Seq(V) /\ b \in Seq(V) /\ m \in V /\ n \in V
    <2>1. S \subseteq V /\ T \subseteq V /\ Nat \subseteq V
      OBVIOUS
    <2> HIDE DEF V
    <2>2. a \in [1 .. Len(a) -> V] /\ b \in [1 .. Len(b) -> V] /\ Len(a) \in Nat /\ Len(b) \in Nat
      BY <2>1, LenProperties
    <2> QED
      BY <2>1, <2>2, SeqDef
  <1> HIDE DEF V
  <1>2. Len(Append(a, m)) = Len(a) + 1 /\ Len(a) \in Nat
    BY <1>1, AppendProperties, LenProperties
  <1>3. Append(a, m) = Append(b, n) => a = b /\ m = n
    BY <1>1, AppendInjective
  <1> QED
    BY <1>2, <1>3

\* uniqueName keeps the tools of a document apart, but for ambiguous documents.
LEMMA NamesApart ==
    ASSUME NEW doc \in Documents, ~ Ambiguous(doc),
           NEW i \in DOMAIN doc.ops, NEW j \in DOMAIN doc.ops, i < j
    PROVE  Parse(doc)[i].name # Parse(doc)[j].name
  <1> DEFINE a == doc.ops[i].base  b == doc.ops[j].base
             m == Uses(doc, i)     n == Uses(doc, j)
  <1>1. m \in 1 .. Len(doc.ops) /\ n \in 1 .. Len(doc.ops) /\ Len(doc.ops) \in Nat
    BY UsesCount, OperationType
  <1>2. a = b => m < n
    BY UsesCount
  <1>3. PICK S : a \in Seq(S)
    BY OperationType
  <1>4. PICK T : b \in Seq(T)
    BY OperationType
  <1>5. /\ Parse(doc)[i].name = (IF m = 1 THEN a ELSE Append(a, m))
        /\ Parse(doc)[j].name = (IF n = 1 THEN b ELSE Append(b, n))
    BY DEF Parse, UniqueName, Uses
  <1>6. /\ m # 1 => m \in 2 .. Len(doc.ops)
        /\ n # 1 => n \in 2 .. Len(doc.ops)
    BY <1>1
  <1>7. /\ n # 1 => a # Append(b, n)
        /\ m # 1 => b # Append(a, m)
    BY <1>6 DEF Ambiguous
  <1> HIDE DEF a, b, m, n
  <1>8. /\ Append(a, m) = Append(b, n) => a = b /\ m = n
    BY <1>1, <1>3, <1>4, SuffixInjective
  <1>9. CASE m = 1 /\ n = 1
    BY <1>2, <1>5, <1>9
  <1>10. CASE m = 1 /\ n # 1
    BY <1>5, <1>7, <1>10
  <1>11. CASE m # 1 /\ n = 1
    BY <1>5, <1>7, <1>11
  <1>12. CASE m # 1 /\ n # 1
    <2>1. ~ (a = b /\ m = n)
      BY <1>1, <1>2
    <2> QED
      BY <1>5, <1>8, <1>12, <2>1
  <1> QED
    BY <1>9, <1>10, <1>11, <1>12

-----------------------------------------------------------------------------
SomeDocument == CHOOSE d \in Documents : TRUE

ImportPcs == {"idle", "previewed", "rejected", "saving", "collided", "failed", "done"}

ImportRecord ==
    [pc : ImportPcs, doc : Documents \cup {SomeDocument}, conn : Conns \cup {NoRow},
     next : Nat, created : Seq(ToolNames), disturbed : BOOLEAN]

ImportType == import \in [Importers -> ImportRecord]

\* An import under way has the names of the operations before the next one, in
\* order, and the save it is in is that of the next one.
ImportOK(p) ==
    /\ import[p].pc \in {"saving", "done"} =>
          /\ import[p].doc \in Documents /\ import[p].conn \in Conns
          /\ import[p].next \in 1 .. Len(import[p].doc.ops) + 1
          /\ import[p].created =
                [i \in 1 .. import[p].next - 1 |-> Parse(import[p].doc)[i].name]
    /\ import[p].pc = "done" => import[p].next = Len(import[p].doc.ops) + 1
    /\ saving[p] # Idle => /\ import[p].pc = "saving"
                           /\ import[p].next <= Len(import[p].doc.ops)
                           /\ saving[p].row.name = Tool(p).name

ImportInv == ImportType /\ \A p \in Importers : ImportOK(p)

LEMMA IdleImportType ==
    /\ IdleImport \in ImportRecord /\ IdleImport.pc = "idle" /\ IdleImport.conn = NoRow
    /\ IdleImport = [pc |-> "idle", doc |-> SomeDocument, conn |-> NoRow, next |-> 1,
                     created |-> <<>>, disturbed |-> FALSE]
  <1>1. <<>> \in Seq(ToolNames)
    BY EmptySeq
  <1>2. IdleImport = [pc |-> "idle", doc |-> SomeDocument, conn |-> NoRow, next |-> 1,
                      created |-> <<>>, disturbed |-> FALSE]
    BY DEF IdleImport, SomeDocument
  <1> QED
    BY <1>1, <1>2 DEF ImportRecord, ImportPcs

\* The result of a request is set without touching the rest.
LEMMA ResultSet ==
    ASSUME NEW r \in ImportRecord, NEW pc \in ImportPcs
    PROVE  [r EXCEPT !.pc = pc] \in ImportRecord
  BY DEF ImportRecord

\* Recording that others changed an import's connection changes nothing else of it.
LEMMA DisturbOnly ==
    ASSUME ImportType, Disturb
    PROVE  /\ ImportType'
           /\ \A p \in Importers :
                 /\ import'[p].pc = import[p].pc /\ import'[p].doc = import[p].doc
                 /\ import'[p].conn = import[p].conn /\ import'[p].next = import[p].next
                 /\ import'[p].created = import[p].created
                 /\ import[p].conn # NoRow /\ ~ import'[p].disturbed
                       => ~ import[p].disturbed /\ ~ Touched(import[p].conn)
  <1> DEFINE was(p) == import[p].disturbed
             isNow(p) == was(p) \/ (import[p].conn # NoRow /\ Touched(import[p].conn))
  <1>1. \A p \in Importers : import[p] \in ImportRecord /\ was(p) \in BOOLEAN
    BY DEF ImportType, ImportRecord
  <1>2. import' = [p \in Importers |-> [import[p] EXCEPT !.disturbed = isNow(p)]]
    BY DEF Disturb
  <1>3. \A p \in Importers : isNow(p) \in BOOLEAN
    OBVIOUS
  <1>4. \A p \in Importers : ~ isNow(p) /\ import[p].conn # NoRow
                                => ~ was(p) /\ ~ Touched(import[p].conn)
    OBVIOUS
  <1> HIDE DEF isNow
  <1>5. \A p \in Importers : import'[p] \in ImportRecord
    BY <1>1, <1>2, <1>3 DEF ImportRecord
  <1>6. \A p \in Importers :
                 /\ import'[p].pc = import[p].pc /\ import'[p].doc = import[p].doc
                 /\ import'[p].conn = import[p].conn /\ import'[p].next = import[p].next
                 /\ import'[p].created = import[p].created
                 /\ import'[p].disturbed = isNow(p)
    BY <1>1, <1>2 DEF ImportRecord
  <1>7. ImportType'
    BY <1>2, <1>5 DEF ImportType
  <1> QED
    BY <1>4, <1>6, <1>7

\* The save of the next operation is one SaveEndpoint may make.
LEMMA NextTool ==
    ASSUME ImportInv, NEW p \in Importers, import[p].pc = "saving",
           import[p].next <= Len(import[p].doc.ops)
    PROVE  /\ p \in Writers /\ import[p].conn \in Conns
           /\ Tool(p).name \in ToolNames /\ Tool(p).def \in Defs
           /\ import[p].next \in DOMAIN import[p].doc.ops
  <1> DEFINE doc == import[p].doc  n == import[p].next
  <1>1. doc \in Documents /\ n \in 1 .. Len(doc.ops) + 1 /\ import[p].conn \in Conns
    BY DEF ImportInv, ImportOK
  <1>2. Len(doc.ops) \in Nat /\ DOMAIN doc.ops = 1 .. Len(doc.ops)
    BY <1>1, OperationType
  <1>3. n \in DOMAIN doc.ops
    BY <1>1, <1>2
  <1>4. Tool(p) = Parse(doc)[n]
    BY DEF Tool
  <1> HIDE DEF doc, n
  <1>5. Parse(doc)[n].def = doc.ops[n].def
    BY <1>3 DEF Parse
  <1>6. Tool(p).name \in ToolNames /\ Tool(p).def \in Defs
    BY <1>1, <1>3, <1>4, <1>5, OperationType, NamesAssumption
  <1> QED
    BY <1>1, <1>3, <1>6, ImportAssumption DEF doc, n

\* Every statement of an import is one of the operations of pkg/storage.
LEMMA ImportStepIsEdit == ImportInv /\ [ImportNext]_importVars => [Next]_vars
  <1> SUFFICES ASSUME ImportInv, [ImportNext]_importVars PROVE [Next]_vars
    OBVIOUS
  <1>0. Importers \subseteq Writers
    BY ImportAssumption
  <1>1. CASE Edits
    BY <1>0, <1>1 DEF Edits, Next
  <1>2. ASSUME NEW p \in Importers, NEW doc \in Documents, NEW c \in Conns,
               ImportConnection(p, doc, c)
        PROVE  Next
    <2>1. SaveConnection(c, [name |-> doc.title]) /\ [name |-> doc.title] \in ConnRow
      BY <1>2, OperationType DEF ImportConnection, ConnRow
    <2> QED
      BY <2>1 DEF Next
  <1>3. ASSUME NEW p \in Importers, NEW e \in Eps, ImportLookup(p, e)
        PROVE  Next
    <2>1. /\ SaveEndpointLookup(p, e, import[p].conn, Tool(p).name, Tool(p).def)
          /\ import[p].pc = "saving" /\ import[p].next <= Len(import[p].doc.ops)
      BY <1>3 DEF ImportLookup
    <2>2. /\ p \in Writers /\ import[p].conn \in Conns
          /\ Tool(p).name \in ToolNames /\ Tool(p).def \in Defs
      BY <2>1, NextTool
    <2> QED
      BY <2>1, <2>2 DEF Next
  <1>4. ASSUME NEW p \in Importers, ImportUpsert(p) \/ ImportCollides(p) \/ ImportFails(p)
        PROVE  Next
    BY <1>0, <1>4 DEF ImportUpsert, ImportCollides, ImportFails, Next
  <1>5. ASSUME NEW p \in Importers, NEW doc \in Documents,
               ImportWritesNothing(p, doc) \/ ImportConnectionFails(p, doc)
        PROVE  UNCHANGED vars
    BY <1>5 DEF ImportWritesNothing, ImportConnectionFails
  <1>6. ASSUME NEW p \in Importers, ImportDone(p) \/ ImportReturns(p)
        PROVE  UNCHANGED vars
    BY <1>6 DEF ImportDone, ImportReturns
  <1>7. CASE UNCHANGED importVars
    BY <1>7 DEF importVars, vars
  <1> QED
    BY <1>1, <1>2, <1>3, <1>4, <1>5, <1>6, <1>7 DEF ImportNext

\* The next name in createdTools.
LEMMA CreatedGrows ==
    ASSUME NEW k \in Nat, NEW names, NEW s \in Seq(ToolNames),
           s = [i \in 1 .. k |-> names[i].name], names[k + 1].name \in ToolNames
    PROVE  /\ Append(s, names[k + 1].name) = [i \in 1 .. k + 1 |-> names[i].name]
           /\ Append(s, names[k + 1].name) \in Seq(ToolNames)
  <1> DEFINE e == names[k + 1].name
             t == Append(s, e)
  <1>1. Len(s) = k
    BY LenProperties
  <1>2. /\ t \in Seq(ToolNames) /\ Len(t) = k + 1
        /\ \A i \in 1 .. k : t[i] = s[i]
        /\ t[k + 1] = e
    BY <1>1, AppendProperties
  <1>3. t = [i \in 1 .. k + 1 |-> t[i]]
    BY <1>2, LenProperties
  <1> HIDE DEF t
  <1>4. \A i \in 1 .. k + 1 : t[i] = names[i].name
    <2> SUFFICES ASSUME NEW i \in 1 .. k + 1 PROVE t[i] = names[i].name
      OBVIOUS
    <2>1. i \in 1 .. k \/ i = k + 1
      OBVIOUS
    <2> QED
      BY <1>2, <2>1
  <1> QED
    BY <1>2, <1>3, <1>4 DEF t

LEMMA ImportStep == TypeOK /\ ImportInv /\ [ImportNext]_importVars => ImportInv'
  <1> SUFFICES ASSUME TypeOK, ImportInv, [ImportNext]_importVars PROVE ImportInv'
    OBVIOUS
  <1>0. Importers \subseteq Writers
    BY ImportAssumption
  <1>t. /\ import \in [Importers -> ImportRecord]
        /\ \A p \in Importers : import[p] \in [pc : ImportPcs, doc : Documents \cup {SomeDocument},
              conn : Conns \cup {NoRow}, next : Nat, created : Seq(ToolNames), disturbed : BOOLEAN]
        /\ saving \in [Writers -> Pending \cup {Idle}]
    BY DEF ImportInv, ImportType, ImportRecord, TypeOK
  \* What an importer does leaves the others alone.
  <1>o. ASSUME NEW p \in Importers, saving'[p] = saving[p],
               import'[p].pc = import[p].pc, import'[p].doc = import[p].doc,
               import'[p].conn = import[p].conn, import'[p].next = import[p].next,
               import'[p].created = import[p].created
        PROVE  ImportOK(p)'
    <2>1. ImportOK(p)
      BY DEF ImportInv
    <2> QED
      BY <1>o, <2>1 DEF ImportOK, Tool
  <1>1. CASE Edits /\ Disturb
    <2>1. \A p \in Importers : saving'[p] = saving[p]
      BY <1>0, <1>1, <1>t DEF Edits, SaveConnection, DeleteConnection, DeleteEndpoint,
                        SaveEndpointLookup, SaveEndpointUpsert, SaveEndpointFails
    <2>2. ImportType' /\ \A p \in Importers :
                 /\ import'[p].pc = import[p].pc /\ import'[p].doc = import[p].doc
                 /\ import'[p].conn = import[p].conn /\ import'[p].next = import[p].next
                 /\ import'[p].created = import[p].created
      BY <1>1, DisturbOnly DEF ImportInv
    <2> QED
      BY <1>o, <2>1, <2>2 DEF ImportInv
  <1>2. ASSUME NEW p \in Importers, NEW doc \in Documents,
               ImportWritesNothing(p, doc) \/ ImportConnectionFails(p, doc)
        PROVE  ImportInv'
    <2>1. PICK pc \in {"previewed", "rejected", "failed"} :
             import' = [import EXCEPT ![p].pc = pc]
      BY <1>2 DEF ImportWritesNothing, ImportConnectionFails
    <2>2. import[p].pc = "idle" /\ saving' = saving
      BY <1>2 DEF ImportWritesNothing, ImportConnectionFails, vars
    <2>3. ImportType'
      BY <1>t, <2>1, ResultSet DEF ImportType, ImportPcs
    <2>4. saving[p] = Idle
      BY <2>2 DEF ImportInv, ImportOK
    <2>5. ImportOK(p)'
      BY <1>t, <2>1, <2>2, <2>4 DEF ImportOK
    <2>6. \A q \in Importers \ {p} : import'[q] = import[q] /\ saving'[q] = saving[q]
      BY <1>t, <2>1, <2>2
    <2> QED
      BY <1>o, <2>3, <2>5, <2>6 DEF ImportInv
  <1>3. ASSUME NEW p \in Importers, NEW doc \in Documents, NEW c \in Conns,
               ImportConnection(p, doc, c)
        PROVE  ImportInv'
    <2> DEFINE r == [pc |-> "saving", doc |-> doc, conn |-> c, next |-> 1, created |-> <<>>,
                     disturbed |-> FALSE]
    <2>1. import[p].pc = "idle" /\ saving' = saving /\ import' = [import EXCEPT ![p] = r]
      BY <1>3 DEF ImportConnection, SaveConnection
    <2>2. <<>> \in Seq(ToolNames) /\ <<>> = [i \in 1 .. 0 |-> Parse(doc)[i].name]
      BY EmptySeq
    <2>3. ImportType'
      <3>1. r \in ImportRecord
        BY <2>2 DEF ImportRecord, ImportPcs
      <3> HIDE DEF r
      <3> QED
        BY <1>t, <2>1, <3>1 DEF ImportType
    <2>4. saving[p] = Idle
      BY <2>1 DEF ImportInv, ImportOK
    <2>5. import'[p] = r
      BY <1>t, <2>1
    <2>6. Len(doc.ops) \in Nat
      BY OperationType
    <2>7. ImportOK(p)'
      BY <2>1, <2>2, <2>4, <2>5, <2>6 DEF ImportOK
    <2>8. \A q \in Importers \ {p} : import'[q] = import[q] /\ saving'[q] = saving[q]
      BY <1>t, <2>1
    <2> QED
      BY <1>o, <2>3, <2>7, <2>8 DEF ImportInv
  <1>4. ASSUME NEW p \in Importers, NEW e \in Eps, ImportLookup(p, e)
        PROVE  ImportInv'
    <2>1. /\ import' = import /\ import[p].pc = "saving"
          /\ import[p].next <= Len(import[p].doc.ops)
          /\ SaveEndpointLookup(p, e, import[p].conn, Tool(p).name, Tool(p).def)
      BY <1>4 DEF ImportLookup
    <2>2. /\ saving'[p].row.name = Tool(p).name
          /\ \A q \in Importers \ {p} : saving'[q] = saving[q]
      BY <1>0, <1>t, <2>1 DEF SaveEndpointLookup
    <2>3. Tool(p)' = Tool(p)
      BY <2>1 DEF Tool
    <2>4. ImportOK(p)'
      BY <2>1, <2>2, <2>3 DEF ImportInv, ImportOK
    <2>5. ImportType'
      BY <2>1 DEF ImportInv, ImportType
    <2> QED
      BY <1>o, <2>1, <2>2, <2>4, <2>5 DEF ImportInv
  <1>5. ASSUME NEW p \in Importers, ImportUpsert(p)
        PROVE  ImportInv'
    <2> DEFINE doc == import[p].doc  n == import[p].next
    <2>1. /\ import[p].pc = "saving" /\ saving[p] # Idle
          /\ saving' = [saving EXCEPT ![p] = Idle]
          /\ import' = [import EXCEPT ![p].next = n + 1,
                                     ![p].created = Append(import[p].created, saving[p].row.name)]
      BY <1>5, <1>t DEF ImportUpsert, SaveEndpointUpsert
    <2>2. /\ n <= Len(doc.ops) /\ saving[p].row.name = Parse(doc)[n].name
          /\ doc \in Documents /\ import[p].conn \in Conns /\ n \in 1 .. Len(doc.ops) + 1
          /\ import[p].created = [i \in 1 .. n - 1 |-> Parse(doc)[i].name]
      BY <2>1 DEF ImportInv, ImportOK, Tool
    <2>3. n \in DOMAIN doc.ops /\ Parse(doc)[n].name \in ToolNames
      BY <2>1, <2>2, NextTool DEF Tool
    <2>4. Len(doc.ops) \in Nat
      BY <2>2, OperationType
    <2>5. import[p].created \in Seq(ToolNames)
      BY <1>t
    <2>6. /\ import'[p].next = n + 1 /\ import'[p].doc = doc /\ import'[p].pc = "saving"
          /\ import'[p].conn = import[p].conn
          /\ import'[p].created = Append(import[p].created, Parse(doc)[n].name)
          /\ \A q \in Importers \ {p} : import'[q] = import[q]
      BY <1>t, <2>1, <2>2
    <2> HIDE DEF doc, n
    <2>7. n - 1 \in Nat /\ (n - 1) + 1 = n /\ (n + 1) - 1 = n /\ n + 1 \in 1 .. Len(doc.ops) + 1
      BY <2>2, <2>4
    <2>8. /\ Append(import[p].created, Parse(doc)[n].name) = [i \in 1 .. n |-> Parse(doc)[i].name]
          /\ Append(import[p].created, Parse(doc)[n].name) \in Seq(ToolNames)
      <3>1. ASSUME NEW k \in Nat, k + 1 = n, k = n - 1
            PROVE  /\ Append(import[p].created, Parse(doc)[k + 1].name) =
                         [i \in 1 .. k + 1 |-> Parse(doc)[i].name]
                   /\ Append(import[p].created, Parse(doc)[k + 1].name) \in Seq(ToolNames)
        BY <2>2, <2>3, <2>5, <3>1, CreatedGrows
      <3> QED
        BY <2>7, <3>1
    <2>9. ImportOK(p)'
      <3>1. saving'[p] = Idle
        BY <1>0, <1>t, <2>1
      <3> QED
        BY <2>2, <2>6, <2>7, <2>8, <3>1 DEF ImportOK
    <2>10. ImportType'
      <3>1. n + 1 \in Nat
        BY <2>2, <2>4
      <3>2. Append(import[p].created, saving[p].row.name) \in Seq(ToolNames)
        BY <2>2, <2>8
      <3> QED
        BY <1>t, <2>1, <3>1, <3>2 DEF ImportType, ImportRecord
    <2>11. \A q \in Importers \ {p} : saving'[q] = saving[q]
      BY <1>0, <1>t, <2>1
    <2> QED
      BY <1>o, <2>6, <2>9, <2>10, <2>11 DEF ImportInv
  <1>6. ASSUME NEW p \in Importers, ImportCollides(p) \/ ImportFails(p)
        PROVE  ImportInv'
    <2>1. PICK pc \in {"collided", "failed"} : import' = [import EXCEPT ![p].pc = pc]
      BY <1>6 DEF ImportCollides, ImportFails
    <2>2. saving' = [saving EXCEPT ![p] = Idle]
      BY <1>6 DEF ImportCollides, ImportFails, SaveEndpointFails
    <2>3. saving'[p] = Idle /\ import'[p].pc = pc
      BY <1>0, <1>t, <2>1, <2>2
    <2>4. ImportOK(p)'
      BY <2>3 DEF ImportOK
    <2>5. ImportType'
      BY <1>t, <2>1, ResultSet DEF ImportType, ImportPcs
    <2>6. \A q \in Importers \ {p} : import'[q] = import[q] /\ saving'[q] = saving[q]
      BY <1>0, <1>t, <2>1, <2>2
    <2> QED
      BY <1>o, <2>4, <2>5, <2>6 DEF ImportInv
  <1>7. ASSUME NEW p \in Importers, ImportDone(p)
        PROVE  ImportInv'
    <2> DEFINE doc == import[p].doc  n == import[p].next
    <2>1. /\ import[p].pc = "saving" /\ n > Len(doc.ops) /\ saving' = saving
          /\ import' = [import EXCEPT ![p].pc = "done"]
      BY <1>7 DEF ImportDone, vars
    <2>2. doc \in Documents /\ n \in 1 .. Len(doc.ops) + 1
      BY <2>1 DEF ImportInv, ImportOK
    <2>3. Len(doc.ops) \in Nat
      BY <2>2, OperationType
    <2>4. n = Len(doc.ops) + 1 /\ ~ (n <= Len(doc.ops))
      BY <2>1, <2>2, <2>3
    <2>5. saving[p] = Idle
      BY <2>4 DEF ImportInv, ImportOK
    <2>6. /\ import'[p].pc = "done" /\ import'[p].doc = import[p].doc
          /\ import'[p].next = import[p].next /\ import'[p].conn = import[p].conn
          /\ import'[p].created = import[p].created
          /\ \A q \in Importers \ {p} : import'[q] = import[q] /\ saving'[q] = saving[q]
      BY <1>t, <2>1
    <2>7. ImportOK(p)'
      <3>1. /\ import[p].doc \in Documents /\ import[p].conn \in Conns
            /\ import[p].next \in 1 .. Len(import[p].doc.ops) + 1
            /\ import[p].created =
                  [i \in 1 .. import[p].next - 1 |-> Parse(import[p].doc)[i].name]
        BY <2>1 DEF ImportInv, ImportOK
      <3>2. saving'[p] = Idle /\ import'[p].next = Len(import'[p].doc.ops) + 1
        BY <2>1, <2>4, <2>5, <2>6
      <3> QED
        BY <2>6, <3>1, <3>2 DEF ImportOK
    <2>8. ImportType'
      BY <1>t, <2>1, ResultSet DEF ImportType, ImportPcs
    <2> QED
      BY <1>o, <2>6, <2>7, <2>8 DEF ImportInv
  <1>8. ASSUME NEW p \in Importers, ImportReturns(p)
        PROVE  ImportInv'
    <2>1. /\ import[p].pc \notin {"idle", "saving"} /\ saving' = saving
          /\ import' = [import EXCEPT ![p] = IdleImport]
      BY <1>8 DEF ImportReturns, vars
    <2>2. saving[p] = Idle
      BY <2>1 DEF ImportInv, ImportOK
    <2>3. /\ import'[p].pc = "idle"
          /\ \A q \in Importers \ {p} : import'[q] = import[q] /\ saving'[q] = saving[q]
      BY <1>t, <2>1, IdleImportType
    <2>4. ImportOK(p)'
      BY <2>1, <2>2, <2>3 DEF ImportOK
    <2>5. ImportType'
      BY <1>t, <2>1, IdleImportType DEF ImportType
    <2> QED
      BY <1>o, <2>3, <2>4, <2>5 DEF ImportInv
  <1>9. CASE UNCHANGED importVars
    BY <1>9 DEF importVars, ImportInv, ImportType, ImportOK, Tool
  <1> QED
    BY <1>1, <1>2, <1>3, <1>4, <1>5, <1>6, <1>7, <1>8, <1>9 DEF ImportNext

\* The invariants above hold in every state of an import.
LEMMA ImportCorrect == ImportSpec => [](TypeOK /\ ImportInv)
  <1>1. ImportInit => TypeOK /\ ImportInv
    <2> SUFFICES ASSUME ImportInit PROVE TypeOK /\ ImportInv
      OBVIOUS
    <2>1. TypeOK
      BY LegacyAssumption DEF ImportInit, Init, TypeOK
    <2>2. import = [p \in Importers |-> IdleImport] /\ saving = [w \in Writers |-> Idle]
      BY DEF ImportInit, Init
    <2>3. ImportType
      BY <2>2, IdleImportType DEF ImportType
    <2>4. \A p \in Importers : import[p].pc = "idle" /\ saving[p] = Idle
      BY <2>2, IdleImportType, ImportAssumption
    <2> QED
      BY <2>1, <2>3, <2>4 DEF ImportInv, ImportOK
  <1>2. TypeOK /\ ImportInv /\ [ImportNext]_importVars => TypeOK' /\ ImportInv'
    BY TypeStep, ImportStep, ImportStepIsEdit
  <1> QED
    BY <1>1, <1>2, PTL DEF ImportSpec

\* An import changes the tables through the operations of pkg/storage only.
LEMMA ImportRefinesTopology == ImportSpec => Spec
  <1>1. ImportInit => Init
    BY DEF ImportInit
  <1> QED
    BY <1>1, ImportCorrect, ImportStepIsEdit, PTL DEF ImportSpec, Spec

\* Whatever imports do next to other savers, every stored hash is that of the definition
\* beside it and no tool of an import outlives its connection: what is proved of the
\* tables holds of imports (handleOpenAPIImport).
THEOREM ImportsKeepTheTables ==
    ASSUME ForeignKeys PROVE ImportSpec => [](HashPinsDefinition /\ NoOrphans)
  BY ImportRefinesTopology, HashPinned, NoOrphanEndpoints, PTL

\* "Collisions within a single spec are disambiguated": the tools of a document have
\* different names if no operation is named like a suffixed one (uniqueName).
THEOREM DistinctUnlessAmbiguous ==
    ASSUME \A doc \in Documents : ~ Ambiguous(doc) PROVE NamesDistinct
  <1> SUFFICES ASSUME NEW doc \in Documents, NEW i \in DOMAIN doc.ops, NEW j \in DOMAIN doc.ops,
                      Parse(doc)[i].name = Parse(doc)[j].name
               PROVE  i = j
    BY DEF NamesDistinct
  <1>1. DOMAIN doc.ops \subseteq Nat
    BY OperationType
  <1>2. ~ (i < j) /\ ~ (j < i)
    BY NamesApart
  <1> QED
    BY <1>1, <1>2

-----------------------------------------------------------------------------
\* handleOpenAPIImport answers with its summary only when every operation of the
\* document has been saved, under its name and in order.
THEOREM ImportsAreWhole == ImportSpec => ImportIsWhole
  <1>1. ImportInv' => [\A p \in Importers : import'[p].pc = "done" =>
          import'[p].created =
            [i \in DOMAIN import'[p].doc.ops |-> Parse(import'[p].doc)[i].name]]_importVars
    <2> SUFFICES ASSUME ImportInv', NEW p \in Importers, import'[p].pc = "done"
                 PROVE  import'[p].created =
                          [i \in DOMAIN import'[p].doc.ops |-> Parse(import'[p].doc)[i].name]
      OBVIOUS
    <2> DEFINE doc == import'[p].doc
    <2>1. /\ doc \in Documents /\ import'[p].next = Len(doc.ops) + 1
          /\ import'[p].created = [i \in 1 .. import'[p].next - 1 |-> Parse(doc)[i].name]
      BY DEF ImportInv, ImportOK
    <2>2. DOMAIN doc.ops = 1 .. Len(doc.ops) /\ Len(doc.ops) \in Nat
      BY <2>1, OperationType
    <2> HIDE DEF doc
    <2>3. import'[p].next - 1 = Len(doc.ops)
      BY <2>1, <2>2
    <2> QED
      BY <2>1, <2>2, <2>3 DEF doc
  <1> QED
    BY <1>1, ImportCorrect, PTL DEF ImportSpec, ImportIsWhole

\* With foreign keys enforced, an import that stops at a taken name was stopped by a
\* tool that another writer left and that the portal shows: never by its own document,
\* unless that is ambiguous, and never by what is left of a deleted connection.
THEOREM CollisionsHaveACause == ASSUME ForeignKeys PROVE ImportSpec => CollisionHasACause
  <1> DEFINE A == \A p \in Importers : import[p].pc = "saving" /\ import'[p].pc = "collided" =>
                    \/ Ambiguous(import[p].doc)
                    \/ \E f \in Eps :
                          /\ endpoints[f] # NoRow
                          /\ endpoints[f].name = saving[p].row.name
                          /\ connections[endpoints[f].conn] # NoRow
                          /\ \A i \in DOMAIN import[p].created :
                                import[p].created[i] # endpoints[f].name
  <1>1. TypeOK /\ NoOrphans /\ ImportInv /\ [ImportNext]_importVars => [A]_importVars
    <2> SUFFICES ASSUME TypeOK, NoOrphans, ImportInv, ImportNext, NEW p \in Importers,
                        import[p].pc = "saving", import'[p].pc = "collided",
                        ~ Ambiguous(import[p].doc)
                 PROVE  \E f \in Eps :
                          /\ endpoints[f] # NoRow
                          /\ endpoints[f].name = saving[p].row.name
                          /\ connections[endpoints[f].conn] # NoRow
                          /\ \A i \in DOMAIN import[p].created :
                                import[p].created[i] # endpoints[f].name
      OBVIOUS
    <2> DEFINE doc == import[p].doc  n == import[p].next
    <2>1. ImportCollides(p)
      <3>1. import \in [Importers -> ImportRecord] /\ import'[p] # import[p]
        BY DEF ImportInv, ImportType
      <3>2. IdleImport.pc = "idle"
        BY IdleImportType
      <3>3. \A q \in Importers : import[q] \in [pc : ImportPcs, doc : Documents \cup {SomeDocument},
              conn : Conns \cup {NoRow}, next : Nat, created : Seq(ToolNames), disturbed : BOOLEAN]
        BY <3>1 DEF ImportRecord
      <3>4. import' # import
        BY <3>1
      <3>5. ASSUME NEW q \in Importers, NEW d \in Documents,
                   ImportWritesNothing(q, d) \/ ImportConnectionFails(q, d)
            PROVE  FALSE
        BY <3>3, <3>1, <3>5 DEF ImportWritesNothing, ImportConnectionFails
      <3>6. ASSUME NEW q \in Importers, NEW d \in Documents, NEW c \in Conns,
                   ImportConnection(q, d, c)
            PROVE  FALSE
        BY <3>1, <3>3, <3>6 DEF ImportConnection
      <3>7. ASSUME NEW q \in Importers, ImportUpsert(q)
            PROVE  FALSE
        BY <3>1, <3>3, <3>7 DEF ImportUpsert
      <3>8. ASSUME NEW q \in Importers, ImportFails(q) \/ ImportDone(q)
            PROVE  FALSE
        BY <3>1, <3>3, <3>8 DEF ImportFails, ImportDone
      <3>9. ASSUME NEW q \in Importers, ImportReturns(q)
            PROVE  FALSE
        BY <3>1, <3>2, <3>9 DEF ImportReturns
      <3>10. ASSUME NEW q \in Importers, ImportCollides(q)
             PROVE  q = p
        BY <3>1, <3>10 DEF ImportCollides
      <3>11. ASSUME NEW q \in Importers, NEW e \in Eps, ImportLookup(q, e)
             PROVE  FALSE
        BY <3>4, <3>11 DEF ImportLookup
      <3>12. ~ Disturb
        BY DisturbOnly DEF ImportInv
      <3> QED
        BY <3>12, <3>4, <3>5, <3>6, <3>7, <3>8, <3>9, <3>10, <3>11 DEF ImportNext
    <2>2. PICK f \in Eps : endpoints[f] # NoRow /\ endpoints[f].name = saving[p].row.name
      BY <2>1 DEF ImportCollides, ToolNameFree
    <2>3. connections[endpoints[f].conn] # NoRow
      BY <2>2 DEF NoOrphans
    <2>4. /\ saving[p] # Idle /\ n <= Len(doc.ops) /\ doc \in Documents
          /\ n \in 1 .. Len(doc.ops) + 1
          /\ saving[p].row.name = Parse(doc)[n].name
          /\ import[p].created = [i \in 1 .. n - 1 |-> Parse(doc)[i].name]
      BY <2>1 DEF ImportCollides, ImportInv, ImportOK, Tool
    <2>5. Len(doc.ops) \in Nat /\ DOMAIN doc.ops = 1 .. Len(doc.ops)
      BY <2>4, OperationType
    <2>6. ASSUME NEW i \in DOMAIN import[p].created
          PROVE  import[p].created[i] # endpoints[f].name
      <3>1. import[p].created[i] = Parse(doc)[i].name /\ i \in 1 .. n - 1
        BY <2>4
      <3> HIDE DEF doc, n
      <3>2. i \in DOMAIN doc.ops /\ n \in DOMAIN doc.ops /\ i < n
        BY <2>4, <2>5, <3>1
      <3>3. Parse(doc)[i].name # Parse(doc)[n].name
        BY <2>4, <3>2, NamesApart DEF doc
      <3> QED
        BY <2>2, <2>4, <3>1, <3>3
    <2> QED
      BY <2>2, <2>3, <2>6
  <1>2. ImportSpec => []NoOrphans
    BY ImportRefinesTopology, NoOrphanEndpoints, PTL
  <1> HIDE DEF A
  <1>3. ImportSpec => [][A]_importVars
    BY <1>1, <1>2, ImportCorrect, PTL DEF ImportSpec
  <1> QED
    BY <1>3 DEF CollisionHasACause, A

-----------------------------------------------------------------------------
IsOf(row, c) == row # NoRow /\ row.conn = c

\* The tools a table holds of a connection.
SavedIn(eps, c) == {[name |-> eps[e].name, def |-> eps[e].def] : e \in {f \in Eps : IsOf(eps[f], c)}}

\* A connection that only its import touched has its name and the tools of the operations
\* before the next one; the id of no import's save under way is one of them.
Clean(imp, conns, eps, sv) ==
    /\ imp.doc \in Documents
    /\ conns[imp.conn] = [name |-> imp.doc.title]
    /\ SavedIn(eps, imp.conn) = {Parse(imp.doc)[i] : i \in 1 .. imp.next - 1}
    /\ \A q \in Importers : sv[q] # Idle => ~ IsOf(eps[sv[q].ep], imp.conn)

\* No two imports work on one connection or one new id, and the save an import is in is
\* that of the next operation.
PrefixInv ==
    /\ \A p, q \in Importers :
          p # q /\ import[p].conn # NoRow => import[p].conn # import[q].conn
    /\ \A p, q \in Importers :
          p # q /\ saving[p] # Idle /\ saving[q] # Idle => saving[p].ep # saving[q].ep
    /\ \A p \in Importers : import[p].pc = "idle" => import[p].conn = NoRow
    /\ \A p \in Importers : saving[p] # Idle =>
          saving[p].row.conn = import[p].conn /\ saving[p].row.def = Tool(p).def
    /\ \A p \in Importers : import[p].conn # NoRow /\ ~ import[p].disturbed =>
          Clean(import[p], connections, endpoints, saving)

\* What a table holds of a connection depends on the rows of the connection only.
LEMMA SavedSame ==
    ASSUME NEW a, NEW b, NEW c,
           \A e \in Eps : b[e] = a[e] \/ (~ IsOf(a[e], c) /\ ~ IsOf(b[e], c))
    PROVE  SavedIn(b, c) = SavedIn(a, c)
  <1> DEFINE R(t) == {f \in Eps : IsOf(t[f], c)}
  <1>1. R(b) = R(a) /\ \A e \in R(a) : b[e] = a[e]
    OBVIOUS
  <1> HIDE DEF R
  <1>2. {[name |-> b[e].name, def |-> b[e].def] : e \in R(a)}
          = {[name |-> a[e].name, def |-> a[e].def] : e \in R(a)}
    BY <1>1
  <1> QED
    BY <1>1, <1>2 DEF SavedIn, R

\* An upsert under an id that was no row of the connection adds its tool.
LEMMA SavedGrows ==
    ASSUME NEW a, NEW b, NEW c, NEW x \in Eps, ~ IsOf(a[x], c), IsOf(b[x], c),
           \A e \in Eps \ {x} : b[e] = a[e]
    PROVE  SavedIn(b, c) = SavedIn(a, c) \cup {[name |-> b[x].name, def |-> b[x].def]}
  <1> DEFINE R(t) == {f \in Eps : IsOf(t[f], c)}
             T(t, e) == [name |-> t[e].name, def |-> t[e].def]
  <1>1. R(b) = R(a) \cup {x} /\ x \notin R(a) /\ R(a) \subseteq Eps
    OBVIOUS
  <1>2. \A e \in R(a) : T(b, e) = T(a, e)
    BY <1>1
  <1>3. SavedIn(b, c) = {T(b, e) : e \in R(b)} /\ SavedIn(a, c) = {T(a, e) : e \in R(a)}
    BY DEF SavedIn
  <1> HIDE DEF R, T
  <1>4. {T(b, e) : e \in R(b)} = {T(a, e) : e \in R(a)} \cup {T(b, x)}
    BY <1>1, <1>2
  <1> QED
    BY <1>3, <1>4 DEF T

LEMMA PrefixStep ==
    TypeOK /\ ImportInv /\ PrefixInv /\ [ImportNext]_importVars => PrefixInv'
  <1> SUFFICES ASSUME TypeOK, ImportInv, PrefixInv, [ImportNext]_importVars PROVE PrefixInv'
    OBVIOUS
  <1>0. Importers \subseteq Writers
    BY ImportAssumption
  <1>t. /\ import \in [Importers -> ImportRecord]
        /\ \A p \in Importers : import[p] \in [pc : ImportPcs, doc : Documents \cup {SomeDocument},
              conn : Conns \cup {NoRow}, next : Nat, created : Seq(ToolNames), disturbed : BOOLEAN]
        /\ saving \in [Writers -> Pending \cup {Idle}]
        /\ connections \in [Conns -> ConnRow \cup {NoRow}]
        /\ endpoints \in [Eps -> EpRow \cup {NoRow}]
        /\ \A p \in Importers : saving[p] # Idle => saving[p].ep \in Eps
    BY <1>0 DEF ImportInv, ImportType, ImportRecord, TypeOK, Pending
  \* Steps that start no save and, of each import, leave the connection and what is said
  \* of it alone or forget it.
  <1>k. ASSUME \A p \in Importers : saving'[p] = saving[p] \/ saving'[p] = Idle,
               \A p \in Importers :
                  \/ /\ import'[p].conn = import[p].conn /\ import'[p].doc = import[p].doc
                     /\ import'[p].next = import[p].next
                     /\ import'[p].pc = "idle" => import[p].pc = "idle"
                     /\ import[p].conn # NoRow /\ ~ import'[p].disturbed =>
                           /\ ~ import[p].disturbed
                           /\ connections'[import[p].conn] = connections[import[p].conn]
                           /\ \A e \in Eps : endpoints'[e] = endpoints[e]
                                \/ (/\ ~ IsOf(endpoints[e], import[p].conn)
                                    /\ ~ IsOf(endpoints'[e], import[p].conn))
                  \/ import'[p].conn = NoRow /\ saving'[p] = Idle
        PROVE  PrefixInv'
    <2>1. \A p \in Importers : import'[p].conn # NoRow =>
             /\ import'[p].conn = import[p].conn /\ import'[p].doc = import[p].doc
             /\ import'[p].next = import[p].next
      BY <1>k
    <2>2. \A p \in Importers : saving'[p] # Idle =>
             saving'[p] = saving[p] /\ Tool(p)' = Tool(p) /\ import'[p].conn = import[p].conn
      BY <1>k DEF Tool
    <2>4. \A p, q \in Importers :
             p # q /\ import'[p].conn # NoRow => import'[p].conn # import'[q].conn
      BY <2>1 DEF PrefixInv
    <2>5. \A p, q \in Importers :
             p # q /\ saving'[p] # Idle /\ saving'[q] # Idle => saving'[p].ep # saving'[q].ep
      BY <2>2 DEF PrefixInv
    <2>6. \A p \in Importers : import'[p].pc = "idle" => import'[p].conn = NoRow
      BY <1>k DEF PrefixInv
    <2>7. \A p \in Importers : saving'[p] # Idle =>
             saving'[p].row.conn = import'[p].conn /\ saving'[p].row.def = Tool(p)'.def
      BY <2>2 DEF PrefixInv
    <2>8. ASSUME NEW p \in Importers, import'[p].conn # NoRow, ~ import'[p].disturbed
          PROVE  Clean(import'[p], connections', endpoints', saving')
      <3> DEFINE c == import[p].conn
      <3>1. /\ c # NoRow /\ ~ import[p].disturbed /\ connections'[c] = connections[c]
            /\ \A e \in Eps : endpoints'[e] = endpoints[e]
                  \/ (~ IsOf(endpoints[e], c) /\ ~ IsOf(endpoints'[e], c))
        BY <1>k, <2>1, <2>8
      <3>2. Clean(import[p], connections, endpoints, saving)
        BY <3>1 DEF PrefixInv
      <3>3. import'[p].conn = c /\ import'[p].doc = import[p].doc /\ import'[p].next = import[p].next
        BY <2>1, <2>8
      <3> HIDE DEF c
      <3>4. SavedIn(endpoints', c) = SavedIn(endpoints, c)
        BY <3>1, SavedSame
      <3>5. ASSUME NEW q \in Importers, saving'[q] # Idle
            PROVE  ~ IsOf(endpoints'[saving'[q].ep], c)
        <4>1. saving'[q] = saving[q] /\ saving[q].ep \in Eps /\ saving[q] # Idle
          BY <1>t, <2>2, <3>5
        <4>2. ~ IsOf(endpoints[saving[q].ep], c)
          BY <3>2, <4>1 DEF Clean, c
        <4> QED
          BY <3>1, <4>1, <4>2
      <3> QED
        BY <3>1, <3>2, <3>3, <3>4, <3>5 DEF Clean, c
    <2> QED
      BY <2>4, <2>5, <2>6, <2>7, <2>8 DEF PrefixInv
  <1>1. CASE Edits /\ Disturb
    <2>1. \A p \in Importers : saving'[p] = saving[p]
      BY <1>0, <1>1, <1>t DEF Edits, SaveConnection, DeleteConnection, DeleteEndpoint,
                        SaveEndpointLookup, SaveEndpointUpsert, SaveEndpointFails
    <2>2. \A p \in Importers :
                 /\ import'[p].pc = import[p].pc /\ import'[p].doc = import[p].doc
                 /\ import'[p].conn = import[p].conn /\ import'[p].next = import[p].next
                 /\ import[p].conn # NoRow /\ ~ import'[p].disturbed
                       => ~ import[p].disturbed /\ ~ Touched(import[p].conn)
      BY <1>1, DisturbOnly DEF ImportInv
    <2>3. ASSUME NEW c, ~ Touched(c)
          PROVE  /\ connections'[c] = connections[c]
                 /\ \A e \in Eps : endpoints'[e] = endpoints[e]
                      \/ (~ IsOf(endpoints[e], c) /\ ~ IsOf(endpoints'[e], c))
      BY <2>3 DEF Touched, IsOf
    <2> QED
      BY <1>k, <2>1, <2>2, <2>3
  <1>2. ASSUME NEW p \in Importers,
               \/ \E doc \in Documents : ImportWritesNothing(p, doc) \/ ImportConnectionFails(p, doc)
               \/ ImportDone(p) \/ ImportCollides(p) \/ ImportFails(p)
        PROVE  PrefixInv'
    <2>1. PICK pc \in {"previewed", "rejected", "failed", "done", "collided"} :
             import' = [import EXCEPT ![p].pc = pc]
      BY <1>2 DEF ImportWritesNothing, ImportConnectionFails, ImportDone, ImportCollides, ImportFails
    <2>2. /\ UNCHANGED <<connections, endpoints>>
          /\ saving' = saving \/ saving' = [saving EXCEPT ![p] = Idle]
      BY <1>2 DEF ImportWritesNothing, ImportConnectionFails, ImportDone, ImportCollides,
                  ImportFails, SaveEndpointFails, vars
    <2>3. \A q \in Importers :
             /\ import'[q].conn = import[q].conn /\ import'[q].doc = import[q].doc
             /\ import'[q].next = import[q].next /\ import'[q].disturbed = import[q].disturbed
             /\ import'[q].pc = "idle" => import[q].pc = "idle"
      BY <1>t, <2>1
    <2>4. \A q \in Importers : saving'[q] = saving[q] \/ saving'[q] = Idle
      BY <1>0, <1>t, <2>2
    <2> QED
      BY <1>k, <2>2, <2>3, <2>4
  <1>3. ASSUME NEW p \in Importers, ImportReturns(p)
        PROVE  PrefixInv'
    <2>1. /\ UNCHANGED <<connections, endpoints, saving>> /\ import[p].pc # "saving"
          /\ import' = [import EXCEPT ![p] = IdleImport]
      BY <1>3 DEF ImportReturns, vars
    <2>2. saving[p] = Idle
      BY <2>1 DEF ImportInv, ImportOK
    <2>3. /\ import'[p].conn = NoRow /\ saving'[p] = Idle
          /\ \A q \in Importers \ {p} : import'[q] = import[q] /\ saving'[q] = saving[q]
      BY <1>t, <2>1, <2>2, IdleImportType
    <2> QED
      BY <1>k, <2>1, <2>3
  <1>4. ASSUME NEW p \in Importers, NEW doc \in Documents, NEW c \in Conns,
               ImportConnection(p, doc, c)
        PROVE  PrefixInv'
    <2> DEFINE r == [pc |-> "saving", doc |-> doc, conn |-> c, next |-> 1, created |-> <<>>,
                     disturbed |-> FALSE]
    <2>1. /\ import[p].pc = "idle" /\ saving' = saving /\ endpoints' = endpoints
          /\ import' = [import EXCEPT ![p] = r] /\ FreshConn(c)
          /\ connections' = [connections EXCEPT ![c] = [name |-> doc.title]]
      BY <1>4 DEF ImportConnection, SaveConnection
    <2>2. saving[p] = Idle
      BY <2>1 DEF ImportInv, ImportOK
    <2>3. import'[p] = r /\ \A q \in Importers \ {p} : import'[q] = import[q]
      BY <1>t, <2>1
    <2>4. /\ \A e \in Eps : ~ IsOf(endpoints[e], c)
          /\ \A q \in Importers : import[q].conn # c
      BY <2>1 DEF FreshConn, IsOf
    <2>6. Clean(r, connections', endpoints', saving')
      <3>1. SavedIn(endpoints, c) = {}
        BY <2>4 DEF SavedIn
      <3>2. {Parse(doc)[i] : i \in 1 .. 1 - 1} = {}
        OBVIOUS
      <3>3. connections'[c] = [name |-> doc.title]
        BY <1>t, <2>1
      <3> QED
        BY <1>t, <2>1, <2>4, <3>1, <3>2, <3>3 DEF Clean
    <2>7. ASSUME NEW q \in Importers, q # p, import[q].conn # NoRow, ~ import[q].disturbed
          PROVE  Clean(import[q], connections', endpoints', saving')
      <3>1. Clean(import[q], connections, endpoints, saving)
        BY <2>7 DEF PrefixInv
      <3>2. import[q].conn \in Conns /\ import[q].conn # c
        BY <1>t, <2>4, <2>7
      <3> QED
        BY <1>t, <2>1, <3>1, <3>2 DEF Clean
    <2>8. \A q \in Importers : saving'[q] # Idle =>
             q # p /\ Tool(q)' = Tool(q)
      BY <2>1, <2>2, <2>3 DEF Tool
    <2>9. import'[p].conn = c /\ import'[p].pc = "saving" /\ import'[p].disturbed = FALSE
      BY <2>3
    <2>10. \A q, s \in Importers :
             q # s /\ import'[q].conn # NoRow => import'[q].conn # import'[s].conn
      BY <2>3, <2>4, <2>9 DEF PrefixInv
    <2>11. \A q \in Importers : saving'[q] # Idle =>
             saving'[q].row.conn = import'[q].conn /\ saving'[q].row.def = Tool(q)'.def
      BY <2>1, <2>3, <2>8 DEF PrefixInv
    <2>12. \A q \in Importers : import'[q].pc = "idle" => import'[q].conn = NoRow
      BY <2>3, <2>9 DEF PrefixInv
    <2>13. \A q \in Importers : import'[q].conn # NoRow /\ ~ import'[q].disturbed =>
             Clean(import'[q], connections', endpoints', saving')
      BY <2>3, <2>6, <2>7
    <2>14. \A q, s \in Importers :
             q # s /\ saving'[q] # Idle /\ saving'[s] # Idle => saving'[q].ep # saving'[s].ep
      BY <2>1 DEF PrefixInv
    <2> QED
      BY <2>10, <2>11, <2>12, <2>13, <2>14 DEF PrefixInv
  <1>5. ASSUME NEW p \in Importers, NEW e \in Eps, ImportLookup(p, e)
        PROVE  PrefixInv'
    <2>1. /\ UNCHANGED <<connections, endpoints, import>> /\ FreshEp(e) /\ import[p].pc = "saving"
          /\ import[p].next <= Len(import[p].doc.ops)
          /\ SaveEndpointLookup(p, e, import[p].conn, Tool(p).name, Tool(p).def)
      BY <1>5 DEF ImportLookup, SaveEndpointLookup
    <2>2. /\ saving'[p].ep = e /\ saving'[p].row.conn = import[p].conn
          /\ saving'[p].row.def = Tool(p).def
          /\ \A q \in Importers \ {p} : saving'[q] = saving[q]
      BY <1>0, <1>t, <2>1 DEF SaveEndpointLookup
    <2>3. endpoints[e] = NoRow /\ \A q \in Importers : saving[q] # Idle => saving[q].ep # e
      BY <1>0, <2>1 DEF FreshEp
    <2>4. \A q \in Importers : Tool(q)' = Tool(q)
      BY <2>1 DEF Tool
    <2>5. ASSUME NEW q \in Importers, Clean(import[q], connections, endpoints, saving)
          PROVE  Clean(import[q], connections, endpoints, saving')
      BY <2>2, <2>3, <2>5 DEF Clean, IsOf
    <2> QED
      BY <2>1, <2>2, <2>3, <2>4, <2>5 DEF PrefixInv
  <1>6. ASSUME NEW p \in Importers, ImportUpsert(p)
        PROVE  PrefixInv'
    <2> DEFINE c == import[p].conn  x == saving[p].ep  row == saving[p].row
               n == import[p].next  doc == import[p].doc
    <2>1. /\ import[p].pc = "saving" /\ saving[p] # Idle /\ connections' = connections
          /\ saving' = [saving EXCEPT ![p] = Idle]
          /\ endpoints' = [endpoints EXCEPT ![x] = row]
          /\ import' = [import EXCEPT ![p].next = n + 1,
                                     ![p].created = Append(import[p].created, row.name)]
      BY <1>6, <1>t DEF ImportUpsert, SaveEndpointUpsert, Upserted
    <2>2. /\ x \in Eps /\ row \in EpRow /\ row # NoRow /\ row.conn = c /\ c \in Conns
          /\ doc \in Documents /\ n \in 1 .. Len(doc.ops) + 1 /\ n \in DOMAIN doc.ops
          /\ row.name = Tool(p).name /\ row.def = Tool(p).def
      <3>1. x \in Eps /\ row \in EpRow /\ row # NoRow
        BY <1>0, <1>t, <2>1, TopologyAssumption DEF Pending
      <3> QED
        BY <2>1, <3>1, NextTool DEF ImportInv, ImportOK, PrefixInv
    <2>3. /\ saving'[p] = Idle /\ \A q \in Importers \ {p} : saving'[q] = saving[q]
          /\ endpoints'[x] = row /\ \A e \in Eps \ {x} : endpoints'[e] = endpoints[e]
      BY <1>0, <1>t, <2>1, <2>2
    <2>4. /\ import'[p].conn = c /\ import'[p].doc = doc /\ import'[p].next = n + 1
          /\ import'[p].pc = "saving" /\ import'[p].disturbed = import[p].disturbed
          /\ \A q \in Importers \ {p} : import'[q] = import[q]
      BY <1>t, <2>1
    <2>5. \A q \in Importers \ {p} : saving[q] # Idle =>
             saving[q].ep # x /\ saving[q].ep \in Eps /\ Tool(q)' = Tool(q)
      BY <1>t, <2>1, <2>4 DEF PrefixInv, Tool
    <2>6. ASSUME c # NoRow, ~ import[p].disturbed
          PROVE  Clean(import'[p], connections', endpoints', saving')
      <3>2. Clean(import[p], connections, endpoints, saving)
        BY <2>6 DEF PrefixInv
      <3>3. ~ IsOf(endpoints[x], c) /\ IsOf(endpoints'[x], c)
        BY <2>1, <2>2, <2>3, <3>2 DEF Clean, IsOf
      <3>4. Tool(p) = Parse(doc)[n]
        BY DEF Tool
      <3>5. n \in Nat /\ n >= 1
        BY <2>2, OperationType
      <3>6. \A q \in Importers : saving'[q] # Idle => ~ IsOf(endpoints'[saving'[q].ep], c)
        BY <2>3, <2>5, <3>2 DEF Clean
      <3>c. connections'[c] = [name |-> doc.title]
        BY <2>1, <3>2 DEF Clean
      <3>s. SavedIn(endpoints, c) = {Parse(doc)[i] : i \in 1 .. n - 1}
        BY <3>2 DEF Clean
      <3> HIDE DEF c, x, row, n, doc
      <3>7. SavedIn(endpoints', c) =
               SavedIn(endpoints, c) \cup {[name |-> endpoints'[x].name, def |-> endpoints'[x].def]}
        BY <2>2, <2>3, <3>3, SavedGrows
      <3>8. [name |-> endpoints'[x].name, def |-> endpoints'[x].def] = Parse(doc)[n]
        BY <2>2, <2>3, <3>4 DEF Parse
      <3>9. 1 .. (n + 1) - 1 = (1 .. n - 1) \cup {n}
        BY <3>5
      <3>10. {Parse(doc)[i] : i \in 1 .. (n + 1) - 1}
                = {Parse(doc)[i] : i \in 1 .. n - 1} \cup {Parse(doc)[n]}
        BY <3>9
      <3>11. SavedIn(endpoints', c) = {Parse(doc)[i] : i \in 1 .. (n + 1) - 1}
        BY <3>7, <3>8, <3>10, <3>s
      <3> QED
        BY <2>2, <2>4, <3>6, <3>11, <3>c DEF Clean
    <2>7. ASSUME NEW q \in Importers, q # p, import[q].conn # NoRow, ~ import[q].disturbed
          PROVE  Clean(import'[q], connections', endpoints', saving')
      <3> DEFINE d == import[q].conn
      <3>1. Clean(import[q], connections, endpoints, saving)
        BY <2>7 DEF PrefixInv
      <3>2. d # c
        BY <2>7 DEF PrefixInv
      <3>3. ~ IsOf(endpoints[x], d) /\ ~ IsOf(endpoints'[x], d)
        BY <2>1, <2>2, <2>3, <3>1, <3>2 DEF Clean, IsOf
      <3>4. \A e \in Eps : endpoints'[e] = endpoints[e]
                              \/ (~ IsOf(endpoints[e], d) /\ ~ IsOf(endpoints'[e], d))
        BY <2>3, <3>3
      <3>5. SavedIn(endpoints', d) = SavedIn(endpoints, d)
        <4> HIDE DEF d
        <4> QED
          BY <3>4, SavedSame
      <3>6. \A s \in Importers : saving'[s] # Idle => ~ IsOf(endpoints'[saving'[s].ep], d)
        BY <2>3, <2>5, <3>1 DEF Clean
      <3>7. import'[q] = import[q] /\ connections' = connections
        BY <2>1, <2>4, <2>7
      <3> QED
        BY <3>1, <3>5, <3>6, <3>7 DEF Clean
    <2>8. \A q, s \in Importers :
             q # s /\ import'[q].conn # NoRow => import'[q].conn # import'[s].conn
      BY <2>4 DEF PrefixInv
    <2>9. \A q, s \in Importers :
             q # s /\ saving'[q] # Idle /\ saving'[s] # Idle => saving'[q].ep # saving'[s].ep
      BY <2>3 DEF PrefixInv
    <2>10. \A q \in Importers : saving'[q] # Idle =>
             saving'[q].row.conn = import'[q].conn /\ saving'[q].row.def = Tool(q)'.def
      BY <2>3, <2>4, <2>5 DEF PrefixInv
    <2>11. \A q \in Importers : import'[q].pc = "idle" => import'[q].conn = NoRow
      BY <2>4 DEF PrefixInv
    <2> QED
      BY <2>4, <2>6, <2>7, <2>8, <2>9, <2>10, <2>11 DEF PrefixInv
  <1>7. CASE UNCHANGED importVars
    BY <1>7 DEF importVars, PrefixInv, Tool
  <1> QED
    BY <1>1, <1>2, <1>3, <1>4, <1>5, <1>6, <1>7 DEF ImportNext

\* However many imports and other savers run, an import that ends half-way, or is still
\* under way, leaves exactly its connection, whose name refuses a second import of the
\* title, and the tools of the operations it got to, unless others edited them.
THEOREM ImportsLeaveTheirPrefix == ImportSpec => []ImportLeavesPrefix
  <1>1. ImportInit => PrefixInv
    <2> SUFFICES ASSUME ImportInit PROVE PrefixInv
      OBVIOUS
    <2>1. \A p \in Importers : import[p].conn = NoRow /\ saving[p] = Idle
      BY IdleImportType, ImportAssumption DEF ImportInit, Init
    <2> QED
      BY <2>1 DEF PrefixInv
  <1>2. TypeOK /\ ImportInv /\ PrefixInv => ImportLeavesPrefix
    <2> SUFFICES ASSUME TypeOK, ImportInv, PrefixInv, NEW p \in Importers,
                        import[p].conn # NoRow, ~ import[p].disturbed
                 PROVE  /\ \A c \in Conns \ {import[p].conn} : ~ ConnNameFree(c, import[p].doc.title)
                        /\ {[name |-> endpoints[e].name, def |-> endpoints[e].def] :
                               e \in RowsOf(import[p].conn)}
                              = {Parse(import[p].doc)[i] : i \in 1 .. import[p].next - 1}
      BY DEF ImportLeavesPrefix
    <2>1. Clean(import[p], connections, endpoints, saving)
      BY DEF PrefixInv
    <2>2. import[p].conn \in Conns
      BY DEF ImportInv, ImportType, ImportRecord
    <2>3. connections[import[p].conn] # NoRow /\ connections[import[p].conn].name = import[p].doc.title
      <3>1. connections[import[p].conn] = [name |-> import[p].doc.title]
        BY <2>1 DEF Clean
      <3>2. import[p].doc.title \in ConnNames
        BY <2>1, OperationType DEF Clean
      <3> QED
        BY <3>1, <3>2, TopologyAssumption DEF ConnRow
    <2> QED
      BY <2>1, <2>2, <2>3 DEF Clean, SavedIn, RowsOf, IsOf, ConnNameFree
  <1> QED
    BY <1>1, <1>2, PrefixStep, ImportCorrect, PTL DEF ImportSpec

-----------------------------------------------------------------------------
(* The topology caches.                                                      *)

\* The idle state of a goroutine is well-formed.
LEMMA IdleProcType == IdleProc \in Local
  BY CacheAssumption DEF IdleProc, Local, Tables, Revs

\* What a purge does to the goroutines keeps them well-formed.
LEMMA PurgeType ==
    ASSUME CacheTypeOK, NEW p \in Procs, NEW t \in Tables, NEW next \in Local,
           Purge(p, t, next)
    PROVE  /\ proc' \in [Procs -> Local]
           /\ cache' \in [Replicas -> [Tables -> Entry \cup {NoEntry}]]
           /\ purgedRev' \in [Replicas -> [Tables -> Revs]]
  <1>1. Home[p] \in Replicas
    BY CacheAssumption
  <1>2. cache' \in [Replicas -> [Tables -> Entry \cup {NoEntry}]]
    BY <1>1 DEF Purge, CacheTypeOK
  <1>3. proc[p].rev[t] \in Revs
    BY DEF CacheTypeOK, Local
  <1>4. purgedRev' \in [Replicas -> [Tables -> Revs]]
    BY <1>1, <1>3 DEF Purge, CacheTypeOK
  <1>5. \A q \in Procs : [proc[q] EXCEPT !.overtaken = TRUE] \in Local
    BY DEF CacheTypeOK, Local
  <1>6. proc' \in [Procs -> Local]
    BY <1>5 DEF Purge, CacheTypeOK
  <1> QED
    BY <1>2, <1>4, <1>6

-----------------------------------------------------------------------------
\* No snapshot is from the future; without it the time a fill took, which
\* TTLCache.Set records, might not be a natural number.
ReadsInPast == \A p \in Procs : proc[p].readAt <= now

CacheTypeInv == CacheTypeOK /\ ReadsInPast

\* Every step of a reader, a writer, the janitor, a restart or the clock keeps
\* the state well-formed.
LEMMA CacheTypeStep == CacheTypeInv /\ [CacheNext]_cacheVars => CacheTypeInv'
  <1> SUFFICES ASSUME CacheTypeInv, [CacheNext]_cacheVars PROVE CacheTypeInv'
    OBVIOUS
  <1>00. running' = running
    BY DEF CacheNext, cacheVars, Miss, Select, ReadFails, Set, Commit, PurgeConnections,
       PurgeEndpoints, EvictExpired, Restart, Tick
  <1> USE <1>00 DEF CacheTypeInv
  <1>0. IdleProc \in Local /\ IdleProc.readAt = 0 /\ now \in Nat
    BY IdleProcType DEF IdleProc, CacheTypeOK
  <1>1. ASSUME NEW p \in Procs, NEW t \in Tables, Miss(p, t)
        PROVE  CacheTypeInv'
    <2> DEFINE q == [IdleProc EXCEPT !.pc = "missed", !.table = t]
    <2>1. q \in Local /\ q.readAt <= now
      <3>1. q \in Local
        BY <1>0 DEF Local
      <3>2. q.readAt = IdleProc.readAt
        BY <1>0 DEF Local
      <3> QED
        BY <1>0, <3>1, <3>2
    <2> HIDE DEF q
    <2>2. proc' = [proc EXCEPT ![p] = q]
      BY <1>1 DEF Miss, q
    <2>3. CacheTypeOK'
      BY <1>1, <2>1, <2>2 DEF Miss, CacheTypeOK
    <2>4. ReadsInPast'
      BY <1>1, <2>1, <2>2 DEF Miss, CacheTypeOK, ReadsInPast
    <2> QED
      BY <2>3, <2>4
  <1>2. ASSUME NEW p \in Procs, Select(p)
        PROVE  CacheTypeInv'
    <2> DEFINE q == [proc[p] EXCEPT !.pc = "read", !.readAt = now,
                                    !.rev[proc[p].table] = current[proc[p].table]]
    <2>1. proc[p] \in Local /\ now \in Nat /\ current[proc[p].table] \in Revs
      BY DEF CacheTypeOK, Local
    <2>2. q \in Local /\ q.readAt <= now
      <3>1. q \in Local
        BY <2>1 DEF Local
      <3>2. q.readAt = now
        BY <2>1 DEF Local
      <3> QED
        BY <2>1, <3>1, <3>2
    <2>3. proc' = [proc EXCEPT ![p] = q]
      BY <1>2 DEF Select, CacheTypeOK, Local
    <2> HIDE DEF q
    <2>4. CacheTypeOK'
      BY <1>2, <2>2, <2>3 DEF Select, CacheTypeOK
    <2>5. ReadsInPast'
      BY <1>2, <2>2, <2>3 DEF Select, CacheTypeOK, ReadsInPast
    <2> QED
      BY <2>4, <2>5
  <1>3. ASSUME NEW p \in Procs, ReadFails(p)
        PROVE  CacheTypeInv'
    <2>1. CacheTypeOK'
      BY <1>0, <1>3 DEF ReadFails, CacheTypeOK
    <2>2. ReadsInPast'
      BY <1>0, <1>3 DEF ReadFails, CacheTypeOK, ReadsInPast
    <2> QED
      BY <2>1, <2>2
  <1>4. ASSUME NEW p \in Procs, Set(p)
        PROVE  CacheTypeInv'
    <2> DEFINE t == proc[p].table
               e == [rev |-> proc[p].rev[t], took |-> now - proc[p].readAt,
                     expires |-> now + TTL, overtaken |-> proc[p].overtaken]
    <2>1. proc[p] \in Local /\ t \in Tables /\ Home[p] \in Replicas
      BY CacheAssumption DEF CacheTypeOK, Local
    <2>2. now - proc[p].readAt \in Nat /\ now + TTL \in Nat
      BY <1>0, <2>1, CacheAssumption DEF ReadsInPast, Local
    <2>3. e \in Entry
      BY <2>1, <2>2 DEF Entry, Local
    <2>4. cache' = cache \/ cache' = [cache EXCEPT ![Home[p]][t] = e]
      BY <1>4 DEF Set
    <2> HIDE DEF e, t
    <2>5. cache' \in [Replicas -> [Tables -> Entry \cup {NoEntry}]]
      <3>1. CASE cache' = cache
        BY <3>1 DEF CacheTypeOK
      <3>2. CASE cache' = [cache EXCEPT ![Home[p]][t] = e]
        BY <2>1, <2>3, <3>2 DEF CacheTypeOK
      <3> QED
        BY <2>4, <3>1, <3>2
    <2>6. CacheTypeOK'
      BY <1>0, <1>4, <2>5 DEF Set, CacheTypeOK
    <2>7. ReadsInPast'
      BY <1>0, <1>4 DEF Set, CacheTypeOK, ReadsInPast
    <2> QED
      BY <2>6, <2>7
  <1>5. ASSUME NEW p \in Procs, NEW written \in (SUBSET Tables) \ {{}},
               Commit(p, written)
        PROVE  CacheTypeInv'
    <2> DEFINE rev == [t \in Tables |-> IF t \in written THEN current[t] + 1 ELSE 0]
               q   == [IdleProc EXCEPT !.pc = "committed", !.rev = rev]
    <2>1. \A t \in written : current[t] + 1 \in Revs
      <3>1. \A t \in written : current[t] \in 0 .. MaxRev /\ current[t] < MaxRev
        BY <1>5 DEF Commit, CacheTypeOK, Revs
      <3> QED
        BY <3>1, CacheAssumption DEF Revs
    <2>2. rev \in [Tables -> Revs]
      BY <2>1, CacheAssumption DEF Revs
    <2> HIDE DEF rev
    <2>3. q \in Local /\ q.readAt <= now
      <3>1. q \in Local
        BY <1>0, <2>2 DEF Local
      <3>2. q.readAt = IdleProc.readAt
        BY <1>0 DEF Local
      <3> QED
        BY <1>0, <3>1, <3>2
    <2> HIDE DEF q
    <2>4. proc' = [proc EXCEPT ![p] = q]
      BY <1>5 DEF Commit, q, rev
    <2>5. current' \in [Tables -> Revs]
      BY <1>5, <2>1 DEF Commit, CacheTypeOK
    <2>6. supersededAt' \in [Tables -> [Revs -> Nat]]
      BY <1>5 DEF Commit, CacheTypeOK
    <2>7. CacheTypeOK'
      BY <1>5, <2>3, <2>4, <2>5, <2>6 DEF Commit, CacheTypeOK
    <2>8. ReadsInPast'
      BY <1>5, <2>3, <2>4 DEF Commit, CacheTypeOK, ReadsInPast
    <2> QED
      BY <2>7, <2>8
  <1>6. ASSUME NEW p \in Procs, NEW t \in Tables, NEW next \in Local,
               next.readAt <= now, Purge(p, t, next),
               UNCHANGED <<now, current, supersededAt>>
        PROVE  CacheTypeInv'
    <2>1. CacheTypeOK'
      BY <1>6, PurgeType DEF CacheTypeOK
    <2>2. \A q \in Procs : [proc[q] EXCEPT !.overtaken = TRUE].readAt = proc[q].readAt
      BY DEF CacheTypeOK, Local
    <2>3. ReadsInPast'
      BY <1>6, <2>2 DEF Purge, ReadsInPast
    <2> QED
      BY <2>1, <2>3
  <1>7. ASSUME NEW p \in Procs, PurgeConnections(p)
        PROVE  CacheTypeInv'
    <2> DEFINE next == [proc[p] EXCEPT !.pc = "purging"]
    <2>1. proc[p] \in Local /\ proc[p].readAt <= now
      BY DEF CacheTypeOK, ReadsInPast
    <2>2. next \in Local /\ next.readAt <= now
      BY <2>1 DEF Local
    <2>3. Purge(p, "connections", next) /\ UNCHANGED <<now, current, supersededAt>>
      BY <1>7 DEF PurgeConnections
    <2> HIDE DEF next
    <2> QED
      BY <1>6, <2>2, <2>3 DEF Tables
  <1>8. ASSUME NEW p \in Procs, PurgeEndpoints(p)
        PROVE  CacheTypeInv'
    <2>1. Purge(p, "endpoints", IdleProc) /\ UNCHANGED <<now, current, supersededAt>>
      BY <1>8 DEF PurgeEndpoints
    <2>2. IdleProc.readAt <= now
      BY <1>0
    <2> QED
      BY <1>0, <1>6, <2>1, <2>2 DEF Tables
  <1>9. ASSUME NEW r \in Replicas, NEW t \in Tables, EvictExpired(r, t)
        PROVE  CacheTypeInv'
    BY <1>9 DEF EvictExpired, CacheTypeOK, ReadsInPast
  <1>10. ASSUME NEW r \in Replicas, Restart(r)
         PROVE  CacheTypeInv'
    <2>1. CacheTypeOK'
      BY <1>0, <1>10 DEF Restart, CacheTypeOK
    <2>2. ReadsInPast'
      BY <1>0, <1>10 DEF Restart, CacheTypeOK, ReadsInPast
    <2> QED
      BY <2>1, <2>2
  <1>11. CASE Tick
    <2>1. CacheTypeOK'
      BY <1>11 DEF Tick, CacheTypeOK
    <2>2. \A p \in Procs : proc[p].readAt \in Nat
      BY DEF CacheTypeOK, Local
    <2>3. ReadsInPast'
      BY <1>0, <1>11, <2>2 DEF Tick, ReadsInPast
    <2> QED
      BY <2>1, <2>3
  <1>12. CASE UNCHANGED cacheVars
    BY <1>12 DEF CacheTypeOK, ReadsInPast, cacheVars
  <1> QED
    BY <1>1, <1>2, <1>3, <1>4, <1>5, <1>7, <1>8, <1>9, <1>10, <1>11, <1>12 DEF CacheNext

\* The caches, the clock and the goroutines of every replica stay well-formed.
THEOREM CacheTypeCorrect == CacheSpec => []CacheTypeInv
  <1>1. CacheInit => CacheTypeInv
    <2> SUFFICES ASSUME CacheInit PROVE CacheTypeInv
      OBVIOUS
    <2>1. 0 \in Revs
      BY CacheAssumption DEF Revs
    <2>2. CacheTypeOK
      BY <2>1, IdleProcType DEF CacheInit, CacheTypeOK
    <2>3. ReadsInPast
      BY DEF CacheInit, ReadsInPast, IdleProc
    <2> QED
      BY <2>2, <2>3 DEF CacheTypeInv
  <1> QED
    BY <1>1, CacheTypeStep, PTL DEF CacheSpec

-----------------------------------------------------------------------------
\* Revision v of table t was current at time a or later: it still is, or its
\* successor committed no earlier than a.
CurrentAt(t, v, a) == v <= current[t] /\ (v < current[t] => supersededAt[t][v] >= a)

\* BoundedStaleness is about entries; it is inductive once the same is known of
\* the snapshots not yet stored, and once an entry's expiry is tied to the
\* time it was stored (expires - TTL) and read (expires - TTL - took).
SnapshotsRecent ==
    \A p \in Procs : proc[p].pc = "read" =>
        CurrentAt(proc[p].table, proc[p].rev[proc[p].table], proc[p].readAt)

EntryRecent(r, t) ==
    cache[r][t] # NoEntry =>
        /\ cache[r][t].expires <= now + TTL
        /\ CurrentAt(t, cache[r][t].rev, cache[r][t].expires - TTL - cache[r][t].took)

EntriesRecent == \A r \in Replicas, t \in Tables : EntryRecent(r, t)

StaleInv == SnapshotsRecent /\ EntriesRecent

\* A commit supersedes the current revision now: what was current at some time
\* up to now still was.
LEMMA CommitKeepsCurrentAt ==
    ASSUME CacheTypeOK, NEW p \in Procs, NEW written \in SUBSET Tables, Commit(p, written),
           NEW t \in Tables, NEW v \in Revs, NEW a \in Int, a <= now,
           CurrentAt(t, v, a)
    PROVE  CurrentAt(t, v, a)'
  <1>1. /\ current[t] \in Nat /\ v \in Nat /\ now \in Nat
        /\ supersededAt[t] \in [Revs -> Nat]
    BY CacheAssumption DEF CacheTypeOK, Revs
  <1>2. CASE t \in written
    <2>1. current'[t] = current[t] + 1
      BY <1>2 DEF Commit
    <2>2. supersededAt'[t] = [supersededAt[t] EXCEPT ![current[t]] = now]
      BY <1>2 DEF Commit
    <2>3. current[t] \in Revs
      BY DEF CacheTypeOK
    <2> QED
      BY <1>1, <2>1, <2>2, <2>3 DEF CurrentAt
  <1>3. CASE t \notin written
    BY <1>3 DEF Commit, CurrentAt
  <1> QED
    BY <1>2, <1>3

LEMMA StaleStep == CacheTypeInv /\ StaleInv /\ [CacheNext]_cacheVars => StaleInv'
  <1> SUFFICES ASSUME CacheTypeInv, StaleInv, [CacheNext]_cacheVars PROVE StaleInv'
    OBVIOUS
  <1> USE DEF CacheTypeInv, StaleInv
  <1>0. /\ IdleProc \in Local /\ IdleProc.pc = "idle"
        /\ now \in Nat /\ TTL \in Nat
    BY IdleProcType, CacheAssumption DEF IdleProc, CacheTypeOK
  <1>a. \A p \in Procs :
          /\ proc[p].table \in Tables /\ proc[p].readAt \in Nat /\ proc[p].readAt <= now
          /\ proc[p].rev[proc[p].table] \in Revs
    BY DEF CacheTypeOK, Local, ReadsInPast
  <1>b. \A r \in Replicas, t \in Tables : cache[r][t] # NoEntry =>
          /\ cache[r][t].rev \in Revs
          /\ cache[r][t].took \in Nat /\ cache[r][t].expires \in Nat
    BY DEF CacheTypeOK, Entry
  \* Steps that add no snapshot and no entry, and move neither table nor clock.
  <1>c. ASSUME UNCHANGED <<now, current, supersededAt>>,
               \A p \in Procs : proc'[p].pc = "read" =>
                  /\ proc[p].pc = "read" /\ proc'[p].table = proc[p].table
                  /\ proc'[p].rev = proc[p].rev /\ proc'[p].readAt = proc[p].readAt,
               \A r \in Replicas, t \in Tables :
                  cache'[r][t] # NoEntry => cache'[r][t] = cache[r][t]
        PROVE  StaleInv'
    <2>1. SnapshotsRecent'
      BY <1>c DEF SnapshotsRecent, CurrentAt
    <2>2. EntriesRecent'
      BY <1>c DEF EntriesRecent, EntryRecent, CurrentAt
    <2> QED
      BY <2>1, <2>2
  <1>1. ASSUME NEW p \in Procs, NEW t \in Tables, Miss(p, t)
        PROVE  StaleInv'
    <2>1. [IdleProc EXCEPT !.pc = "missed", !.table = t].pc # "read"
      BY <1>0 DEF Local
    <2> QED
      BY <1>1, <1>c, <2>1 DEF Miss, CacheTypeOK
  <1>2. ASSUME NEW p \in Procs, Select(p)
        PROVE  StaleInv'
    <2>1. EntriesRecent'
      BY <1>2 DEF Select, EntriesRecent, EntryRecent, CurrentAt
    <2>2. ASSUME NEW q \in Procs, proc'[q].pc = "read"
          PROVE  CurrentAt(proc[q].table, proc[q].rev[proc[q].table], proc[q].readAt)'
      <3>1. CASE q = p
        <4>1. /\ proc'[p].table = proc[p].table /\ proc'[p].readAt = now
              /\ proc'[p].rev[proc[p].table] = current[proc[p].table]
          BY <1>2, <1>a DEF Select, CacheTypeOK, Local
        <4>2. current[proc[p].table] \in Nat
          BY <1>a, CacheAssumption DEF CacheTypeOK, Revs
        <4> QED
          BY <1>2, <3>1, <4>1, <4>2 DEF Select, CurrentAt
      <3>2. CASE q # p
        BY <1>2, <2>2, <3>2 DEF Select, SnapshotsRecent, CurrentAt, CacheTypeOK
      <3> QED
        BY <3>1, <3>2
    <2> QED
      BY <2>1, <2>2 DEF SnapshotsRecent
  <1>3. ASSUME NEW p \in Procs, ReadFails(p)
        PROVE  StaleInv'
    BY <1>0, <1>3, <1>c DEF ReadFails, CacheTypeOK
  <1>4. ASSUME NEW p \in Procs, Set(p)
        PROVE  StaleInv'
    <2>1. SnapshotsRecent'
      BY <1>0, <1>4 DEF Set, SnapshotsRecent, CurrentAt, CacheTypeOK
    <2>2. ASSUME NEW r \in Replicas, NEW t \in Tables
          PROVE  EntryRecent(r, t)'
      <3> DEFINE e == [rev |-> proc[p].rev[proc[p].table],
                       took |-> now - proc[p].readAt,
                       expires |-> now + TTL, overtaken |-> proc[p].overtaken]
      <3>1. CASE cache'[r][t] = cache[r][t]
        BY <1>4, <2>2, <3>1 DEF Set, EntriesRecent, EntryRecent, CurrentAt
      <3>2. CASE cache'[r][t] = e /\ t = proc[p].table
        <4>1. CurrentAt(t, proc[p].rev[t], proc[p].readAt)
          BY <1>4, <3>2 DEF Set, SnapshotsRecent
        <4>2. /\ cache'[r][t].rev = proc[p].rev[t]
              /\ cache'[r][t].expires = now + TTL
              /\ cache'[r][t].expires - TTL - cache'[r][t].took = proc[p].readAt
          BY <1>0, <1>a, <3>2
        <4>3. UNCHANGED <<now, current, supersededAt>>
          BY <1>4 DEF Set
        <4> QED
          BY <1>0, <4>1, <4>2, <4>3 DEF EntryRecent, CurrentAt
      <3>3. \/ cache'[r][t] = cache[r][t]
            \/ cache'[r][t] = e /\ t = proc[p].table
        BY <1>4, <1>a, CacheAssumption DEF Set, CacheTypeOK
      <3> QED
        BY <3>1, <3>2, <3>3
    <2> QED
      BY <2>1, <2>2 DEF EntriesRecent
  <1>5. ASSUME NEW p \in Procs, NEW written \in (SUBSET Tables) \ {{}},
               Commit(p, written)
        PROVE  StaleInv'
    <2>1. ASSUME NEW q \in Procs, proc'[q].pc = "read"
          PROVE  CurrentAt(proc[q].table, proc[q].rev[proc[q].table], proc[q].readAt)'
      <3>1. q # p
        <4>1. proc'[p].pc = "committed"
          BY <1>0, <1>5 DEF Commit, CacheTypeOK, Local
        <4> QED
          BY <2>1, <4>1
      <3>2. proc'[q] = proc[q]
        BY <1>5, <3>1 DEF Commit, CacheTypeOK
      <3>3. CurrentAt(proc[q].table, proc[q].rev[proc[q].table], proc[q].readAt)
        BY <2>1, <3>2 DEF SnapshotsRecent
      <3> DEFINE t == proc[q].table  v == proc[q].rev[t]  a == proc[q].readAt
      <3>4. t \in Tables /\ v \in Revs /\ a \in Int /\ a <= now
        BY <1>a
      <3>5. t' = t /\ v' = v /\ a' = a
        BY <3>2
      <3> HIDE DEF t, v, a
      <3>6. CurrentAt(t, v, a)
        BY <3>3 DEF t, v, a
      <3>7. /\ v <= current'[t]
            /\ v < current'[t] => supersededAt'[t][v] >= a
        BY <1>5, <3>4, <3>5, <3>6, CommitKeepsCurrentAt DEF CurrentAt
      <3> QED
        BY <3>2, <3>7 DEF CurrentAt, t, v, a
    <2>2. ASSUME NEW r \in Replicas, NEW t \in Tables
          PROVE  EntryRecent(r, t)'
      <3>1. /\ cache' = cache /\ now' = now
        BY <1>5 DEF Commit
      <3>2. CASE cache[r][t] # NoEntry
        <4> DEFINE v == cache[r][t].rev
                   a == cache[r][t].expires - TTL - cache[r][t].took
        <4>1. v \in Revs /\ a \in Int /\ a <= now /\ CurrentAt(t, v, a)
          BY <1>0, <1>b, <3>2 DEF EntriesRecent, EntryRecent
        <4>2. v' = v /\ a' = a
          BY <3>1
        <4> HIDE DEF v, a
        <4>3. /\ v <= current'[t]
              /\ v < current'[t] => supersededAt'[t][v] >= a
          BY <1>5, <4>1, <4>2, CommitKeepsCurrentAt DEF CurrentAt
        <4> QED
          BY <3>1, <3>2, <4>3 DEF EntriesRecent, EntryRecent, CurrentAt, v, a
      <3>3. CASE cache[r][t] = NoEntry
        BY <3>1, <3>3 DEF EntryRecent
      <3> QED
        BY <3>2, <3>3
    <2> QED
      BY <2>1, <2>2 DEF SnapshotsRecent, EntriesRecent
  <1>6. ASSUME NEW p \in Procs, NEW t \in Tables, NEW next, next.pc # "read",
               Purge(p, t, next), UNCHANGED <<now, current, supersededAt>>
        PROVE  StaleInv'
    <2>1. \A q \in Procs :
             LET o == [proc[q] EXCEPT !.overtaken = TRUE]
             IN  o.pc = proc[q].pc /\ o.table = proc[q].table
                 /\ o.rev = proc[q].rev /\ o.readAt = proc[q].readAt
      BY DEF CacheTypeOK, Local
    <2>2. \A r \in Replicas, u \in Tables :
             cache'[r][u] # NoEntry => cache'[r][u] = cache[r][u]
      BY <1>6 DEF Purge, CacheTypeOK
    <2>3. \A q \in Procs : proc'[q].pc = "read" =>
             /\ proc[q].pc = "read" /\ proc'[q].table = proc[q].table
             /\ proc'[q].rev = proc[q].rev /\ proc'[q].readAt = proc[q].readAt
      BY <1>6, <2>1 DEF Purge
    <2> QED
      BY <1>6, <1>c, <2>2, <2>3
  <1>7. ASSUME NEW p \in Procs, PurgeConnections(p)
        PROVE  StaleInv'
    <2>1. [proc[p] EXCEPT !.pc = "purging"].pc # "read"
      BY DEF CacheTypeOK, Local
    <2> QED
      BY <1>6, <1>7, <2>1 DEF PurgeConnections, Tables
  <1>8. ASSUME NEW p \in Procs, PurgeEndpoints(p)
        PROVE  StaleInv'
    BY <1>0, <1>6, <1>8 DEF PurgeEndpoints, Tables
  <1>9. ASSUME NEW r \in Replicas, NEW t \in Tables, EvictExpired(r, t)
        PROVE  StaleInv'
    BY <1>9, <1>c DEF EvictExpired, CacheTypeOK
  <1>10. ASSUME NEW r \in Replicas, Restart(r)
         PROVE  StaleInv'
    BY <1>0, <1>10, <1>c DEF Restart, CacheTypeOK
  <1>11. CASE Tick
    <2>1. SnapshotsRecent'
      BY <1>11 DEF Tick, SnapshotsRecent, CurrentAt
    <2>2. EntriesRecent'
      BY <1>0, <1>b, <1>11 DEF Tick, EntriesRecent, EntryRecent, CurrentAt
    <2> QED
      BY <2>1, <2>2
  <1>12. CASE UNCHANGED cacheVars
    BY <1>12, <1>c DEF cacheVars
  <1> QED
    BY <1>1, <1>2, <1>3, <1>4, <1>5, <1>7, <1>8, <1>9, <1>10, <1>11, <1>12 DEF CacheNext

\* On every replica a superseded topology is served for at most TTL plus the
\* time its reader took from the SELECT to TTLCache.Set.
THEOREM StalenessIsBounded == CacheSpec => []BoundedStaleness
  <1>1. CacheInit => StaleInv
    BY DEF CacheInit, StaleInv, SnapshotsRecent, EntriesRecent, EntryRecent, IdleProc
  <1>2. CacheTypeInv /\ StaleInv => BoundedStaleness
    <2> SUFFICES ASSUME CacheTypeInv, StaleInv, NEW r \in Replicas, NEW t \in Tables,
                        Hit(r, t), cache[r][t].rev < current[t]
                 PROVE  now - supersededAt[t][cache[r][t].rev] <= TTL + cache[r][t].took
      BY DEF BoundedStaleness
    <2>1. /\ cache[r][t].rev \in Revs /\ cache[r][t].took \in Nat
          /\ cache[r][t].expires \in Nat /\ now \in Nat /\ TTL \in Nat
      BY CacheAssumption DEF CacheTypeInv, CacheTypeOK, Entry, Hit
    <2>2. supersededAt[t][cache[r][t].rev] \in Nat
      BY <2>1 DEF CacheTypeInv, CacheTypeOK
    <2>3. EntryRecent(r, t)
      BY DEF StaleInv, EntriesRecent
    <2>4. supersededAt[t][cache[r][t].rev] >= cache[r][t].expires - TTL - cache[r][t].took
      BY <2>3 DEF EntryRecent, Hit, CurrentAt
    <2> QED
      BY <2>1, <2>2, <2>4 DEF Hit
  <1> QED
    BY <1>1, <1>2, StaleStep, CacheTypeCorrect, PTL DEF CacheSpec

-----------------------------------------------------------------------------
\* OwnWritesVisible needs to know that a purge is for a revision already
\* committed, so that a SELECT after the purge cannot miss it, and that a
\* snapshot not yet stored is new enough unless a purge overtook it.
PurgedCommitted ==
    /\ \A r \in Replicas, t \in Tables : purgedRev[r][t] <= current[t]
    /\ \A p \in Procs, t \in Tables :
          proc[p].pc \in {"committed", "purging"} => proc[p].rev[t] <= current[t]

SnapshotsSeeOwnWrites ==
    \A p \in Procs : proc[p].pc = "read" /\ ~ proc[p].overtaken
        => proc[p].rev[proc[p].table] >= purgedRev[Home[p]][proc[p].table]

OwnWritesInv == PurgedCommitted /\ SnapshotsSeeOwnWrites /\ OwnWritesVisible

LEMMA OwnStep == CacheTypeOK /\ OwnWritesInv /\ [CacheNext]_cacheVars => OwnWritesInv'
  <1> SUFFICES ASSUME CacheTypeOK, OwnWritesInv, [CacheNext]_cacheVars PROVE OwnWritesInv'
    OBVIOUS
  <1> USE DEF OwnWritesInv
  <1>0. IdleProc \in Local /\ IdleProc.pc = "idle"
    BY IdleProcType DEF IdleProc
  <1>a. /\ \A t \in Tables : current[t] \in Nat
        /\ \A r \in Replicas, t \in Tables : purgedRev[r][t] \in Nat
        /\ \A p \in Procs, t \in Tables : proc[p].rev[t] \in Nat
        /\ \A p \in Procs : proc[p].table \in Tables /\ Home[p] \in Replicas
    BY CacheAssumption DEF CacheTypeOK, Local, Revs
  \* Steps that commit, purge, read and store nothing.
  <1>b. ASSUME UNCHANGED <<current, purgedRev>>,
               \A p \in Procs : proc'[p] = proc[p]
                  \/ proc'[p].pc \notin {"read", "committed", "purging"},
               \A r \in Replicas, t \in Tables :
                  cache'[r][t] # NoEntry => cache'[r][t] = cache[r][t]
        PROVE  OwnWritesInv'
    <2>1. PurgedCommitted'
      BY <1>b DEF PurgedCommitted
    <2>2. SnapshotsSeeOwnWrites'
      BY <1>b DEF SnapshotsSeeOwnWrites
    <2>3. OwnWritesVisible'
      BY <1>b DEF OwnWritesVisible
    <2> QED
      BY <2>1, <2>2, <2>3
  <1>1. ASSUME NEW p \in Procs, NEW t \in Tables, Miss(p, t)
        PROVE  OwnWritesInv'
    <2>1. [IdleProc EXCEPT !.pc = "missed", !.table = t].pc = "missed"
      BY <1>0 DEF Local
    <2> QED
      BY <1>1, <1>b, <2>1 DEF Miss, CacheTypeOK
  <1>2. ASSUME NEW p \in Procs, Select(p)
        PROVE  OwnWritesInv'
    <2>1. /\ \A q \in Procs \ {p} : proc'[q] = proc[q]
          /\ proc'[p].pc = "read" /\ proc'[p].table = proc[p].table
          /\ proc'[p].rev[proc[p].table] = current[proc[p].table]
      BY <1>2, <1>a DEF Select, CacheTypeOK, Local
    <2>2. UNCHANGED <<current, purgedRev, cache>>
      BY <1>2 DEF Select
    <2>3. PurgedCommitted'
      BY <2>1, <2>2 DEF PurgedCommitted
    <2>4. SnapshotsSeeOwnWrites'
      BY <1>a, <2>1, <2>2 DEF SnapshotsSeeOwnWrites, PurgedCommitted
    <2>5. OwnWritesVisible'
      BY <2>2 DEF OwnWritesVisible
    <2> QED
      BY <2>3, <2>4, <2>5
  <1>3. ASSUME NEW p \in Procs, ReadFails(p)
        PROVE  OwnWritesInv'
    BY <1>0, <1>3, <1>b DEF ReadFails, CacheTypeOK
  <1>4. ASSUME NEW p \in Procs, Set(p)
        PROVE  OwnWritesInv'
    <2>1. /\ \A q \in Procs \ {p} : proc'[q] = proc[q]
          /\ proc'[p].pc = "idle"
          /\ UNCHANGED <<current, purgedRev>>
      BY <1>0, <1>4 DEF Set, CacheTypeOK
    <2>2. PurgedCommitted'
      BY <2>1 DEF PurgedCommitted
    <2>3. SnapshotsSeeOwnWrites'
      BY <2>1 DEF SnapshotsSeeOwnWrites
    <2>4. ASSUME NEW r \in Replicas, NEW t \in Tables,
                 cache'[r][t] # NoEntry, ~ cache'[r][t].overtaken
          PROVE  cache'[r][t].rev >= purgedRev'[r][t]
      <3>1. CASE cache'[r][t] = cache[r][t]
        BY <2>1, <2>4, <3>1 DEF OwnWritesVisible
      <3>2. CASE /\ r = Home[p] /\ t = proc[p].table
                 /\ cache'[r][t].rev = proc[p].rev[proc[p].table]
                 /\ cache'[r][t].overtaken = proc[p].overtaken
        BY <1>4, <2>1, <2>4, <3>2 DEF Set, SnapshotsSeeOwnWrites
      <3>3. \/ cache'[r][t] = cache[r][t]
            \/ /\ r = Home[p] /\ t = proc[p].table
               /\ cache'[r][t].rev = proc[p].rev[proc[p].table]
               /\ cache'[r][t].overtaken = proc[p].overtaken
        BY <1>4, <1>a DEF Set, CacheTypeOK
      <3> QED
        BY <3>1, <3>2, <3>3
    <2>5. OwnWritesVisible'
      BY <2>4 DEF OwnWritesVisible
    <2> QED
      BY <2>2, <2>3, <2>5
  <1>5. ASSUME NEW p \in Procs, NEW written \in (SUBSET Tables) \ {{}},
               Commit(p, written)
        PROVE  OwnWritesInv'
    <2>1. \A t \in Tables : current'[t] >= current[t] /\ current'[t] \in Nat
      BY <1>5, <1>a DEF Commit
    <2>2. UNCHANGED <<purgedRev, cache>> /\ \A q \in Procs \ {p} : proc'[q] = proc[q]
      BY <1>5 DEF Commit, CacheTypeOK
    <2>3. /\ proc'[p].pc = "committed"
          /\ \A t \in Tables : proc'[p].rev[t] <= current'[t]
      <3>1. proc'[p] = [IdleProc EXCEPT !.pc = "committed",
               !.rev = [t \in Tables |-> IF t \in written THEN current[t] + 1 ELSE 0]]
        BY <1>5 DEF Commit, CacheTypeOK
      <3>2. /\ proc'[p].pc = "committed"
            /\ proc'[p].rev = [t \in Tables |-> IF t \in written THEN current[t] + 1 ELSE 0]
        BY <1>0, <3>1 DEF Local
      <3> QED
        BY <1>5, <1>a, <3>2 DEF Commit
    <2>4. PurgedCommitted'
      <3>1. \A r \in Replicas, t \in Tables : purgedRev'[r][t] <= current'[t]
        BY <1>a, <2>1, <2>2 DEF PurgedCommitted
      <3>2. \A q \in Procs, t \in Tables :
               proc'[q].pc \in {"committed", "purging"} => proc'[q].rev[t] <= current'[t]
        BY <1>a, <2>1, <2>2, <2>3 DEF PurgedCommitted
      <3> QED
        BY <3>1, <3>2 DEF PurgedCommitted
    <2>5. SnapshotsSeeOwnWrites'
      BY <2>2, <2>3 DEF SnapshotsSeeOwnWrites
    <2>6. OwnWritesVisible'
      BY <2>2 DEF OwnWritesVisible
    <2> QED
      BY <2>4, <2>5, <2>6
  <1>6. ASSUME NEW p \in Procs, NEW u \in Tables, NEW next,
               proc[p].pc \in {"committed", "purging"},
               next.pc \in {"idle", "purging"},
               next.pc = "purging" => next.rev = proc[p].rev,
               Purge(p, u, next), UNCHANGED current
        PROVE  OwnWritesInv'
    <2>1. \A q \in Procs :
             LET o == [proc[q] EXCEPT !.overtaken = TRUE]
             IN  o.pc = proc[q].pc /\ o.rev = proc[q].rev /\ o.overtaken = TRUE
      BY DEF CacheTypeOK, Local
    <2>2. \A q \in Procs \ {p} :
             /\ proc'[q].pc = proc[q].pc /\ proc'[q].rev = proc[q].rev
             /\ proc'[q] # proc[q] => proc'[q].overtaken = TRUE
             /\ Home[q] = Home[p] /\ proc[q].pc = "read" /\ proc[q].table = u
                  => proc'[q].overtaken = TRUE
      BY <1>6, <2>1 DEF Purge
    <2>3. proc'[p] = next
      BY <1>6 DEF Purge
    <2>4. \A r \in Replicas, t \in Tables :
             /\ r = Home[p] /\ t = u => cache'[r][t] = NoEntry
             /\ r # Home[p] \/ t # u =>
                  cache'[r][t] = cache[r][t] /\ purgedRev'[r][t] = purgedRev[r][t]
      BY <1>6, <1>a DEF Purge, CacheTypeOK
    <2>5. purgedRev'[Home[p]][u] \in {purgedRev[Home[p]][u], proc[p].rev[u]}
      BY <1>6, <1>a DEF Purge, CacheTypeOK
    <2>6. PurgedCommitted'
      <3>1. \A r \in Replicas, t \in Tables : purgedRev'[r][t] <= current'[t]
        BY <1>6, <1>a, <2>4, <2>5 DEF PurgedCommitted
      <3>2. \A q \in Procs, t \in Tables :
               proc'[q].pc \in {"committed", "purging"} => proc'[q].rev[t] <= current'[t]
        BY <1>6, <2>2, <2>3 DEF PurgedCommitted
      <3> QED
        BY <3>1, <3>2 DEF PurgedCommitted
    <2>7. SnapshotsSeeOwnWrites'
      <3> SUFFICES ASSUME NEW q \in Procs, proc'[q].pc = "read", ~ proc'[q].overtaken
                   PROVE  proc'[q].rev[proc'[q].table] >= purgedRev'[Home[q]][proc'[q].table]
        BY DEF SnapshotsSeeOwnWrites
      <3>1. q # p
        BY <1>6, <2>3
      <3>2. proc'[q] = proc[q]
        BY <2>2, <3>1
      <3>3. ~ (Home[q] = Home[p] /\ proc[q].table = u)
        BY <2>2, <3>1, <3>2
      <3> QED
        BY <1>a, <2>4, <3>2, <3>3 DEF SnapshotsSeeOwnWrites
    <2>8. OwnWritesVisible'
      BY <2>4 DEF OwnWritesVisible
    <2> QED
      BY <2>6, <2>7, <2>8
  <1>7. ASSUME NEW p \in Procs, PurgeConnections(p)
        PROVE  OwnWritesInv'
    <2> DEFINE next == [proc[p] EXCEPT !.pc = "purging"]
    <2>1. next.pc = "purging" /\ next.rev = proc[p].rev
      BY DEF CacheTypeOK, Local
    <2>2. Purge(p, "connections", next) /\ UNCHANGED current /\ proc[p].pc = "committed"
      BY <1>7 DEF PurgeConnections
    <2> HIDE DEF next
    <2> QED
      BY <1>6, <2>1, <2>2 DEF Tables
  <1>8. ASSUME NEW p \in Procs, PurgeEndpoints(p)
        PROVE  OwnWritesInv'
    BY <1>0, <1>6, <1>8 DEF PurgeEndpoints, Tables
  <1>9. ASSUME NEW r \in Replicas, NEW t \in Tables, EvictExpired(r, t)
        PROVE  OwnWritesInv'
    BY <1>9, <1>b DEF EvictExpired, CacheTypeOK
  <1>10. ASSUME NEW r \in Replicas, Restart(r)
         PROVE  OwnWritesInv'
    BY <1>0, <1>10, <1>b DEF Restart, CacheTypeOK
  <1>11. CASE Tick
    BY <1>11, <1>b DEF Tick
  <1>12. CASE UNCHANGED cacheVars
    BY <1>12, <1>b DEF cacheVars
  <1> QED
    BY <1>1, <1>2, <1>3, <1>4, <1>5, <1>7, <1>8, <1>9, <1>10, <1>11, <1>12 DEF CacheNext

\* After invalidateCaches a replica serves nothing older than the write it was
\* called for, unless the entry comes from a fill that the purge overtook.
THEOREM OwnWritesAreVisible == CacheSpec => []OwnWritesVisible
  <1>1. CacheInit => OwnWritesInv
    BY DEF CacheInit, OwnWritesInv, PurgedCommitted, SnapshotsSeeOwnWrites, OwnWritesVisible, IdleProc
  <1>2. CacheTypeInv => CacheTypeOK
    BY DEF CacheTypeInv
  <1>3. OwnWritesInv => OwnWritesVisible
    BY DEF OwnWritesInv
  <1> QED
    BY <1>1, <1>2, <1>3, OwnStep, CacheTypeCorrect, PTL DEF CacheSpec
=============================================================================
