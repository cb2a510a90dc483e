---------------------------- MODULE OpenAPIImport ----------------------------
(***************************************************************************)
(* The import of OpenAPI documents (pkg/openapiimport's Parse and the       *)
(* portal's handleOpenAPIImport) on top of the topology tables (Topology):   *)
(* a connection is saved, then one endpoint per operation, each with the two *)
(* statements of SaveEndpoint, while other goroutines edit the same tables.  *)
(* Nothing spans the saves: the first that fails ends the import and leaves  *)
(* what was written before it.                                              *)
(*                                                                         *)
(* A tool name is a sequence: the sanitized name, then the number a `_n'    *)
(* suffix spells, so that operationId a_2 and the second a are one name.     *)
(* uuid.New is an id that no row, save or import under way uses.             *)
(***************************************************************************)
EXTENDS Topology, Sequences, FiniteSets

CONSTANTS
    Importers,          \* the Writers that run handleOpenAPIImport
    Documents           \* request bodies, a subset of Document

\* What an operation is turned into: its base name and, of its description,
\* method, path and merged parameters, the definition of the tool.
Operation == [base : ToolNames, def : Defs]

\* usable: it parses, is a 3.x document and names a server.  The title of a document
\* without one is "Untitled API".  ops is in the order of the sorted paths and of
\* httpMethods.
Document == [usable : BOOLEAN, title : ConnNames, ops : Seq(Operation)]

ASSUME ImportAssumption ==
    /\ Importers \subseteq Writers /\ Documents \subseteq Document
    /\ \A name \in ToolNames :      \* a sequence
          Len(name) \in Nat /\ name = [i \in 1 .. Len(name) |-> name[i]]

VARIABLE
    import              \* per importer: pc, the document, its connection's id, the next
                        \* operation, the names in createdTools and, for the properties
                        \* only, disturbed: did others change the connection or its tools?

importVars == <<connections, endpoints, saving, import>>

IdleImport == [pc |-> "idle", doc |-> CHOOSE d \in Documents : TRUE, conn |-> NoRow,
               next |-> 1, created |-> <<>>, disturbed |-> FALSE]

ImportInit == Init /\ import = [p \in Importers |-> IdleImport]

-----------------------------------------------------------------------------
\* Mutation: the second operation of a name keeps the name.
UniqueNameKept(base, n) == base

\* uniqueName: the base for its first use, then base_2, base_3, ...
UniqueName(base, n) == IF n = 1 THEN base ELSE Append(base, n)

\* The endpoints Parse makes of a document.
Parse(doc) ==
    [i \in DOMAIN doc.ops |->
        [name |-> UniqueName(doc.ops[i].base,
                             Cardinality({j \in 1 .. i : doc.ops[j].base = doc.ops[i].base})),
         def  |-> doc.ops[i].def]]

\* tool_name takes any text, the suffixed names included.
ASSUME NamesAssumption ==
    \A doc \in Documents : \A i \in DOMAIN doc.ops : Parse(doc)[i].name \in ToolNames

FreshConn(c) ==
    /\ connections[c] = NoRow
    /\ \A e \in Eps : endpoints[e] # NoRow => endpoints[e].conn # c
    /\ \A w \in Writers : saving[w] # Idle => saving[w].row.conn # c
    /\ \A q \in Importers : import[q].conn # c

FreshEp(e) ==
    /\ endpoints[e] = NoRow
    /\ \A w \in Writers : saving[w] # Idle => saving[w].ep # e

Tool(p) == Parse(import[p].doc)[import[p].next]

-----------------------------------------------------------------------------
\* A document that cannot be used is answered with 400, a dry run with the
\* preview; neither writes anything.
ImportWritesNothing(p, doc) ==
    /\ import[p].pc = "idle"
    /\ import' = [import EXCEPT ![p].pc = IF doc.usable THEN "previewed" ELSE "rejected"]
    /\ UNCHANGED vars

\* SaveConnection under a new id.
ImportConnection(p, doc, c) ==
    /\ import[p].pc = "idle"
    /\ doc.usable
    /\ FreshConn(c)
    /\ SaveConnection(c, [name |-> doc.title])
    /\ import' = [import EXCEPT ![p] =
            [pc |-> "saving", doc |-> doc, conn |-> c, next |-> 1, created |-> <<>>,
             disturbed |-> FALSE]]

\* SaveConnection fails, on the title's UNIQUE constraint or on the database: 500.
ImportConnectionFails(p, doc) ==
    /\ import[p].pc = "idle"
    /\ doc.usable
    /\ import' = [import EXCEPT ![p].pc = "failed"]
    /\ UNCHANGED vars

\* Mutation: the id is not a new one.
ImportLookupAnyId(p, e) ==
    /\ import[p].pc = "saving"
    /\ import[p].next <= Len(import[p].doc.ops)
    /\ SaveEndpointLookup(p, e, import[p].conn, Tool(p).name, Tool(p).def)
    /\ UNCHANGED import

\* SaveEndpoint of the next operation, under a new id: the SELECT ...
ImportLookup(p, e) ==
    /\ import[p].pc = "saving"
    /\ import[p].next <= Len(import[p].doc.ops)
    /\ FreshEp(e)
    /\ SaveEndpointLookup(p, e, import[p].conn, Tool(p).name, Tool(p).def)
    /\ UNCHANGED import

\* ... and the upsert.
ImportUpsert(p) ==
    /\ import[p].pc = "saving"
    /\ SaveEndpointUpsert(p)
    /\ import' = [import EXCEPT ![p].next = @ + 1, ![p].created = Append(@, saving[p].row.name)]

\* Mutation: the loop goes on after an error.
ImportSkips(p) ==
    /\ import[p].pc = "saving"
    /\ SaveEndpointFails(p)
    /\ import' = [import EXCEPT ![p].next = @ + 1]

\* The upsert is refused because another row has the tool's name: 500.
ImportCollides(p) ==
    /\ import[p].pc = "saving"
    /\ saving[p] # Idle
    /\ ~ ToolNameFree(saving[p].ep, saving[p].row.name)
    /\ SaveEndpointFails(p)
    /\ import' = [import EXCEPT ![p].pc = "collided"]

\* The upsert fails because the connection was deleted meanwhile, the request
\* was cancelled or the database is lost: 500.
ImportFails(p) ==
    /\ import[p].pc = "saving"
    /\ SaveEndpointFails(p)
    /\ import' = [import EXCEPT ![p].pc = "failed"]

\* Every operation is saved: the summary.
ImportDone(p) ==
    /\ import[p].pc = "saving"
    /\ import[p].next > Len(import[p].doc.ops)
    /\ import' = [import EXCEPT ![p].pc = "done"]
    /\ UNCHANGED vars

ImportReturns(p) ==
    /\ import[p].pc \notin {"idle", "saving"}
    /\ import' = [import EXCEPT ![p] = IdleImport]
    /\ UNCHANGED vars

\* The portal's other handlers and the admin_* tools.
Edits ==
    \/ \E c \in Conns : \E row \in ConnRow : SaveConnection(c, row)
    \/ \E c \in Conns : DeleteConnection(c)
    \/ \E e \in Eps : DeleteEndpoint(e)
    \/ \E w \in Writers \ Importers :
          \/ \E e \in Eps, c \in Conns, name \in ToolNames, def \in Defs :
                SaveEndpointLookup(w, e, c, name, def)
          \/ SaveEndpointUpsert(w)
          \/ SaveEndpointFails(w)

RowsOf(c) == {e \in Eps : endpoints[e] # NoRow /\ endpoints[e].conn = c}

\* The step changes connection c or a tool of it.
Touched(c) ==
    \/ connections'[c] # connections[c]
    \/ \E e \in Eps :
          /\ endpoints'[e] # endpoints[e]
          /\ \E row \in {endpoints[e], endpoints'[e]} : row # NoRow /\ row.conn = c

Disturb ==
    import' = [p \in Importers |->
                  [import[p] EXCEPT !.disturbed =
                      @ \/ (import[p].conn # NoRow /\ Touched(import[p].conn))]]

ImportNext ==
    \/ Edits /\ Disturb
    \/ \E p \in Importers, doc \in Documents : ImportWritesNothing(p, doc)
    \/ \E p \in Importers, doc \in Documents, c \in Conns : ImportConnection(p, doc, c)
    \/ \E p \in Importers, doc \in Documents : ImportConnectionFails(p, doc)
    \/ \E p \in Importers, e \in Eps : ImportLookup(p, e)
    \/ \E p \in Importers : ImportUpsert(p)
    \/ \E p \in Importers : ImportCollides(p)
    \/ \E p \in Importers : ImportFails(p)
    \/ \E p \in Importers : ImportDone(p)
    \/ \E p \in Importers : ImportReturns(p)

ImportSpec == ImportInit /\ [][ImportNext]_importVars

-----------------------------------------------------------------------------
\* An import reports success only when every operation of the document was
\* saved as a tool, in order (handleOpenAPIImport's summary), whatever other
\* goroutines did to the tables in between.
ImportIsWhole ==
    [][\A p \in Importers : import'[p].pc = "done" =>
          import'[p].created = [i \in DOMAIN import'[p].doc.ops |-> Parse(import'[p].doc)[i].name]]_importVars

\* An import that failed half-way leaves exactly what it had saved by then, unless
\* others edited it: its connection, whose name makes a second import of the title
\* fail, and the tools of the operations before the one that failed
\* (handleOpenAPIImport has no transaction and rolls nothing back).
ImportLeavesPrefix ==
    \A p \in Importers :
        LET imp == import[p]
        IN  imp.conn # NoRow /\ ~ imp.disturbed =>
               /\ \A c \in Conns \ {imp.conn} : ~ ConnNameFree(c, imp.doc.title)
               /\ {[name |-> endpoints[e].name, def |-> endpoints[e].def] : e \in RowsOf(imp.conn)}
                     = {Parse(imp.doc)[i] : i \in 1 .. imp.next - 1}

\* A document names an operation like the suffixed name of another one.
Ambiguous(doc) ==
    \E i, j \in DOMAIN doc.ops, n \in 2 .. Len(doc.ops) :
        doc.ops[i].base = Append(doc.ops[j].base, n)

\* An import that stops on a tool name that is taken can be explained from the
\* portal: a tool that this import did not create, of a connection that is still
\* there, has the name.  uniqueName keeps a document from colliding with itself,
\* but for ambiguous ones, and no deleted connection's tool blocks a name.
CollisionHasACause ==
    [][\A p \in Importers : import[p].pc = "saving" /\ import'[p].pc = "collided" =>
          \/ Ambiguous(import[p].doc)
          \/ \E f \in Eps :
                /\ endpoints[f] # NoRow
                /\ endpoints[f].name = saving[p].row.name
                /\ connections[endpoints[f].conn] # NoRow
                /\ \A i \in DOMAIN import[p].created : import[p].created[i] # endpoints[f].name
       ]_importVars

\* "Collisions within a single spec are disambiguated with a "_2", "_3", ...
\* suffix" (ParsedEndpoint): the tools of a document have different names.
NamesDistinct ==
    \A doc \in Documents : \A i, j \in DOMAIN doc.ops :
        Parse(doc)[i].name = Parse(doc)[j].name => i = j

=============================================================================
