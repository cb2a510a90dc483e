--------------------------- MODULE MCOpenAPIImport ---------------------------
(* Small tables: two connections, two endpoints, a saver and an importer.    *)
(* d1 and d1f are one definition laid out in two ways; names tell tools apart. *)
EXTENDS OpenAPIImport, TLC

CONSTANTS c1, c2, e1, e2, d1, d1f

MCCanon == (d1 :> d1) @@ (d1f :> d1)

MCToolNames == {<<"a">>, <<"a", 2>>}

\* One connection and one tool written before the hash and version columns.
MCLegacyConns == [c \in Conns |->
    IF c = c1 THEN [name |-> "crm"] ELSE NoRow]
MCLegacyEps == [e \in Eps |->
    IF e = e1 THEN [conn |-> c1, name |-> <<"a">>, def |-> d1,
                    hash |-> NoHash, version |-> 1]
    ELSE NoRow]

\* Two operations of one name; an ambiguous document; one that is not 3.x.
Twice == [usable |-> TRUE, title |-> "erp",
          ops |-> <<[base |-> <<"a">>, def |-> d1], [base |-> <<"a">>, def |-> d1f]>>]
Suffixed == [Twice EXCEPT !.ops = @ \o <<[base |-> <<"a", 2>>, def |-> d1]>>]
MCDocuments == {Twice, Suffixed, [Twice EXCEPT !.usable = FALSE]}
=============================================================================
