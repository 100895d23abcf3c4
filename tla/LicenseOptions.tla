--------------------------- MODULE LicenseOptions ---------------------------
(***************************************************************************)
(* The license options of one spec: the part of PATCH /specs/{id} that     *)
(* brings the license_options rows in line with the submitted list         *)
(* (PgSpecRepository.Update in spec_repo.go, "Smart Sync"), while options  *)
(* are ordered and sold. The UPDATE of the specs row that precedes it      *)
(* locks that row, so there is one transaction at a time; its statements   *)
(* are steps, because a sale may come between any two of them.             *)
(***************************************************************************)
EXTENDS Naturals, Sequences, FiniteSets

CONSTANTS
    Ids,       \* bound: ids of license_options rows
    Types,     \* Basic, Premium, ...
    FreeForm,  \* whether an entry may carry an id whose row has another type
               \* or that no row has
    NULL

OptionsAssumption == FreeForm \in BOOLEAN /\ NULL \notin Ids \cup Types

VARIABLES
    option,    \* the rows as committed; type NULL: no such row
    ordered,   \* options some order carries in its notes
    sold,      \* options some licenses row refers to
    tx,        \* the open transaction
    listed,    \* history: the types of the last list that was committed
    refused    \* history: a list without ids was refused

vars == <<option, ordered, sold, tx, listed, refused>>

Option == [type : Types \cup {NULL}, active : BOOLEAN]
NoOption == [type |-> NULL, active |-> FALSE]
Entry == [id : Ids \cup {NULL}, type : Types]

Exists(rows, i) == rows[i].type # NULL
Active(rows) == {i \in Ids : rows[i].active}
TypesOf(entries) == {entries[n].type : n \in DOMAIN entries}

\* rows: what the transaction has written; todo: entries not handled yet;
\* kept: processedIDs; drop: the id whose usage was counted as zero.
Tx == [at : {"none", "upsert", "delete", "drop"}, rows : [Ids -> Option],
       payload : Seq(Entry), todo : Seq(Entry), kept : SUBSET Ids,
       drop : Ids \cup {NULL}]
NoTx == [at |-> "none", rows |-> [i \in Ids |-> NoOption], payload |-> <<>>,
         todo |-> <<>>, kept |-> {}, drop |-> NULL]

\* The shape of the rows and of the open transaction.
TypeOK ==
    /\ option \in [Ids -> Option]
    /\ ordered \in SUBSET Ids
    /\ sold \in SUBSET Ids
    /\ tx \in Tx
    /\ listed \in SUBSET Types
    /\ refused \in BOOLEAN

\* createSpecTx inserts the options of the new spec, of distinct types.
Start(f) ==
    /\ option = [i \in Ids |-> [type |-> f[i], active |-> f[i] # NULL]]
    /\ listed = {f[i] : i \in Ids} \ {NULL}
    /\ ordered = {} /\ sold = {}
    /\ tx = NoTx
    /\ refused = FALSE

Init ==
    \E f \in [Ids -> Types \cup {NULL}] :
        /\ \A i, j \in Ids : f[i] = f[j] => i = j \/ f[i] = NULL
        /\ \E i \in Ids : f[i] # NULL
        /\ Start(f)

----------------------------------------------------------------------------
(* Sales.                                                                  *)

\* CreateOrder takes an option the producer offers now.
Order(i) ==
    /\ i \in Active(option)
    /\ ordered' = ordered \cup {i}
    /\ UNCHANGED <<option, sold, tx, listed, refused>>

\* The license of the paid order needs the row; if the open transaction has
\* deleted it, the foreign key check waits.
Sell(i) ==
    /\ i \in ordered /\ Exists(option, i)
    /\ tx.at # "none" => Exists(tx.rows, i)
    /\ sold' = sold \cup {i}
    /\ UNCHANGED <<option, ordered, tx, listed, refused>>

----------------------------------------------------------------------------
(* The update.                                                             *)

Fresh == {i \in Ids : ~Exists(option, i) /\ i \notin ordered}
Named(entries) == {entries[n].id : n \in DOMAIN entries}

\* validateSpec: at least one entry, the types distinct.
Valid(entries) ==
    /\ entries # <<>>
    /\ Cardinality(TypesOf(entries)) = Len(entries)

\* What a client sends: new entries without id, known ones with it.
Payloads ==
    {p \in UNION {[1..n -> Entry] : n \in 1..Cardinality(Types)} :
        /\ Valid(p)
        /\ \A m, n \in DOMAIN p : p[m].id = p[n].id => m = n \/ p[m].id = NULL
        /\ \A n \in DOMAIN p :
            \/ p[n].id = NULL
            \/ FreeForm
            \/ option[p[n].id].type = p[n].type}

UpdateBegin ==
    /\ tx.at = "none"
    /\ \E p \in Payloads :
        /\ Cardinality({n \in DOMAIN p : p[n].id = NULL}) =<
                Cardinality(Fresh \ Named(p))
        /\ tx' = [NoTx EXCEPT !.at = "upsert", !.rows = option,
                              !.payload = p, !.todo = p]
    /\ UNCHANGED <<option, ordered, sold, listed, refused>>

\* UNIQUE (spec_id, license_type) counts the soft-deleted rows too.
Clashes(i, type) == \E j \in Ids \ {i} : tx.rows[j].type = type

\* The id an entry stands for: its own, or that of the option which offered
\* its type when the transaction began.
Matched(e) ==
    IF e.id # NULL THEN e.id
    ELSE IF \E i \in Active(option) : option[i].type = e.type
         THEN CHOOSE i \in Active(option) : option[i].type = e.type
         ELSE NULL

\* Mutant of Written: the row is updated but stays deleted.
WrittenAsIs(i, e) ==
    [tx EXCEPT !.rows[i].type = e.type, !.kept = @ \cup {i}, !.todo = Tail(@)]

\* The row takes the entry's type and is active; its id counts as processed.
Written(i, e) ==
    [tx EXCEPT !.rows[i] = [type |-> e.type, active |-> TRUE],
               !.kept = @ \cup {i}, !.todo = Tail(@)]

\* The INSERT or UPDATE of the first entry left: without an id that is known
\* or matched, under a new one; an unknown id is inserted as it is.
Upsert ==
    /\ tx.at = "upsert" /\ tx.todo # <<>>
    /\ LET e == Head(tx.todo)
       IN  \E i \in Ids :
            /\ IF Matched(e) = NULL
               THEN i \in Fresh \ Named(tx.payload) /\ ~Exists(tx.rows, i)
               ELSE i = Matched(e)
            /\ ~Clashes(i, e.type)
            /\ tx' = Written(i, e)
    /\ UNCHANGED <<option, ordered, sold, listed, refused>>

\* The statement is refused; everything is rolled back.
UpsertRefused ==
    /\ tx.at = "upsert" /\ tx.todo # <<>>
    /\ LET e == Head(tx.todo)
       IN  \/ Matched(e) = NULL /\ \E j \in Ids : tx.rows[j].type = e.type
           \/ Matched(e) # NULL /\ Clashes(Matched(e), e.type)
    /\ refused' = (refused \/ \A n \in DOMAIN tx.payload : tx.payload[n].id = NULL)
    /\ tx' = NoTx
    /\ UNCHANGED <<option, ordered, sold, listed>>

DeletionsBegin ==
    /\ tx.at = "upsert" /\ tx.todo = <<>>
    /\ tx' = [tx EXCEPT !.at = "delete"]
    /\ UNCHANGED <<option, ordered, sold, listed, refused>>

\* idsToDelete: offered when the transaction began and not processed.
Unlisted == {i \in Active(option) \ tx.kept : tx.rows[i].active}

\* The usage count: a used option is only marked.
CountUsage(i) ==
    /\ tx.at = "delete" /\ i \in Unlisted
    /\ tx' = IF i \in sold THEN [tx EXCEPT !.rows[i].active = FALSE]
                           ELSE [tx EXCEPT !.at = "drop", !.drop = i]
    /\ UNCHANGED <<option, ordered, sold, listed, refused>>

\* Mutant of Restricted: the licenses do not hold the option back.
RestrictedNever == FALSE

\* licenses.license_option_id is ON DELETE RESTRICT.
Restricted == tx.drop \in sold

\* An option counted as unused is deleted; sold meanwhile, all is undone.
Drop ==
    /\ tx.at = "drop"
    /\ tx' = IF Restricted THEN NoTx
             ELSE [tx EXCEPT !.at = "delete", !.drop = NULL,
                             !.rows[tx.drop] = NoOption]
    /\ UNCHANGED <<option, ordered, sold, listed, refused>>

Commit ==
    /\ tx.at = "delete" /\ Unlisted = {}
    /\ option' = tx.rows
    /\ listed' = TypesOf(tx.payload)
    /\ tx' = NoTx
    /\ UNCHANGED <<ordered, sold, refused>>

\* Any statement may fail, and the process may die.
Abort ==
    /\ tx.at # "none"
    /\ tx' = NoTx
    /\ UNCHANGED <<option, ordered, sold, listed, refused>>

Next ==
    \/ \E i \in Ids : Order(i) \/ Sell(i) \/ CountUsage(i)
    \/ UpdateBegin \/ Upsert \/ UpsertRefused \/ DeletionsBegin \/ Drop
    \/ Commit \/ Abort

Spec == Init /\ [][Next]_vars

----------------------------------------------------------------------------

\* A license never loses its option: no list, and no sale between the usage
\* count and the DELETE, removes the row a license refers to.
SoldOptionsStay == \A i \in sold : Exists(option, i)

\* Once a list is committed, exactly its types are offered: "this license was
\* NOT in the update payload -> DELETE it", and what was in it is there.
ListedIsOffered == {option[i].type : i \in Active(option)} = listed

\* The rows hold what the lists said.
OptionsInv == TypeOK /\ ListedIsOffered

\* A list that names types only is never refused: a type that matches nothing
\* is "New License (and no match found) -> INSERT".
\* The code does not keep this: see "Divergences" in the README.
NewTypesAccepted == ~refused
=============================================================================
