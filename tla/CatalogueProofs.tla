-------------------------- MODULE CatalogueProofs --------------------------
(***************************************************************************)
(* What holds of the parts of a catalogue for every value of their         *)
(* constants: no license loses the option it was sold under, a ranking     *)
(* section is always the outcome of one calculation and its lock belongs   *)
(* to the request about to calculate, the summary of a preview of any      *)
(* length, read in pieces of any size, is bounded and loses nothing, and   *)
(* the check of a WAV accepts exactly the well-formed files.               *)
(***************************************************************************)
EXTENDS Catalogue, FiniteSetTheorems, SequenceTheorems,
        WellFoundedInduction, TLAPS

\* Cardinality, seen through an instance, is Cardinality.
LEMMA OptionsCard == \A S : Options!Cardinality(S) = Cardinality(S)
BY DEF Options!Cardinality, Cardinality

LEMMA HomeCard == \A S : Home!Cardinality(S) = Cardinality(S)
BY DEF Home!Cardinality, Cardinality

----------------------------------------------------------------------------
(* The license options.                                                    *)

\* The open transaction has not deleted what is sold either: whoever commits
\* first, the other's foreign key check sees it.
SoldStaysInTx == tx.at # "none" => \A i \in sold : Options!Exists(tx.rows, i)

SalesInv == Options!TypeOK /\ Options!SoldOptionsStay /\ SoldStaysInTx

----------------------------------------------------------------------------

\* A transaction that ended left nothing behind.
LEMMA NoTxIsTx == Options!NoTx \in Options!Tx
BY DEF Options!NoTx, Options!Tx, Options!NoOption, Options!Option, Options!Entry

\* Nothing is sold before an order.
LEMMA OptionsInit == ASSUME Options!OptionsAssumption, Options!Init PROVE SalesInv
<1>1. PICK f \in [Ids -> Types \cup {NULL}] : Options!Start(f)
  BY DEF Options!Init
<1>2. Options!TypeOK
  <2>1. option \in [Ids -> Options!Option]
    BY <1>1 DEF Options!Start, Options!Option
  <2>2. listed \in SUBSET Types
    BY <1>1 DEF Options!Start
  <2> QED
    BY <1>1, <2>1, <2>2, NoTxIsTx DEF Options!Start, Options!TypeOK
<1> QED
  BY <1>1, <1>2 DEF Options!Start, SalesInv, Options!SoldOptionsStay, SoldStaysInTx

\* A list is a sequence of entries.
LEMMA PayloadsAreLists == ASSUME NEW p \in Options!Payloads PROVE p \in Seq(Options!Entry)
<1>1. PICK n \in 1..Cardinality(Types) : p \in [1..n -> Options!Entry]
  BY OptionsCard DEF Options!Payloads
<1>2. n \in Nat
  BY <1>1
<1> QED
  BY <1>1, <1>2

\* Each action, and under it what it can disturb.
LEMMA OptionsStep ==
    ASSUME Options!OptionsAssumption, SalesInv, [Options!Next]_Options!vars PROVE SalesInv'
<1> USE DEF SalesInv, Options!SoldOptionsStay, SoldStaysInTx, Options!OptionsAssumption
<1>1. ASSUME NEW i \in Ids, Options!Order(i) PROVE SalesInv'
  BY <1>1 DEF Options!Order, Options!TypeOK, Options!Active, Options!Exists
<1>2. ASSUME NEW i \in Ids, Options!Sell(i) PROVE SalesInv'
  BY <1>2 DEF Options!Sell, Options!TypeOK, Options!Exists
<1>3. ASSUME NEW i \in Ids, Options!CountUsage(i) PROVE SalesInv'
  <2>1. tx.at = "delete" /\ tx \in Options!Tx
    BY <1>3 DEF Options!CountUsage, Options!TypeOK
  <2>2. tx' \in Options!Tx
    <3>1. CASE i \in sold
      <4>1. tx' = [tx EXCEPT !.rows = [@ EXCEPT ![i].active = FALSE]]
        BY <1>3, <3>1 DEF Options!CountUsage
      <4>2. tx.rows[i] \in Options!Option /\ tx.rows \in [Ids -> Options!Option]
        BY <2>1 DEF Options!Tx
      <4>3. [tx.rows EXCEPT ![i].active = FALSE] \in [Ids -> Options!Option]
        BY <4>2 DEF Options!Option
      <4> QED
        BY <2>1, <4>1, <4>3 DEF Options!Tx
    <3>2. CASE i \notin sold
      BY <1>3, <2>1, <3>2 DEF Options!CountUsage, Options!Tx
    <3> QED
      BY <3>1, <3>2
  <2>3. \A j \in Ids : tx'.rows[j].type = tx.rows[j].type
    BY <1>3, <2>1 DEF Options!CountUsage, Options!Tx, Options!Option
  <2> QED
    BY <1>3, <2>1, <2>2, <2>3 DEF Options!CountUsage, Options!TypeOK, Options!Exists
<1>4. CASE Options!UpdateBegin
  <2>1. PICK p \in Options!Payloads :
            tx' = [Options!NoTx EXCEPT !.at = "upsert", !.rows = option,
                               !.payload = p, !.todo = p]
    BY <1>4 DEF Options!UpdateBegin
  <2>2. p \in Seq(Options!Entry)
    BY PayloadsAreLists
  <2>3. tx' \in Options!Tx /\ tx'.rows = option
    BY <2>1, <2>2 DEF Options!NoTx, Options!Tx, Options!TypeOK
  <2> QED
    BY <1>4, <2>3 DEF Options!UpdateBegin, Options!TypeOK
<1>5. CASE Options!Upsert
  <2>1. tx \in Options!Tx /\ tx.at = "upsert" /\ tx.todo \in Seq(Options!Entry) /\ tx.todo # <<>>
    BY <1>5 DEF Options!Upsert, Options!TypeOK, Options!Tx
  <2>2. PICK i \in Ids : tx' = Options!Written(i, Head(tx.todo))
    BY <1>5 DEF Options!Upsert
  <2>3. Head(tx.todo) \in Options!Entry /\ Tail(tx.todo) \in Seq(Options!Entry)
    BY <2>1
  <2>4. Head(tx.todo).type \in Types
    BY <2>3 DEF Options!Entry
  <2>5. tx' \in Options!Tx
    BY <2>1, <2>2, <2>3, <2>4 DEF Options!Written, Options!Tx, Options!Option
  <2>6. \A j \in Ids : Options!Exists(tx.rows, j) => Options!Exists(tx'.rows, j)
    BY <2>1, <2>2, <2>4 DEF Options!Written, Options!Tx, Options!Option, Options!Exists
  <2> QED
    BY <1>5, <2>1, <2>5, <2>6 DEF Options!Upsert, Options!TypeOK
<1>6. CASE Options!UpsertRefused
  BY <1>6, NoTxIsTx DEF Options!UpsertRefused, Options!TypeOK, Options!NoTx
<1>7. CASE Options!DeletionsBegin
  <2>1. tx' \in Options!Tx /\ tx'.rows = tx.rows /\ tx.at # "none"
    BY <1>7 DEF Options!DeletionsBegin, Options!TypeOK, Options!Tx
  <2> QED
    BY <1>7, <2>1 DEF Options!DeletionsBegin, Options!TypeOK
<1>8. CASE Options!Drop
  <2>1. CASE Options!Restricted
    BY <1>8, <2>1, NoTxIsTx DEF Options!Drop, Options!TypeOK, Options!NoTx
  <2>2. CASE ~Options!Restricted
    <3>1. tx \in Options!Tx /\ tx.at = "drop" /\ tx.drop \notin sold
      BY <1>8, <2>2 DEF Options!Drop, Options!TypeOK, Options!Restricted
    <3>2. tx' \in Options!Tx
      BY <1>8, <2>2, <3>1 DEF Options!Drop, Options!Tx, Options!Option, Options!NoOption
    <3>3. \A j \in Ids \ {tx.drop} : tx'.rows[j] = tx.rows[j]
      BY <1>8, <2>2, <3>1 DEF Options!Drop, Options!Tx
    <3> QED
      BY <1>8, <3>1, <3>2, <3>3 DEF Options!Drop, Options!TypeOK, Options!Exists
  <2> QED
    BY <2>1, <2>2
<1>9. CASE Options!Commit
  <2>1. tx.rows \in [Ids -> Options!Option] /\ tx.at = "delete" /\ tx.payload \in Seq(Options!Entry)
    BY <1>9 DEF Options!Commit, Options!TypeOK, Options!Tx
  <2>2. Options!TypesOf(tx.payload) \in SUBSET Types
    <3>1. \A n \in DOMAIN tx.payload : tx.payload[n] \in Options!Entry
      BY <2>1
    <3>2. \A n \in DOMAIN tx.payload : tx.payload[n].type \in Types
      BY <3>1 DEF Options!Entry
    <3> QED
      BY <3>2 DEF Options!TypesOf
  <2>3. Options!TypeOK'
    <3>1. option' \in [Ids -> Options!Option] /\ listed' \in SUBSET Types
      BY <1>9, <2>1, <2>2 DEF Options!Commit
    <3>2. tx' \in Options!Tx
      BY <1>9, NoTxIsTx DEF Options!Commit
    <3> QED
      BY <1>9, <3>1, <3>2 DEF Options!Commit, Options!TypeOK
  <2>4. Options!SoldOptionsStay' /\ SoldStaysInTx'
    BY <1>9, <2>1 DEF Options!Commit, Options!NoTx
  <2> QED
    BY <2>3, <2>4
<1>10. CASE Options!Abort
  BY <1>10, NoTxIsTx DEF Options!Abort, Options!TypeOK, Options!NoTx
<1>11. CASE UNCHANGED Options!vars
  BY <1>11 DEF Options!vars, Options!TypeOK
<1> QED
  BY <1>1, <1>2, <1>3, <1>4, <1>5, <1>6, <1>7, <1>8, <1>9, <1>10, <1>11 DEF Options!Next

\* Rows, transaction and sales together are an inductive invariant.
THEOREM OptionsInvariant == ASSUME Options!OptionsAssumption PROVE Options!Spec => []SalesInv
<1>1. Options!Init => SalesInv
  BY OptionsInit
<1>2. SalesInv /\ [Options!Next]_Options!vars => SalesInv'
  BY OptionsStep
<1> QED
  BY <1>1, <1>2, PTL DEF Options!Spec

\* No update removes the row a license refers to.
THEOREM SoldOptionsAlwaysStay ==
    ASSUME Options!OptionsAssumption PROVE Options!Spec => []SoldOptionsStay
<1>1. SalesInv => SoldOptionsStay
  BY DEF SalesInv, SoldOptionsStay
<1> QED
  BY <1>1, OptionsInvariant, PTL

\* What an open transaction has done of its list: the rows it kept are offered
\* under the types of the entries handled, any other row still offered was
\* offered before, and no entry changes the type of a row.
ListFollowed ==
    tx.at # "none" =>
        /\ \A i \in tx.kept : /\ tx.rows[i].active /\ tx.rows[i].type # NULL
                              /\ option[i].type \in {NULL, tx.rows[i].type}
        /\ \A i \in Options!Active(tx.rows) : i \in tx.kept \cup Options!Active(option)
        /\ \A n \in DOMAIN tx.todo :
            tx.todo[n].id # NULL => option[tx.todo[n].id].type = tx.todo[n].type
        /\ Options!TypesOf(tx.payload) =
            {tx.rows[i].type : i \in tx.kept} \cup Options!TypesOf(tx.todo)
        /\ tx.at # "upsert" => tx.todo = <<>>
        /\ tx.at = "drop" => tx.drop \notin tx.kept

ListsInv == Options!TypeOK /\ Options!ListedIsOffered /\ ListFollowed

\* The types of a list are that of its first entry and those of the rest.
LEMMA HeadAndTail ==
    ASSUME NEW s \in Seq(Options!Entry), s # <<>>
    PROVE  /\ Options!TypesOf(s) = {Head(s).type} \cup Options!TypesOf(Tail(s))
           /\ \A n \in DOMAIN Tail(s) : n + 1 \in DOMAIN s /\ Tail(s)[n] = s[n + 1]
           /\ 1 \in DOMAIN s /\ Head(s) = s[1]
<1>1. /\ DOMAIN s = 1..Len(s) /\ Len(s) \in Nat \ {0} /\ Head(s) = s[1]
      /\ Tail(s) \in Seq(Options!Entry) /\ Len(Tail(s)) = Len(s) - 1
      /\ \A n \in 1..(Len(s) - 1) : Tail(s)[n] = s[n + 1]
  OBVIOUS
<1>2. DOMAIN Tail(s) = 1..(Len(s) - 1)
  BY <1>1
<1>3. \A n \in 1..Len(s) : n = 1 \/ (n - 1 \in 1..(Len(s) - 1) /\ s[n] = Tail(s)[n - 1])
  BY <1>1
<1>4. \A n \in 1..(Len(s) - 1) : n + 1 \in 1..Len(s)
  BY <1>1
<1>5. {s[n].type : n \in 1..Len(s)} =
        {s[1].type} \cup {Tail(s)[n].type : n \in 1..(Len(s) - 1)}
  <2>1. \A n \in 1..Len(s) :
            s[n].type \in {s[1].type} \cup {Tail(s)[m].type : m \in 1..(Len(s) - 1)}
    BY <1>3
  <2>2. \A n \in 1..(Len(s) - 1) : Tail(s)[n].type \in {s[m].type : m \in 1..Len(s)}
    BY <1>1, <1>4
  <2>3. s[1].type \in {s[m].type : m \in 1..Len(s)}
    BY <1>1
  <2> QED
    BY <2>1, <2>2, <2>3
<1>6. Options!TypesOf(s) = {s[n].type : n \in 1..Len(s)}
  BY <1>1 DEF Options!TypesOf
<1>7. Options!TypesOf(Tail(s)) = {Tail(s)[n].type : n \in 1..(Len(s) - 1)}
  BY <1>2 DEF Options!TypesOf
<1> QED
  BY <1>1, <1>2, <1>4, <1>5, <1>6, <1>7

\* The list a client submits with rows it knows names them by their types.
LEMMA KnownRowsKeepTypes ==
    ASSUME ~FreeForm, NEW p \in Options!Payloads
    PROVE  \A n \in DOMAIN p : p[n].id # NULL => option[p[n].id].type = p[n].type
BY DEF Options!Payloads

LEMMA OptionsListInit == ASSUME Options!OptionsAssumption, Options!Init PROVE ListsInv
<1>1. PICK f \in [Ids -> Types \cup {NULL}] : Options!Start(f)
  BY DEF Options!Init
<1>2. Options!TypeOK
  BY OptionsInit DEF SalesInv
<1>3. \A i \in Ids : option[i].type = f[i] /\ option[i].active = (f[i] # NULL)
  BY <1>1 DEF Options!Start
<1>4. Options!ListedIsOffered
  BY <1>1, <1>3 DEF Options!Start, Options!ListedIsOffered, Options!Active
<1>5. ListFollowed
  BY <1>1 DEF Options!Start, Options!NoTx, ListFollowed
<1> QED
  BY <1>2, <1>4, <1>5 DEF ListsInv

\* An entry is written where its type belongs.
LEMMA UpsertFollows ==
    ASSUME Options!OptionsAssumption, ListsInv, Options!Upsert PROVE ListFollowed'
<1> DEFINE e == Head(tx.todo)
<1>1. tx \in Options!Tx /\ tx.at = "upsert" /\ tx.todo \in Seq(Options!Entry) /\ tx.todo # <<>>
  BY DEF Options!Upsert, Options!TypeOK, Options!Tx, ListsInv
<1>2. PICK i \in Ids :
        /\ IF Options!Matched(e) = NULL
           THEN /\ i \in Options!Fresh \ Options!Named(tx.payload)
                /\ ~Options!Exists(tx.rows, i)
           ELSE i = Options!Matched(e)
        /\ tx' = Options!Written(i, e)
        /\ UNCHANGED option
  BY DEF Options!Upsert
<1>3. e \in Options!Entry /\ e.type \in Types /\ e.type # NULL
  <2>1. e \in Options!Entry
    BY <1>1
  <2> QED
    BY <2>1 DEF Options!Entry, Options!OptionsAssumption
<1>4. /\ tx'.rows = [tx.rows EXCEPT ![i] = [type |-> e.type, active |-> TRUE]]
      /\ tx'.kept = tx.kept \cup {i} /\ tx'.todo = Tail(tx.todo)
      /\ tx'.at = "upsert" /\ tx'.payload = tx.payload
  BY <1>1, <1>2 DEF Options!Written, Options!Tx
<1>5. tx.rows \in [Ids -> Options!Option] /\ tx.kept \subseteq Ids
  BY <1>1 DEF Options!Tx
<1>6. tx'.rows[i] = [type |-> e.type, active |-> TRUE]
        /\ \A j \in Ids \ {i} : tx'.rows[j] = tx.rows[j]
  BY <1>4, <1>5
<1>7. ListFollowed /\ tx.at # "none"
  BY <1>1 DEF ListsInv
<1>8. option[i].type \in {NULL, e.type}
  <2>1. CASE Options!Matched(e) = NULL
    BY <1>2, <2>1 DEF Options!Fresh, Options!Exists
  <2>2. CASE e.id # NULL
    <3>1. e.id = i
      BY <1>2, <2>2 DEF Options!Matched, Options!OptionsAssumption
    <3>2. 1 \in DOMAIN tx.todo /\ e = tx.todo[1]
      BY <1>1, HeadAndTail
    <3> QED
      BY <1>7, <2>2, <3>1, <3>2 DEF ListFollowed
  <2>3. CASE e.id = NULL /\ Options!Matched(e) # NULL
    <3>1. \E j \in Options!Active(option) : option[j].type = e.type
      BY <2>3 DEF Options!Matched
    <3>2. i = CHOOSE j \in Options!Active(option) : option[j].type = e.type
      BY <1>2, <2>3, <3>1 DEF Options!Matched
    <3> QED
      BY <3>1, <3>2
  <2> QED
    BY <2>1, <2>2, <2>3
<1>9. i \in tx.kept => tx.rows[i].type = e.type
  <2> SUFFICES ASSUME i \in tx.kept PROVE tx.rows[i].type = e.type
    OBVIOUS
  <2>1. Options!Exists(tx.rows, i) /\ option[i].type \in {NULL, tx.rows[i].type}
    BY <1>7 DEF ListFollowed, Options!Exists
  <2>2. Options!Matched(e) = i
    BY <1>2, <2>1
  <2>3. option[i].type = e.type
    <3>1. CASE e.id # NULL
      BY <1>1, <1>7, <2>2, <3>1, HeadAndTail DEF ListFollowed, Options!Matched
    <3>2. CASE e.id = NULL
      BY <1>3, <1>8, <2>2, <3>2 DEF Options!Matched, Options!OptionsAssumption
    <3> QED
      BY <3>1, <3>2
  <2> QED
    BY <1>3, <2>1, <2>3
<1>10. \A j \in tx'.kept : /\ tx'.rows[j].active /\ tx'.rows[j].type # NULL
                           /\ option'[j].type \in {NULL, tx'.rows[j].type}
  BY <1>2, <1>3, <1>4, <1>5, <1>6, <1>7, <1>8 DEF ListFollowed
<1>11. \A j \in Options!Active(tx'.rows) : j \in tx'.kept \cup Options!Active(option')
  BY <1>2, <1>4, <1>6, <1>7 DEF ListFollowed, Options!Active
<1>12. \A n \in DOMAIN tx'.todo :
        tx'.todo[n].id # NULL => option'[tx'.todo[n].id].type = tx'.todo[n].type
  <2> SUFFICES ASSUME NEW n \in DOMAIN Tail(tx.todo)
               PROVE  Tail(tx.todo)[n].id # NULL =>
                        option[Tail(tx.todo)[n].id].type = Tail(tx.todo)[n].type
    BY <1>2, <1>4
  <2>1. n + 1 \in DOMAIN tx.todo /\ Tail(tx.todo)[n] = tx.todo[n + 1]
    BY <1>1, HeadAndTail
  <2> QED
    BY <1>7, <2>1 DEF ListFollowed
<1>13. Options!TypesOf(tx'.payload) =
        {tx'.rows[j].type : j \in tx'.kept} \cup Options!TypesOf(tx'.todo)
  <2>1. {tx'.rows[j].type : j \in tx'.kept} = {tx.rows[j].type : j \in tx.kept} \cup {e.type}
    BY <1>4, <1>5, <1>6, <1>9
  <2>2. Options!TypesOf(tx.todo) = {e.type} \cup Options!TypesOf(tx'.todo)
    BY <1>1, <1>4, HeadAndTail
  <2>3. Options!TypesOf(tx.payload) =
            {tx.rows[j].type : j \in tx.kept} \cup Options!TypesOf(tx.todo)
    BY <1>7 DEF ListFollowed
  <2> QED
    BY <1>4, <2>1, <2>2, <2>3
<1> QED
  BY <1>4, <1>10, <1>11, <1>12, <1>13 DEF ListFollowed

\* Each action, and under it what it can disturb.
LEMMA OptionsListStep ==
    ASSUME Options!OptionsAssumption, ~FreeForm, ListsInv, Options!TypeOK',
           [Options!Next]_Options!vars
    PROVE  ListsInv'
<1> USE DEF ListsInv, Options!ListedIsOffered
<1>1. ASSUME NEW i \in Ids, Options!Order(i) \/ Options!Sell(i) PROVE ListsInv'
  BY <1>1 DEF Options!Order, Options!Sell, Options!Active, ListFollowed
<1>2. ASSUME NEW i \in Ids, Options!CountUsage(i) PROVE ListsInv'
  <2>1. tx \in Options!Tx /\ tx.at = "delete" /\ i \notin tx.kept /\ UNCHANGED <<option, listed>>
    BY <1>2 DEF Options!CountUsage, Options!TypeOK, Options!Unlisted
  <2>2. /\ tx'.kept = tx.kept /\ tx'.todo = tx.todo /\ tx'.payload = tx.payload
        /\ tx'.at \in {"delete", "drop"} /\ (tx'.at = "drop" => tx'.drop = i)
        /\ \A j \in Ids \ {i} : tx'.rows[j] = tx.rows[j]
        /\ tx'.rows[i].active => tx.rows[i].active
    BY <1>2, <2>1 DEF Options!CountUsage, Options!Tx, Options!Option
  <2>3. tx.kept \subseteq Ids
    BY <2>1 DEF Options!Tx
  <2>4. {tx'.rows[j].type : j \in tx'.kept} = {tx.rows[j].type : j \in tx.kept}
    BY <2>1, <2>2, <2>3
  <2>5. ListFollowed'
    BY <2>1, <2>2, <2>3, <2>4 DEF ListFollowed, Options!Active
  <2> QED
    BY <2>1, <2>5 DEF Options!Active
<1>3. CASE Options!UpdateBegin
  <2>1. PICK p \in Options!Payloads :
            tx' = [Options!NoTx EXCEPT !.at = "upsert", !.rows = option,
                                       !.payload = p, !.todo = p]
    BY <1>3 DEF Options!UpdateBegin
  <2>2. tx'.rows = option /\ tx'.payload = p /\ tx'.todo = p /\ tx'.kept = {} /\ tx'.at = "upsert"
    BY <2>1 DEF Options!NoTx
  <2>3. UNCHANGED <<option, listed>>
    BY <1>3 DEF Options!UpdateBegin
  <2>4. ListFollowed'
    BY <2>2, <2>3, KnownRowsKeepTypes DEF ListFollowed, Options!Active
  <2> QED
    BY <2>3, <2>4 DEF Options!Active
<1>4. CASE Options!Upsert
  BY <1>4, UpsertFollows DEF Options!Upsert, Options!Active
<1>5. CASE Options!UpsertRefused \/ Options!Abort
  BY <1>5 DEF Options!UpsertRefused, Options!Abort, Options!NoTx, ListFollowed, Options!Active
<1>6. CASE Options!DeletionsBegin
  <2>1. tx \in Options!Tx /\ tx.at = "upsert" /\ tx.todo = <<>> /\ UNCHANGED <<option, listed>>
    BY <1>6 DEF Options!DeletionsBegin, Options!TypeOK
  <2>2. /\ tx'.kept = tx.kept /\ tx'.todo = tx.todo /\ tx'.payload = tx.payload
        /\ tx'.at = "delete" /\ tx'.rows = tx.rows
    BY <1>6, <2>1 DEF Options!DeletionsBegin, Options!Tx
  <2> QED
    BY <2>1, <2>2 DEF ListFollowed, Options!Active
<1>7. CASE Options!Drop
  <2>1. tx \in Options!Tx /\ tx.at = "drop" /\ UNCHANGED <<option, listed>>
    BY <1>7 DEF Options!Drop, Options!TypeOK
  <2>2. CASE Options!Restricted
    BY <1>7, <2>1, <2>2 DEF Options!Drop, Options!NoTx, ListFollowed, Options!Active
  <2>3. CASE ~Options!Restricted
    <3>1. /\ tx'.kept = tx.kept /\ tx'.todo = tx.todo /\ tx'.payload = tx.payload
          /\ tx'.at = "delete"
          /\ \A j \in Ids \ {tx.drop} : tx'.rows[j] = tx.rows[j]
          /\ tx.drop \in Ids => ~tx'.rows[tx.drop].active
      BY <1>7, <2>1, <2>3 DEF Options!Drop, Options!Tx, Options!NoOption
    <3>2. tx.drop \notin tx.kept /\ tx.kept \subseteq Ids
      BY <2>1 DEF ListFollowed, Options!Tx
    <3>3. {tx'.rows[j].type : j \in tx'.kept} = {tx.rows[j].type : j \in tx.kept}
      BY <3>1, <3>2
    <3>4. ListFollowed'
      BY <2>1, <3>1, <3>2, <3>3 DEF ListFollowed, Options!Active
    <3> QED
      BY <2>1, <3>4 DEF Options!Active
  <2> QED
    BY <2>2, <2>3
<1>8. CASE Options!Commit
  <2>1. /\ tx.at = "delete" /\ tx \in Options!Tx /\ Options!Unlisted = {}
        /\ option' = tx.rows /\ listed' = Options!TypesOf(tx.payload) /\ tx' = Options!NoTx
    BY <1>8 DEF Options!Commit, Options!TypeOK
  <2>2. tx.kept \subseteq Ids /\ tx.todo = <<>>
    BY <2>1 DEF Options!Tx, ListFollowed
  <2>3. Options!Active(tx.rows) = tx.kept
    BY <2>1, <2>2 DEF ListFollowed, Options!Active, Options!Unlisted
  <2>4. Options!TypesOf(tx.todo) = {}
    BY <2>2 DEF Options!TypesOf
  <2>5. listed' = {tx.rows[i].type : i \in tx.kept}
    BY <2>1, <2>4 DEF ListFollowed
  <2>6. Options!Active(option') = tx.kept
    BY <2>1, <2>3
  <2>7. Options!ListedIsOffered'
    BY <2>1, <2>5, <2>6
  <2>8. ListFollowed'
    BY <2>1 DEF ListFollowed, Options!NoTx
  <2> QED
    BY <2>7, <2>8
<1>9. CASE UNCHANGED Options!vars
  BY <1>9 DEF Options!vars, ListFollowed, Options!Active
<1> QED
  BY <1>1, <1>2, <1>3, <1>4, <1>5, <1>6, <1>7, <1>8, <1>9 DEF Options!Next

\* As long as an entry with an id names the row's own type, what is offered is
\* exactly what the last list said.
THEOREM ListIsOffered ==
    ASSUME Options!OptionsAssumption, ~FreeForm PROVE Options!Spec => []OptionsInv
<1>1. SalesInv /\ [Options!Next]_Options!vars => Options!TypeOK'
  BY OptionsStep DEF SalesInv
<1>2. Options!Init => ListsInv
  BY OptionsListInit
<1>3. SalesInv /\ ListsInv /\ [Options!Next]_Options!vars => ListsInv'
  BY <1>1, OptionsListStep
<1>4. ListsInv => OptionsInv
  BY DEF ListsInv, OptionsInv, Options!OptionsInv
<1> QED
  BY <1>2, <1>3, <1>4, OptionsInvariant, PTL DEF Options!Spec

----------------------------------------------------------------------------
(* The rankings.                                                           *)

\* The specs of a catalogue are finitely many, and NULL is no request.
SectionAssumption ==
    Home!RankingsAssumption /\ IsFiniteSet(Specs) /\ NULL \notin Visitors

USE DEF Home!world

----------------------------------------------------------------------------

\* A ranking of specs gives places that the table has room for.
LEMMA RankingsFit ==
    ASSUME SectionAssumption, NEW S \in SUBSET Specs, NEW f \in Home!Rankings(S)
    PROVE  \A s \in S : f[s] \in 1..Cardinality(Specs)
<1>1. IsFiniteSet(S) /\ Cardinality(S) <= Cardinality(Specs)
  BY FS_Subset DEF SectionAssumption
<1>2. Cardinality(S) \in Nat /\ Cardinality(Specs) \in Nat
  BY <1>1, FS_CardinalityType DEF SectionAssumption
<1>3. f \in [S -> 1..Cardinality(S)]
  BY HomeCard DEF Home!Rankings
<1> QED
  BY <1>1, <1>2, <1>3

\* The rows a calculation writes are one calculation, whatever was there.
LEMMA OutcomeIsOne ==
    ASSUME SectionAssumption, Home!TypeOK, NEW f \in Home!Rankings(Home!Scored), NEW n \in 0..MaxRuns,
           table' = [s \in Specs |-> IF s \notin Home!Scored THEN NULL
                        ELSE [rank |-> f[s], score |-> score[s], run |-> n]]
    PROVE  table' \in [Specs -> Home!Rows \cup {NULL}] /\ Home!OneCalculation'
<1>1. Home!Scored \in SUBSET Specs
  BY DEF Home!Scored, Home!TypeOK
<1>2. \A s \in Home!Scored : score[s] \in 1..MaxScore
  BY DEF Home!Scored, Home!TypeOK, SectionAssumption, Home!RankingsAssumption
<1>3. \A s \in Home!Scored :
        [rank |-> f[s], score |-> score[s], run |-> n] \in Home!Rows
  BY <1>1, <1>2, RankingsFit, HomeCard DEF Home!Rows
<1>4. table' \in [Specs -> Home!Rows \cup {NULL}]
  BY <1>3
<1>5. \A a, b \in Home!Scored : a # b =>
        f[a] # f[b] /\ (score[a] > score[b] => f[a] < f[b])
  BY HomeCard DEF Home!Rankings
<1>6. \A s \in Specs : table'[s] # NULL =>
        s \in Home!Scored /\ table'[s] = [rank |-> f[s], score |-> score[s], run |-> n]
  OBVIOUS
<1>7. Home!OneCalculation'
  <2> SUFFICES ASSUME NEW a \in Specs, NEW b \in Specs, table'[a] # NULL,
                      table'[b] # NULL, a # b
               PROVE  /\ table'[a].run = table'[b].run
                      /\ table'[a].rank # table'[b].rank
                      /\ table'[a].score > table'[b].score
                            => table'[a].rank < table'[b].rank
    BY DEF Home!OneCalculation, Home!Ranked
  <2> QED
    BY <1>5, <1>6
<1> QED
  BY <1>4, <1>7

\* A table that did not change, or lost rows, is as good as before.
LEMMA FewerRows ==
    ASSUME Home!OneCalculation, table \in [Specs -> Home!Rows \cup {NULL}],
           table' \in [Specs -> Home!Rows \cup {NULL}],
           \A s \in Specs : table'[s] # NULL => table'[s] = table[s]
    PROVE  Home!OneCalculation'
BY DEF Home!OneCalculation, Home!Ranked

----------------------------------------------------------------------------

\* Init starts with no rows or with those of one older calculation.
LEMMA SectionInit == ASSUME SectionAssumption, Home!Init PROVE Home!RankingsInv
<1> USE DEF SectionAssumption, Home!RankingsAssumption
<1>1. live \in SUBSET Specs /\ score \in [Specs -> 0..MaxScore]
  BY DEF Home!Init
<1>2. table \in [Specs -> Home!Rows \cup {NULL}] /\ Home!OneCalculation
  <2>1. CASE table = [s \in Specs |-> NULL]
    BY <2>1 DEF Home!OneCalculation, Home!Ranked
  <2>2. ASSUME NEW f \in Home!Rankings(Home!Scored),
               table = [s \in Specs |-> IF s \notin Home!Scored THEN NULL
                    ELSE [rank |-> f[s], score |-> score[s], run |-> 0]]
        PROVE  table \in [Specs -> Home!Rows \cup {NULL}] /\ Home!OneCalculation
    <3>1. Home!Scored \in SUBSET Specs /\ \A s \in Home!Scored : score[s] \in 1..MaxScore
      BY <1>1 DEF Home!Scored
    <3>2. \A s \in Home!Scored :
            [rank |-> f[s], score |-> score[s], run |-> 0] \in Home!Rows
      BY <3>1, RankingsFit, HomeCard DEF Home!Rows
    <3>3. \A a, b \in Home!Scored : a # b =>
            f[a] # f[b] /\ (score[a] > score[b] => f[a] < f[b])
      BY HomeCard DEF Home!Rankings
    <3>4. \A s \in Home!Ranked(table) : s \in Home!Scored
            /\ table[s] = [rank |-> f[s], score |-> score[s], run |-> 0]
      BY <2>2 DEF Home!Ranked
    <3>5. table \in [Specs -> Home!Rows \cup {NULL}]
      BY <2>2, <3>2
    <3>6. Home!OneCalculation
      <4> SUFFICES ASSUME NEW a \in Home!Ranked(table), NEW b \in Home!Ranked(table), a # b
                   PROVE  /\ table[a].run = table[b].run
                          /\ table[a].rank # table[b].rank
                          /\ table[a].score > table[b].score
                                => table[a].rank < table[b].rank
        BY DEF Home!OneCalculation
      <4>0. /\ table[a] = [rank |-> f[a], score |-> score[a], run |-> 0]
            /\ table[b] = [rank |-> f[b], score |-> score[b], run |-> 0]
        BY <3>4
      <4>1. /\ table[a].run = 0 /\ table[b].run = 0
            /\ table[a].rank = f[a] /\ table[b].rank = f[b]
            /\ table[a].score = score[a] /\ table[b].score = score[b]
        BY <4>0
      <4> QED
        BY <3>3, <3>4, <4>1
    <3> QED
      BY <3>5, <3>6
  <2> QED
    BY <2>1, <2>2 DEF Home!Init
<1>3. Home!LockHeldByWorker
  BY DEF Home!Init, Home!LockHeldByWorker, SectionAssumption
<1> QED
  <2>1. run \in 0..MaxRuns /\ lost \in 0..MaxLosses
    BY DEF Home!Init
  <2>2. home \in [Visitors -> Home!Stages]
    BY DEF Home!Init, Home!Stages
  <2>3. fresh \in BOOLEAN /\ unlucky \in BOOLEAN /\ gone \in SUBSET Specs
            /\ lock \in Visitors \cup {NULL}
    BY DEF Home!Init
  <2> QED
    BY <1>1, <1>2, <1>3, <2>1, <2>2, <2>3 DEF Home!RankingsInv, Home!TypeOK

\* Each action, and under it what it can disturb.
LEMMA SectionStep ==
    ASSUME SectionAssumption, Home!RankingsInv, [Home!Next]_Home!vars PROVE Home!RankingsInv'
<1> USE DEF SectionAssumption, Home!RankingsAssumption, Home!RankingsInv
<1>1. ASSUME NEW s \in Specs, Home!Relist(s) \/ Home!Rescore(s) PROVE Home!RankingsInv'
  BY <1>1, FewerRows DEF Home!Relist, Home!Rescore, Home!TypeOK, Home!LockHeldByWorker
<1>2. ASSUME NEW s \in Specs, Home!DeleteSpec(s) PROVE Home!RankingsInv'
  <2>1. Home!TypeOK' /\ \A t \in Specs : table'[t] # NULL => table'[t] = table[t]
    BY <1>2 DEF Home!DeleteSpec, Home!TypeOK
  <2>2. Home!OneCalculation'
    BY <2>1, FewerRows DEF Home!TypeOK
  <2> QED
    BY <1>2, <2>1, <2>2 DEF Home!DeleteSpec, Home!LockHeldByWorker
<1>3. CASE Home!WindowEnds
  BY <1>3, FewerRows DEF Home!WindowEnds, Home!TypeOK, Home!LockHeldByWorker
<1>4. ASSUME NEW r \in Visitors, Home!HomeBegin(r) \/ Home!CheckFreshness(r) \/ Home!Answer(r)
      PROVE  Home!RankingsInv'
  <2>1. Home!TypeOK'
    BY <1>4 DEF Home!HomeBegin, Home!CheckFreshness, Home!Answer, Home!GoTo, Home!Fault, Home!TypeOK, Home!Stages
  <2>2. Home!LockHeldByWorker'
    BY <1>4 DEF Home!HomeBegin, Home!CheckFreshness, Home!Answer, Home!GoTo, Home!TypeOK, Home!LockHeldByWorker
  <2> QED
    BY <1>4, <2>1, <2>2, FewerRows DEF Home!HomeBegin, Home!CheckFreshness, Home!Answer, Home!TypeOK
<1>5. ASSUME NEW r \in Visitors, Home!TryLock(r) PROVE Home!RankingsInv'
  <2>1. Home!TypeOK'
    BY <1>5 DEF Home!TryLock, Home!GoTo, Home!Fault, Home!TypeOK, Home!Stages
  <2>2. Home!LockHeldByWorker'
    BY <1>5 DEF Home!TryLock, Home!GoTo, Home!TypeOK, Home!LockHeldByWorker
  <2> QED
    BY <1>5, <2>1, <2>2, FewerRows DEF Home!TryLock, Home!TypeOK
<1>6. ASSUME NEW r \in Visitors, Home!Recalculate(r) PROVE Home!RankingsInv'
  <2>1. table' \in [Specs -> Home!Rows \cup {NULL}] /\ Home!OneCalculation'
    <3>1. CASE UNCHANGED table
      BY <3>1, FewerRows DEF Home!TypeOK
    <3>2. ASSUME run < MaxRuns, NEW f \in Home!Rankings(Home!Scored), table' = Home!Replaced(f)
          PROVE  table' \in [Specs -> Home!Rows \cup {NULL}] /\ Home!OneCalculation'
      <4>1. run + 1 \in 0..MaxRuns
        BY <3>2 DEF Home!TypeOK
      <4> QED
        BY <3>2, <4>1, OutcomeIsOne DEF Home!Replaced
    <3> QED
      BY <1>6, <3>1, <3>2 DEF Home!Recalculate
  <2>2. Home!TypeOK'
    <3>1. run' \in 0..MaxRuns /\ lost' \in 0..MaxLosses
      <4>1. UNCHANGED run \/ (run < MaxRuns /\ run' = run + 1)
        BY <1>6 DEF Home!Recalculate
      <4>2. UNCHANGED lost \/ Home!Fault
        BY <1>6 DEF Home!Recalculate
      <4> QED
        BY <4>1, <4>2 DEF Home!Fault, Home!TypeOK
    <3>2. fresh' \in BOOLEAN /\ unlucky' \in BOOLEAN
      BY <1>6 DEF Home!Recalculate, Home!TypeOK
    <3>3. lock' \in Visitors \cup {NULL} /\ home' \in [Visitors -> Home!Stages]
      BY <1>6 DEF Home!Recalculate, Home!Released, Home!GoTo, Home!TypeOK, Home!Stages
    <3> QED
      BY <1>6, <2>1, <3>1, <3>2, <3>3 DEF Home!Recalculate, Home!TypeOK
  <2>3. Home!LockHeldByWorker'
    BY <1>6 DEF Home!Recalculate, Home!Released, Home!GoTo, Home!TypeOK, Home!LockHeldByWorker
  <2> QED
    BY <2>1, <2>2, <2>3
<1>7. ASSUME NEW r \in Visitors, Home!RequestDies(r) PROVE Home!RankingsInv'
  <2>1. Home!TypeOK'
    BY <1>7 DEF Home!RequestDies, Home!Released, Home!GoTo, Home!Fault, Home!TypeOK, Home!Stages
  <2>2. Home!LockHeldByWorker'
    BY <1>7 DEF Home!RequestDies, Home!Released, Home!GoTo, Home!TypeOK, Home!LockHeldByWorker
  <2> QED
    BY <1>7, <2>1, <2>2, FewerRows DEF Home!RequestDies, Home!TypeOK
<1>8. CASE UNCHANGED Home!vars
  BY <1>8, FewerRows DEF Home!vars, Home!TypeOK, Home!LockHeldByWorker
<1> QED
  BY <1>1, <1>2, <1>3, <1>4, <1>5, <1>6, <1>7, <1>8 DEF Home!Next, Home!Work

\* The rows, the lock and the requests together are an inductive invariant.
THEOREM SectionHolds == ASSUME SectionAssumption PROVE Home!Spec => []RankingsInv
<1>1. Home!Init => RankingsInv
  BY SectionInit DEF RankingsInv
<1>2. RankingsInv /\ [Home!Next]_Home!vars => RankingsInv'
  BY SectionStep DEF RankingsInv
<1> QED
  BY <1>1, <1>2, PTL DEF Home!Spec

\* Whatever requests, failures and deletions come between, the rows are those
\* of one calculation.
THEOREM SectionIsOneCalculation ==
    ASSUME SectionAssumption PROVE Home!Spec => []Home!OneCalculation
<1>1. RankingsInv => Home!OneCalculation
  BY DEF RankingsInv, Home!RankingsInv
<1> QED
  BY <1>1, SectionHolds, PTL

\* The advisory lock is free whenever no request is about to calculate.
THEOREM LockIsReleased ==
    ASSUME SectionAssumption PROVE Home!Spec => []Home!LockHeldByWorker
<1>1. RankingsInv => Home!LockHeldByWorker
  BY DEF RankingsInv, Home!RankingsInv
<1> QED
  BY <1>1, SectionHolds, PTL

----------------------------------------------------------------------------
(* Induction, and sums over sequences.                                     *)

\* A set of naturals has a least element.
LEMMA LeastNatural ==
    ASSUME NEW T, T \subseteq Nat, T # {}
    PROVE  \E x \in T : \A y \in T : x <= y
<1>1. IsWellFoundedOn(OpToRel(<, Nat), Nat)
  BY NatLessThanWellFounded
<1>2. PICK x \in T : \A y \in T : ~(<<y, x>> \in OpToRel(<, Nat))
  BY <1>1, WFMin
<1>3. \A y \in T : ~(y < x)
  BY <1>2 DEF OpToRel
<1> QED
  BY <1>3

\* Induction, as a fact about sets: the formula to prove is the set's.
LEMMA Induction ==
    ASSUME NEW T, 0 \in T, \A n \in Nat : n \in T => n + 1 \in T
    PROVE  \A n \in Nat : n \in T
<1> SUFFICES ASSUME Nat \ T # {} PROVE FALSE
  OBVIOUS
<1>1. PICK x \in Nat \ T : \A y \in Nat \ T : x <= y
  BY LeastNatural
<1>2. x # 0 /\ x - 1 \in Nat /\ x - 1 \in T
  BY <1>1
<1> QED
  BY <1>1, <1>2

\* g holds the sums of the first numbers of a, up to the n-th.
Adds(g, base, a, n) ==
    g = [i \in 0..n |-> IF i = 0 THEN base ELSE g[i - 1] + a[i]]

\* The sums can be made up to any number ...
LEMMA AddsUpTo == ASSUME NEW base, NEW a, NEW n \in Nat PROVE \E g : Adds(g, base, a, n)
<1> DEFINE T == {m \in Nat : \E g : Adds(g, base, a, m)}
<1>1. 0 \in T
  <2> DEFINE g == [i \in 0..0 |-> base]
  <2>1. Adds(g, base, a, 0)
    BY DEF Adds
  <2> QED
    BY <2>1
<1>2. ASSUME NEW m \in Nat, m \in T PROVE m + 1 \in T
  <2>1. PICK g : Adds(g, base, a, m)
    BY <1>2
  <2> DEFINE h == [i \in 0..(m + 1) |-> IF i = m + 1 THEN g[m] + a[m + 1] ELSE g[i]]
  <2>2. Adds(h, base, a, m + 1)
    <3>1. ASSUME NEW i \in 0..(m + 1)
          PROVE  h[i] = IF i = 0 THEN base ELSE h[i - 1] + a[i]
      <4>1. \A j \in 0..m : g[j] = IF j = 0 THEN base ELSE g[j - 1] + a[j]
        BY <2>1 DEF Adds
      <4>2. CASE i = m + 1
        BY <4>2
      <4>3. CASE i # m + 1
        BY <4>1, <4>3
      <4> QED
        BY <4>2, <4>3
    <3> HIDE DEF h
    <3>2. h = [i \in 0..(m + 1) |-> h[i]]
      BY DEF h
    <3> QED
      BY <3>1, <3>2 DEF Adds
  <2> HIDE DEF h
  <2> QED
    BY <2>2
<1> HIDE DEF T
<1>3. \A m \in Nat : m \in T
  BY <1>1, <1>2, Induction
<1> QED
  BY <1>3 DEF T

\* ... in one way ...
LEMMA AddsOnce ==
    ASSUME NEW base, NEW a, NEW m \in Nat, NEW n \in Nat, NEW g, NEW h,
           Adds(g, base, a, m), Adds(h, base, a, n),
           NEW k \in 0..m, k \in 0..n
    PROVE  g[k] = h[k]
<1> DEFINE T == {i \in Nat : i \in 0..m /\ i \in 0..n => g[i] = h[i]}
<1>1. /\ \A j \in 0..m : g[j] = IF j = 0 THEN base ELSE g[j - 1] + a[j]
      /\ \A j \in 0..n : h[j] = IF j = 0 THEN base ELSE h[j - 1] + a[j]
  BY DEF Adds
<1>2. 0 \in T
  BY <1>1
<1>3. ASSUME NEW i \in Nat, i \in T PROVE i + 1 \in T
  <2>1. CASE i + 1 \in 0..m /\ i + 1 \in 0..n
    <3>1. g[i] = h[i] /\ g[i + 1] = g[i] + a[i + 1] /\ h[i + 1] = h[i] + a[i + 1]
       BY <1>1, <1>3, <2>1
    <3> QED
      BY <3>1
  <2> QED
    BY <2>1
<1> HIDE DEF T
<1>4. \A i \in Nat : i \in T
  BY <1>2, <1>3, Induction
<1> QED
  BY <1>4 DEF T

\* ... and so for all of them.
LEMMA AddsAll ==
    ASSUME NEW base, NEW a
    PROVE  \E g : g = [i \in Nat |-> IF i = 0 THEN base ELSE g[i - 1] + a[i]]
<1> DEFINE f == [n \in Nat |-> CHOOSE g : Adds(g, base, a, n)]
           h == [n \in Nat |-> f[n][n]]
<1>1. ASSUME NEW n \in Nat PROVE Adds(f[n], base, a, n)
  BY AddsUpTo
<1> HIDE DEF f
<1>2. ASSUME NEW i \in Nat PROVE h[i] = IF i = 0 THEN base ELSE h[i - 1] + a[i]
  <2>1. f[i][i] = IF i = 0 THEN base ELSE f[i][i - 1] + a[i]
    <3> DEFINE g == f[i]
    <3>1. g = [j \in 0..i |-> IF j = 0 THEN base ELSE g[j - 1] + a[j]]
      BY <1>1 DEF Adds
    <3> HIDE DEF g
    <3>2. g[i] = IF i = 0 THEN base ELSE g[i - 1] + a[i]
      BY <3>1
    <3> QED
      BY <3>2 DEF g
  <2>2. i # 0 => f[i][i - 1] = f[i - 1][i - 1]
    <3> SUFFICES ASSUME i # 0 PROVE f[i][i - 1] = f[i - 1][i - 1]
      OBVIOUS
    <3>1. i - 1 \in Nat /\ i - 1 \in 0..i /\ i - 1 \in 0..(i - 1)
      OBVIOUS
    <3> DEFINE k == i - 1
    <3>2. Adds(f[i], base, a, i) /\ Adds(f[k], base, a, k)
      BY <1>1, <3>1
    <3> HIDE DEF k
    <3>3. f[i][k] = f[k][k]
      BY <3>1, <3>2, AddsOnce DEF k
    <3> QED
      BY <3>3 DEF k
  <2> QED
    BY <2>1, <2>2
<1>3. h = [i \in Nat |-> h[i]]
  OBVIOUS
<1> HIDE DEF h
<1> QED
  BY <1>2, <1>3

\* The sum of the first n numbers of a, from a base on.
SumTo(base, a, n) ==
    LET upTo[i \in Nat] == IF i = 0 THEN base ELSE upTo[i - 1] + a[i]
    IN  upTo[n]

\* What the recursion says.
LEMMA SumStep ==
    ASSUME NEW base, NEW a
    PROVE  /\ SumTo(base, a, 0) = base
           /\ \A n, m : n \in Nat /\ m = n + 1 =>
                SumTo(base, a, m) = SumTo(base, a, n) + a[m]
<1> DEFINE up == CHOOSE g : g = [i \in Nat |-> IF i = 0 THEN base ELSE g[i - 1] + a[i]]
<1>1. up = [i \in Nat |-> IF i = 0 THEN base ELSE up[i - 1] + a[i]]
  BY AddsAll
<1>2. \A n : SumTo(base, a, n) = up[n]
  BY DEF SumTo
<1> HIDE DEF up
<1>3. up[0] = base /\ \A n \in Nat : up[n + 1] = up[n] + a[n + 1]
  BY <1>1
<1>4. ASSUME NEW n, NEW m, n \in Nat, m = n + 1 PROVE up[m] = up[n] + a[m]
  BY <1>3, <1>4
<1> QED
  BY <1>2, <1>3, <1>4

\* The same, for one more number at a time.
LEMMA SumNext ==
    \A base, a, n, m : n \in Nat /\ m = n + 1 =>
        SumTo(base, a, m) = SumTo(base, a, n) + a[m]
BY SumStep

\* The same, for a given number of them.
LEMMA SumMore ==
    ASSUME NEW base, NEW n \in Nat
    PROVE  \A a : SumTo(base, a, n + 1) = SumTo(base, a, n) + a[n + 1]
BY SumNext

\* Sums of naturals are naturals.
LEMMA SumNat ==
    ASSUME NEW base \in Nat, NEW a, NEW n \in Nat, \A i \in 1..n : a[i] \in Nat
    PROVE  SumTo(base, a, n) \in Nat
<1> DEFINE T == {m \in Nat : m <= n => SumTo(base, a, m) \in Nat}
<1>1. 0 \in T
  BY SumStep
<1>2. ASSUME NEW m \in Nat, m \in T PROVE m + 1 \in T
  BY <1>2, SumNext
<1> HIDE DEF T
<1>3. \A m \in Nat : m \in T
  BY <1>1, <1>2, Induction
<1> QED
  BY <1>3 DEF T

\* Only the first n numbers count.
LEMMA SumSame ==
    ASSUME NEW base, NEW a, NEW b, NEW n \in Nat, \A i \in 1..n : a[i] = b[i]
    PROVE  SumTo(base, a, n) = SumTo(base, b, n)
<1> DEFINE T == {m \in Nat : m <= n => SumTo(base, a, m) = SumTo(base, b, m)}
<1>1. 0 \in T
  BY SumStep
<1>2. ASSUME NEW m \in Nat, m \in T PROVE m + 1 \in T
  <2>1. /\ SumTo(base, a, m + 1) = SumTo(base, a, m) + a[m + 1]
        /\ SumTo(base, b, m + 1) = SumTo(base, b, m) + b[m + 1]
    BY SumNext
  <2> QED
    BY <1>2, <2>1
<1> HIDE DEF T
<1>3. \A m \in Nat : m \in T
  BY <1>1, <1>2, Induction
<1> QED
  BY <1>3 DEF T

\* Numbers may be added two by two.
LEMMA SumPairs ==
    ASSUME NEW a, NEW b, NEW n \in Nat,
           \A i \in 1..(2 * n) : a[i] \in Nat,
           \A i \in 1..n : b[i] = a[2 * i - 1] + a[2 * i]
    PROVE  SumTo(0, b, n) = SumTo(0, a, 2 * n)
<1> DEFINE T == {m \in Nat : m <= n => SumTo(0, b, m) = SumTo(0, a, 2 * m)}
<1>1. 0 \in T
  BY SumStep
<1>2. ASSUME NEW m \in Nat, m \in T PROVE m + 1 \in T
  <2> SUFFICES ASSUME m + 1 <= n
               PROVE  SumTo(0, b, m + 1) = SumTo(0, a, 2 * (m + 1))
    OBVIOUS
  <2>1. SumTo(0, b, m + 1) = SumTo(0, a, 2 * m) + b[m + 1]
    <3>1. SumTo(0, b, m + 1) = SumTo(0, b, m) + b[m + 1]
      BY ONLY m \in Nat, SumNext
    <3>2. SumTo(0, b, m) = SumTo(0, a, 2 * m)
      BY <1>2
    <3> QED
      BY <3>1, <3>2
  <2>2. b[m + 1] = a[2 * m + 1] + a[2 * m + 2]
    <3>1. 2 * (m + 1) - 1 = 2 * m + 1 /\ 2 * (m + 1) = 2 * m + 2 /\ m + 1 \in 1..n
      OBVIOUS
    <3> QED
      BY <3>1
  <2>3. SumTo(0, a, 2 * m + 2) = (SumTo(0, a, 2 * m) + a[2 * m + 1]) + a[2 * m + 2]
    <3>1. 2 * m \in Nat /\ 2 * m + 1 \in Nat /\ (2 * m + 1) + 1 = 2 * m + 2
      OBVIOUS
    <3>2. SumTo(0, a, 2 * m + 1) = SumTo(0, a, 2 * m) + a[2 * m + 1]
      BY <3>1, SumNext
    <3>3. SumTo(0, a, (2 * m + 1) + 1) = SumTo(0, a, 2 * m + 1) + a[(2 * m + 1) + 1]
      BY <3>1, SumNext
    <3> QED
      BY <3>1, <3>2, <3>3
  <2>4. /\ a[2 * m + 1] \in Nat /\ a[2 * m + 2] \in Nat
        /\ SumTo(0, a, 2 * m) \in Nat
    BY SumNat
  <2>5. 2 * (m + 1) = 2 * m + 2
    OBVIOUS
  <2> QED
    BY <2>1, <2>2, <2>3, <2>4, <2>5
<1> HIDE DEF T
<1>3. \A m \in Nat : m \in T
  BY <1>1, <1>2, Induction
<1> QED
  BY <1>3 DEF T

\* Sums grow, by what is added at least.
LEMMA SumGrows ==
    ASSUME NEW base \in Nat, NEW a, NEW n \in Nat, \A i \in 1..n : a[i] \in Nat,
           NEW m \in Nat, m < n
    PROVE  SumTo(base, a, m) + a[m + 1] <= SumTo(base, a, n)
<1> DEFINE T == {k \in Nat : m + 1 + k <= n =>
                    SumTo(base, a, m + 1) <= SumTo(base, a, m + 1 + k)}
<1>1. 0 \in T
  BY SumNat
<1>2. ASSUME NEW k \in Nat, k \in T PROVE k + 1 \in T
  <2> SUFFICES ASSUME m + 1 + (k + 1) <= n
               PROVE  SumTo(base, a, m + 1) <= SumTo(base, a, m + 1 + (k + 1))
    OBVIOUS
  <2> DEFINE j == m + 1 + k
  <2>1. j \in Nat /\ j <= n /\ j + 1 \in 1..n /\ m + 1 + (k + 1) = j + 1
    OBVIOUS
  <2>2. SumTo(base, a, m + 1) <= SumTo(base, a, j)
    BY <1>2, <2>1
  <2> HIDE DEF j
  <2>3. SumTo(base, a, j + 1) = SumTo(base, a, j) + a[j + 1]
    BY <2>1, SumNext
  <2>5. a[j + 1] \in Nat
    BY <2>1
  <2>4. SumTo(base, a, j) \in Nat /\ SumTo(base, a, m + 1) \in Nat
    BY <2>1, SumNat
  <2> QED
    BY <2>1, <2>2, <2>3, <2>4, <2>5
<1> HIDE DEF T
<1>3. \A k \in Nat : k \in T
  BY <1>1, <1>2, Induction
<1>4. n - (m + 1) \in Nat /\ m + 1 + (n - (m + 1)) = n
  OBVIOUS
<1>5. SumTo(base, a, m + 1) <= SumTo(base, a, n)
  BY <1>3, <1>4 DEF T
<1> QED
  BY <1>5, SumNext

----------------------------------------------------------------------------
(* The waveform.                                                           *)

USE DEF Wave!buffer, Wave!summary

\* Every byte delivered belongs to a frame seen, a frame still in the buffer,
\* or the start of the next frame.
BytesKept ==
    /\ totalFrames + ready = delivered \div Wave!FrameBytes
    /\ pending = delivered % Wave!FrameBytes

\* The limit is checked with every frame, a chunk counts frames, and the last
\* one is closed at the end.
WithinLimit ==
    /\ status = "reading" => totalFrames <= FrameLimit
    /\ totalFrames = 0 => chunk.count = 0
    /\ status = "done" => totalFrames # 0 /\ chunk.count = 0

\* Every frame seen is counted in a chunk, and its loudness summed.
FramesKept ==
    /\ Wave!Total(Wave!Counts(chunks)) + chunk.count = totalFrames
    /\ Wave!Total(Wave!Sums(chunks)) + chunk.sum = loud

WaveIInv ==
    Wave!TypeOK /\ BytesKept /\ FramesKept /\ WithinLimit /\ Wave!EqualWindows

----------------------------------------------------------------------------

\* No chunk, no total.
LEMMA TotalOfNone == Wave!Total(Wave!Counts(<<>>)) = 0 /\ Wave!Total(Wave!Sums(<<>>)) = 0
<1>1. Wave!Counts(<<>>) = <<>> /\ Wave!Sums(<<>>) = <<>>
  BY DEF Wave!Counts, Wave!Sums
<1>2. Wave!Total(<<>>) = SumTo(0, <<>>, Len(<<>>)) /\ Len(<<>>) = 0
  BY DEF Wave!Total, SumTo
<1> QED
  BY <1>1, <1>2, SumStep

\* Nothing has been read.
LEMMA WaveInit == ASSUME Wave!WaveformAssumption, Wave!Init PROVE WaveIInv
<1> USE DEF Wave!Init, Wave!WaveformAssumption
<1>1. Wave!TypeOK
  BY DEF Wave!TypeOK, Wave!Chunk, Wave!NoChunk, Wave!FrameBytes
<1>2. BytesKept /\ WithinLimit
  BY DEF BytesKept, WithinLimit, Wave!NoChunk, Wave!FrameBytes
<1>3. Wave!EqualWindows
  <2>1. DOMAIN chunks = {}
    BY DEF Wave!Init
  <2> QED
    BY <2>1 DEF Wave!EqualWindows, Wave!NoChunk
<1>4. FramesKept
  BY TotalOfNone DEF FramesKept, Wave!NoChunk
<1> QED
  BY <1>1, <1>2, <1>3, <1>4 DEF WaveIInv

\* Joining two chunks gives a chunk.
LEMMA JoinedTyped ==
    ASSUME NEW a \in Wave!Chunk, NEW b \in Wave!Chunk
    PROVE  Wave!Joined(a, b) \in Wave!Chunk
<1>1. a.count \in Nat /\ a.sum \in Nat /\ b.count \in Nat /\ b.sum \in Nat
  BY DEF Wave!Chunk
<1>2. a.count + b.count \in Nat /\ a.sum + b.sum \in Nat
  BY <1>1
<1> QED
  BY <1>2 DEF Wave!Joined, Wave!Chunk

\* Merging an even number of chunks joins each with its neighbour.
LEMMA MergedIsHalf ==
    ASSUME NEW s \in Seq(Wave!Chunk), NEW n \in Nat, Len(s) = 2 * n
    PROVE  /\ Wave!Merged(s) \in Seq(Wave!Chunk)
           /\ Len(Wave!Merged(s)) = n
           /\ DOMAIN Wave!Merged(s) = 1..n
           /\ \A i \in 1..n :
                /\ Wave!Merged(s)[i].count = s[2 * i - 1].count + s[2 * i].count
                /\ Wave!Merged(s)[i].sum = s[2 * i - 1].sum + s[2 * i].sum
<1>1. (Len(s) + 1) \div 2 = n
  OBVIOUS
<1>2. \A i \in 1..n : 2 * i <= Len(s) /\ 2 * i - 1 \in 1..Len(s) /\ 2 * i \in 1..Len(s)
  OBVIOUS
<1>3. \A i \in 1..n : s[2 * i - 1] \in Wave!Chunk /\ s[2 * i] \in Wave!Chunk
  BY <1>2
<1>4. Wave!Merged(s) = [i \in 1..n |-> Wave!Joined(s[2 * i - 1], s[2 * i])]
  BY <1>1, <1>2 DEF Wave!Merged
<1>5. \A i \in 1..n : Wave!Joined(s[2 * i - 1], s[2 * i]) \in Wave!Chunk
  BY <1>3, JoinedTyped
<1>6. Wave!Merged(s) \in [1..n -> Wave!Chunk]
  BY <1>4, <1>5
<1>7. Wave!Merged(s) \in Seq(Wave!Chunk) /\ Len(Wave!Merged(s)) = n
  BY <1>6
<1> QED
  BY <1>4, <1>6, <1>7 DEF Wave!Joined

\* The bound is half of an even number's worth above what is left after it
\* was reached.
LEMMA HalfOfBound ==
    ASSUME Wave!WaveformAssumption
    PROVE  \E n \in Nat : n > 0 /\ maxWaveformChunks = 2 * n
<1>1. maxWaveformChunks \in Nat /\ maxWaveformChunks >= 2 /\ maxWaveformChunks % 2 = 0
  BY DEF Wave!WaveformAssumption
<1>2. maxWaveformChunks = 2 * (maxWaveformChunks \div 2)
  BY <1>1
<1>3. maxWaveformChunks \div 2 \in Nat /\ maxWaveformChunks \div 2 > 0
  BY <1>1
<1> QED
  BY <1>2, <1>3

\* A chunk that is closed: full ones and, at the very end, a shorter one.
\* Afterwards there are fewer chunks than the bound, all full but the last.
LEMMA FlushKeepsWindows ==
    ASSUME Wave!WaveformAssumption, Wave!TypeOK, NEW c \in Wave!Chunk, c.count \in 1..chunkFrames,
           \A i \in DOMAIN chunks : chunks[i].count = chunkFrames,
           Wave!Flush(c)
    PROVE  /\ chunks' \in Seq(Wave!Chunk) /\ Len(chunks') < maxWaveformChunks
           /\ chunk' = Wave!NoChunk
           /\ chunkFrames' \in Nat \ {0}
           /\ \A i \in DOMAIN chunks' :
                IF i = Len(chunks') THEN chunks'[i].count \in 1..chunkFrames'
                                    ELSE chunks'[i].count = chunkFrames'
           /\ c.count = chunkFrames =>
                \A i \in DOMAIN chunks' : chunks'[i].count = chunkFrames'
<1> DEFINE all == Append(chunks, c)
<1>1. chunks \in Seq(Wave!Chunk) /\ Len(chunks) \in Nat /\ Len(chunks) < maxWaveformChunks
        /\ chunkFrames \in Nat \ {0} /\ maxWaveformChunks \in Nat
  BY DEF Wave!TypeOK, Wave!WaveformAssumption
<1>2. /\ all \in Seq(Wave!Chunk) /\ Len(all) = Len(chunks) + 1
      /\ all[Len(all)] = c
      /\ \A i \in 1..Len(chunks) : all[i] = chunks[i]
  BY <1>1
<1>3. \A i \in 1..Len(all) :
        IF i = Len(all) THEN all[i] = c ELSE all[i].count = chunkFrames
  BY <1>1, <1>2
<1>4. chunk' = Wave!NoChunk
  BY DEF Wave!Flush
<1>5. CASE Wave!TooMany(all)
  <2>1. PICK n \in Nat : n > 0 /\ maxWaveformChunks = 2 * n
    BY HalfOfBound
  <2>2. Len(all) = 2 * n
    BY <1>1, <1>2, <1>5, <2>1 DEF Wave!TooMany
  <2>3. chunks' = Wave!Merged(all) /\ chunkFrames' = 2 * chunkFrames
    BY <1>5 DEF Wave!Flush, Wave!Widened
  <2>4. /\ chunks' \in Seq(Wave!Chunk) /\ Len(chunks') = n /\ DOMAIN chunks' = 1..n
        /\ \A i \in 1..n : chunks'[i].count = all[2 * i - 1].count + all[2 * i].count
    BY <1>2, <2>2, <2>3, MergedIsHalf
  <2>5. \A i \in 1..n : 2 * i - 1 \in 1..Len(all) /\ 2 * i \in 1..Len(all)
            /\ 2 * i - 1 # Len(all) /\ (2 * i = Len(all) <=> i = n)
    BY <2>2
  <2>6. \A i \in 1..n : IF i = n THEN chunks'[i].count = chunkFrames + c.count
                        ELSE chunks'[i].count = chunkFrames + chunkFrames
    BY <1>3, <2>4, <2>5
  <2> QED
    <3>1. chunkFrames' \in Nat \ {0}
      BY <1>1, <2>3
    <3>2. \A i \in 1..n : IF i = n THEN chunks'[i].count \in 1..chunkFrames'
                          ELSE chunks'[i].count = chunkFrames'
      BY <1>1, <2>3, <2>6
    <3>3. c.count = chunkFrames => \A i \in 1..n : chunks'[i].count = chunkFrames'
      BY <1>1, <2>3, <2>6
    <3>4. n < maxWaveformChunks
      BY <2>1
    <3> QED
      BY <1>4, <2>4, <3>1, <3>2, <3>3, <3>4
<1>6. CASE ~Wave!TooMany(all)
  <2>1. chunks' = all /\ chunkFrames' = chunkFrames
    BY <1>6 DEF Wave!Flush
  <2>2. Len(all) < maxWaveformChunks
    BY <1>1, <1>2, <1>6 DEF Wave!TooMany
  <2>3. DOMAIN all = 1..Len(all)
    BY <1>2
  <2> QED
    BY <1>1, <1>2, <1>3, <1>4, <2>1, <2>2, <2>3
<1> QED
  BY <1>5, <1>6

\* The totals of the chunks with one more.
LEMMA TotalOfAppended ==
    ASSUME NEW s \in Seq(Wave!Chunk), NEW c \in Wave!Chunk
    PROVE  /\ Wave!Total(Wave!Counts(s)) \in Nat
           /\ Wave!Total(Wave!Counts(Append(s, c))) = Wave!Total(Wave!Counts(s)) + c.count
           /\ Wave!Total(Wave!Sums(s)) \in Nat
           /\ Wave!Total(Wave!Sums(Append(s, c))) = Wave!Total(Wave!Sums(s)) + c.sum
<1> DEFINE all == Append(s, c)
           n == Len(s)
<1>1. /\ n \in Nat /\ DOMAIN s = 1..n /\ DOMAIN all = 1..(n + 1) /\ Len(all) = n + 1
      /\ all[n + 1] = c /\ \A i \in 1..n : all[i] = s[i] /\ s[i] \in Wave!Chunk
  OBVIOUS
<1> HIDE DEF all, n
<1>2. /\ Wave!Total(Wave!Counts(s)) = SumTo(0, Wave!Counts(s), n)
      /\ Wave!Total(Wave!Counts(all)) = SumTo(0, Wave!Counts(all), n + 1)
      /\ Wave!Total(Wave!Sums(s)) = SumTo(0, Wave!Sums(s), n)
      /\ Wave!Total(Wave!Sums(all)) = SumTo(0, Wave!Sums(all), n + 1)
  <2>1. /\ Len(Wave!Counts(s)) = n /\ Len(Wave!Counts(all)) = n + 1
        /\ Len(Wave!Sums(s)) = n /\ Len(Wave!Sums(all)) = n + 1
    BY <1>1 DEF Wave!Counts, Wave!Sums
  <2>2. \A a : Wave!Total(a) = SumTo(0, a, Len(a))
    BY DEF Wave!Total, SumTo
  <2> QED
    BY <2>1, <2>2
<1>3. \A i \in 1..n : /\ Wave!Counts(s)[i] \in Nat /\ Wave!Sums(s)[i] \in Nat
                      /\ Wave!Counts(all)[i] = Wave!Counts(s)[i]
                      /\ Wave!Sums(all)[i] = Wave!Sums(s)[i]
  BY <1>1 DEF Wave!Counts, Wave!Sums, Wave!Chunk
<1>4. Wave!Counts(all)[n + 1] = c.count /\ Wave!Sums(all)[n + 1] = c.sum
  BY <1>1 DEF Wave!Counts, Wave!Sums
<1>5. /\ SumTo(0, Wave!Counts(s), n) \in Nat /\ SumTo(0, Wave!Sums(s), n) \in Nat
      /\ SumTo(0, Wave!Counts(all), n) = SumTo(0, Wave!Counts(s), n)
      /\ SumTo(0, Wave!Sums(all), n) = SumTo(0, Wave!Sums(s), n)
  BY <1>1, <1>3, SumNat, SumSame
<1>6. /\ SumTo(0, Wave!Counts(all), n + 1) = SumTo(0, Wave!Counts(all), n) + c.count
      /\ SumTo(0, Wave!Sums(all), n + 1) = SumTo(0, Wave!Sums(all), n) + c.sum
  <2>1. n \in Nat
    BY <1>1
  <2>2. \A a : SumTo(0, a, n + 1) = SumTo(0, a, n) + a[n + 1]
    BY ONLY <2>1, SumMore
  <2> QED
    BY <1>4, <2>2
<1> QED
  BY <1>2, <1>5, <1>6 DEF all

\* The totals of merged chunks are those of the chunks.
LEMMA TotalOfMerged ==
    ASSUME NEW s \in Seq(Wave!Chunk), NEW n \in Nat, Len(s) = 2 * n
    PROVE  /\ Wave!Total(Wave!Counts(Wave!Merged(s))) = Wave!Total(Wave!Counts(s))
           /\ Wave!Total(Wave!Sums(Wave!Merged(s))) = Wave!Total(Wave!Sums(s))
<1> DEFINE m == Wave!Merged(s)
<1>1. /\ DOMAIN s = 1..(2 * n) /\ \A i \in 1..(2 * n) : s[i] \in Wave!Chunk
      /\ DOMAIN m = 1..n /\ Len(m) = n
      /\ \A i \in 1..n : /\ m[i].count = s[2 * i - 1].count + s[2 * i].count
                         /\ m[i].sum = s[2 * i - 1].sum + s[2 * i].sum
  <2>1. Len(m) = n /\ DOMAIN m = 1..n
    BY MergedIsHalf
  <2>2. \A i \in 1..n : /\ m[i].count = s[2 * i - 1].count + s[2 * i].count
                        /\ m[i].sum = s[2 * i - 1].sum + s[2 * i].sum
    BY MergedIsHalf
  <2> HIDE DEF m
  <2>3. DOMAIN s = 1..(2 * n) /\ \A i \in 1..(2 * n) : s[i] \in Wave!Chunk
    OBVIOUS
  <2> QED
    BY <2>1, <2>2, <2>3
<1> HIDE DEF m
<1>2. /\ Wave!Total(Wave!Counts(s)) = SumTo(0, Wave!Counts(s), 2 * n)
      /\ Wave!Total(Wave!Counts(m)) = SumTo(0, Wave!Counts(m), n)
      /\ Wave!Total(Wave!Sums(s)) = SumTo(0, Wave!Sums(s), 2 * n)
      /\ Wave!Total(Wave!Sums(m)) = SumTo(0, Wave!Sums(m), n)
  <2>1. /\ Len(Wave!Counts(s)) = 2 * n /\ Len(Wave!Counts(m)) = n
        /\ Len(Wave!Sums(s)) = 2 * n /\ Len(Wave!Sums(m)) = n
    BY <1>1 DEF Wave!Counts, Wave!Sums
  <2>2. \A a : Wave!Total(a) = SumTo(0, a, Len(a))
    BY DEF Wave!Total, SumTo
  <2> QED
    BY <2>1, <2>2
<1>3. \A i \in 1..(2 * n) : Wave!Counts(s)[i] \in Nat /\ Wave!Sums(s)[i] \in Nat
  BY <1>1 DEF Wave!Counts, Wave!Sums, Wave!Chunk
<1>4. \A i \in 1..n :
        /\ Wave!Counts(m)[i] = Wave!Counts(s)[2 * i - 1] + Wave!Counts(s)[2 * i]
        /\ Wave!Sums(m)[i] = Wave!Sums(s)[2 * i - 1] + Wave!Sums(s)[2 * i]
  <2> SUFFICES ASSUME NEW i \in 1..n
               PROVE  /\ Wave!Counts(m)[i] = Wave!Counts(s)[2 * i - 1] + Wave!Counts(s)[2 * i]
                      /\ Wave!Sums(m)[i] = Wave!Sums(s)[2 * i - 1] + Wave!Sums(s)[2 * i]
    OBVIOUS
  <2>1. 2 * i - 1 \in 1..(2 * n) /\ 2 * i \in 1..(2 * n)
    OBVIOUS
  <2> QED
    BY <1>1, <2>1 DEF Wave!Counts, Wave!Sums
<1>5. SumTo(0, Wave!Counts(m), n) = SumTo(0, Wave!Counts(s), 2 * n)
  BY <1>3, <1>4, SumPairs
<1>6. SumTo(0, Wave!Sums(m), n) = SumTo(0, Wave!Sums(s), 2 * n)
  BY <1>3, <1>4, SumPairs
<1> QED
  BY <1>2, <1>5, <1>6 DEF m

\* Nothing is lost when a chunk is closed.
LEMMA FlushKeepsFrames ==
    ASSUME Wave!WaveformAssumption, Wave!TypeOK, NEW c \in Wave!Chunk, Wave!Flush(c),
           Wave!Total(Wave!Counts(chunks)) + c.count = totalFrames',
           Wave!Total(Wave!Sums(chunks)) + c.sum = loud'
    PROVE  FramesKept'
<1> DEFINE all == Append(chunks, c)
<1>1. chunks \in Seq(Wave!Chunk) /\ Len(chunks) < maxWaveformChunks
  BY DEF Wave!TypeOK
<1>2. all \in Seq(Wave!Chunk) /\ Len(all) = Len(chunks) + 1
  BY <1>1
<1>3. /\ Wave!Total(Wave!Counts(all)) = totalFrames'
      /\ Wave!Total(Wave!Sums(all)) = loud'
      /\ Wave!Total(Wave!Counts(all)) \in Nat /\ Wave!Total(Wave!Sums(all)) \in Nat
  BY <1>1, <1>2, TotalOfAppended
<1>4. /\ Wave!Total(Wave!Counts(chunks')) = Wave!Total(Wave!Counts(all))
      /\ Wave!Total(Wave!Sums(chunks')) = Wave!Total(Wave!Sums(all))
  <2>1. CASE Wave!TooMany(all)
    <3>1. PICK n \in Nat : n > 0 /\ maxWaveformChunks = 2 * n
      BY HalfOfBound
    <3>2. Len(all) = 2 * n
      BY <1>1, <1>2, <2>1, <3>1 DEF Wave!TooMany
    <3>3. chunks' = Wave!Merged(all)
      BY <2>1 DEF Wave!Flush
    <3> HIDE DEF all
    <3> QED
      BY <1>2, <3>2, <3>3, TotalOfMerged
  <2>2. CASE ~Wave!TooMany(all)
    BY <2>2 DEF Wave!Flush
  <2> QED
    BY <2>1, <2>2
<1>5. chunk'.count = 0 /\ chunk'.sum = 0
  BY DEF Wave!Flush, Wave!NoChunk
<1> HIDE DEF all
<1> QED
  BY <1>3, <1>4, <1>5 DEF FramesKept

----------------------------------------------------------------------------

\* A read keeps what does not make up a frame.
LEMMA ReadStep == ASSUME Wave!WaveformAssumption, WaveIInv, Wave!Read PROVE WaveIInv'
<1> USE DEF WaveIInv, Wave!WaveformAssumption
<1>1. PICK n \in ReadSizes :
        /\ delivered' = delivered + n
        /\ pending' = Wave!Kept(pending + n)
        /\ ready' = (pending + n) \div Wave!FrameBytes
        /\ ended' \in {"no", "EOF", "error"}
  BY DEF Wave!Read
<1>2. n \in Nat /\ pending \in Nat /\ delivered \in Nat /\ totalFrames \in Nat
  BY DEF Wave!TypeOK, Wave!FrameBytes
<1>3. pending' \in 0..(Wave!FrameBytes - 1) /\ ready' \in Nat /\ delivered' \in Nat
  BY <1>1, <1>2 DEF Wave!Kept, Wave!FrameBytes
<1>4. UNCHANGED <<barCount, status, chunk, chunks, chunkFrames, totalFrames, loud>>
  BY DEF Wave!Read
<1>5. Wave!TypeOK'
  BY <1>1, <1>3, <1>4 DEF Wave!TypeOK
<1>6. BytesKept'
  <2>1. ready = 0
    BY DEF Wave!Read
  <2>2. totalFrames = delivered \div 4 /\ pending = delivered % 4
    BY <1>2, <2>1 DEF BytesKept, Wave!FrameBytes
  <2>3. (delivered + n) \div 4 = totalFrames + (pending + n) \div 4
            /\ (delivered + n) % 4 = (pending + n) % 4
    BY <1>2, <2>2
  <2> QED
    BY <1>1, <1>4, <2>3 DEF BytesKept, Wave!FrameBytes, Wave!Kept
<1> QED
  BY <1>4, <1>5, <1>6 DEF FramesKept, WithinLimit, Wave!EqualWindows

\* A frame closes its chunk exactly when the chunk is full.
LEMMA FrameStep == ASSUME Wave!WaveformAssumption, WaveIInv, Wave!Frame PROVE WaveIInv'
<1> USE DEF WaveIInv
<1>1. PICK v \in Loudness :
        LET c == [count |-> chunk.count + 1, sum |-> chunk.sum + v] IN
        /\ loud' = loud + v
        /\ IF totalFrames' > FrameLimit
           THEN status' = "failed" /\ chunk' = c /\ UNCHANGED <<chunks, chunkFrames>>
           ELSE /\ IF c.count >= chunkFrames THEN Wave!Flush(c)
                   ELSE chunk' = c /\ UNCHANGED <<chunks, chunkFrames>>
                /\ UNCHANGED status
  BY DEF Wave!Frame
<1> DEFINE c == [count |-> chunk.count + 1, sum |-> chunk.sum + v]
<1>2. /\ status = "reading" /\ ready > 0 /\ ready' = ready - 1
      /\ totalFrames' = totalFrames + 1
      /\ UNCHANGED <<barCount, pending, ended, delivered>>
  BY DEF Wave!Frame
<1>3. /\ v \in Nat /\ chunk \in Wave!Chunk /\ chunkFrames \in Nat \ {0}
      /\ chunks \in Seq(Wave!Chunk) /\ totalFrames \in Nat /\ ready \in Nat
      /\ FrameLimit \in Nat /\ totalFrames <= FrameLimit /\ loud \in Nat
      /\ pending \in Nat /\ delivered \in Nat
  BY <1>2 DEF Wave!TypeOK, WithinLimit, Wave!WaveformAssumption, Wave!FrameBytes
<1>4. chunk.count \in Nat /\ chunk.count < chunkFrames
  BY <1>2, <1>3 DEF Wave!EqualWindows, Wave!Chunk
<1>5. c \in Wave!Chunk /\ c.count = chunk.count + 1 /\ c.count \in 1..chunkFrames
  BY <1>3, <1>4 DEF Wave!Chunk
<1>6. \A i \in DOMAIN chunks : chunks[i].count = chunkFrames
  BY <1>2 DEF Wave!EqualWindows
<1>7. BytesKept'
  BY <1>2, <1>3 DEF BytesKept
<1>8. /\ totalFrames' \in 0..(FrameLimit + 1) /\ totalFrames' # 0 /\ ready' \in Nat
      /\ loud' \in Nat
  BY <1>1, <1>2, <1>3
<1>12. /\ Wave!Total(Wave!Counts(chunks)) + c.count = totalFrames'
       /\ Wave!Total(Wave!Sums(chunks)) + c.sum = loud'
  <2>1. /\ Wave!Total(Wave!Counts(chunks)) \in Nat /\ Wave!Total(Wave!Sums(chunks)) \in Nat
        /\ chunk.count \in Nat /\ chunk.sum \in Nat
    BY <1>3, TotalOfAppended DEF Wave!Chunk
  <2>2. /\ Wave!Total(Wave!Counts(chunks)) + chunk.count = totalFrames
        /\ Wave!Total(Wave!Sums(chunks)) + chunk.sum = loud
    BY DEF FramesKept
  <2>3. c.count = chunk.count + 1 /\ c.sum = chunk.sum + v
    OBVIOUS
  <2>4. totalFrames' = totalFrames + 1 /\ loud' = loud + v /\ v \in Nat
    BY <1>1, <1>2, <1>3
  <2> HIDE DEF c
  <2> QED
    BY ONLY <2>1, <2>2, <2>3, <2>4
<1>9. CASE totalFrames' > FrameLimit
  <2>1. status' = "failed" /\ chunk' = c /\ UNCHANGED <<chunks, chunkFrames>>
    BY <1>1, <1>9
  <2>2. Wave!TypeOK'
    BY <1>2, <1>5, <1>8, <2>1 DEF Wave!TypeOK
  <2>3. Wave!EqualWindows'
    BY <1>6, <2>1 DEF Wave!EqualWindows
  <2>4. FramesKept'
    BY <1>12, <2>1 DEF FramesKept
  <2> QED
    BY <1>7, <1>8, <2>1, <2>2, <2>3, <2>4 DEF WithinLimit
<1>10. CASE ~(totalFrames' > FrameLimit) /\ c.count >= chunkFrames
  <2>1. Wave!Flush(c) /\ status' = "reading"
    BY <1>1, <1>2, <1>10
  <2>2. c.count = chunkFrames
    BY <1>3, <1>5, <1>10
  <2>3. /\ chunks' \in Seq(Wave!Chunk) /\ Len(chunks') < maxWaveformChunks
        /\ chunk' = Wave!NoChunk
        /\ chunkFrames' \in Nat \ {0}
        /\ \A i \in DOMAIN chunks' : chunks'[i].count = chunkFrames'
    BY <1>5, <1>6, <2>1, <2>2, FlushKeepsWindows
  <2>4. Wave!NoChunk \in Wave!Chunk /\ Wave!NoChunk.count = 0
    BY DEF Wave!NoChunk, Wave!Chunk
  <2>5. Wave!TypeOK'
    BY <1>2, <1>8, <2>1, <2>3, <2>4 DEF Wave!TypeOK
  <2>6. Wave!EqualWindows'
    BY <2>1, <2>3, <2>4 DEF Wave!EqualWindows
  <2>7. FramesKept'
    BY <1>5, <1>12, <2>1, FlushKeepsFrames
  <2> QED
    BY <1>3, <1>7, <1>8, <1>10, <2>1, <2>5, <2>6, <2>7 DEF WithinLimit
<1>11. CASE ~(totalFrames' > FrameLimit) /\ ~(c.count >= chunkFrames)
  <2>1. status' = "reading" /\ chunk' = c /\ UNCHANGED <<chunks, chunkFrames>>
    BY <1>1, <1>2, <1>11
  <2>2. Wave!TypeOK'
    BY <1>2, <1>5, <1>8, <2>1 DEF Wave!TypeOK
  <2>3. chunk'.count < chunkFrames'
    BY <1>3, <1>5, <1>11, <2>1
  <2>4. Wave!EqualWindows'
    BY <1>6, <2>1, <2>3 DEF Wave!EqualWindows
  <2>5. FramesKept'
    BY <1>12, <2>1 DEF FramesKept
  <2> QED
    BY <1>3, <1>7, <1>8, <1>11, <2>1, <2>2, <2>4, <2>5 DEF WithinLimit
<1> QED
  BY <1>9, <1>10, <1>11

\* The end closes a chunk that may be shorter.
LEMMA FinishStep == ASSUME Wave!WaveformAssumption, WaveIInv, Wave!Finish PROVE WaveIInv'
<1> USE DEF WaveIInv
<1>1. /\ status = "reading"
      /\ status' = IF totalFrames > 0 THEN "done" ELSE "failed"
      /\ UNCHANGED <<barCount, Wave!buffer, totalFrames, delivered, loud>>
  BY DEF Wave!Finish
<1>2. /\ chunk \in Wave!Chunk /\ chunk.count \in Nat /\ chunk.count < chunkFrames
      /\ chunkFrames \in Nat \ {0} /\ totalFrames \in Nat
  BY <1>1 DEF Wave!TypeOK, Wave!EqualWindows, Wave!Chunk
<1>3. \A i \in DOMAIN chunks : chunks[i].count = chunkFrames
  BY <1>1 DEF Wave!EqualWindows
<1>4. BytesKept' /\ status' \in {"done", "failed"}
  BY <1>1 DEF BytesKept
<1>5. CASE chunk.count > 0
  <2>1. Wave!Flush(chunk)
    BY <1>5 DEF Wave!Finish
  <2>2. /\ chunks' \in Seq(Wave!Chunk) /\ Len(chunks') < maxWaveformChunks
        /\ chunk' = Wave!NoChunk
        /\ chunkFrames' \in Nat \ {0}
        /\ \A i \in DOMAIN chunks' :
             IF i = Len(chunks') THEN chunks'[i].count \in 1..chunkFrames'
                                 ELSE chunks'[i].count = chunkFrames'
    BY <1>2, <1>3, <1>5, <2>1, FlushKeepsWindows
  <2>3. totalFrames > 0 /\ status' = "done"
    BY <1>1, <1>2, <1>5 DEF WithinLimit
  <2>4. Wave!TypeOK'
    BY <1>1, <2>2, <2>3 DEF Wave!TypeOK, Wave!NoChunk, Wave!Chunk
  <2>5. FramesKept'
    <3>1. /\ Wave!Total(Wave!Counts(chunks)) + chunk.count = totalFrames'
          /\ Wave!Total(Wave!Sums(chunks)) + chunk.sum = loud'
      BY <1>1 DEF FramesKept
    <3> QED
      BY <1>2, <2>1, <3>1, FlushKeepsFrames
  <2>6. WithinLimit'
    BY <1>1, <1>2, <2>2, <2>3 DEF WithinLimit, Wave!NoChunk
  <2>7. Wave!EqualWindows'
    BY <2>2, <2>3 DEF Wave!EqualWindows
  <2> QED
    BY <1>4, <2>4, <2>5, <2>6, <2>7
<1>6. CASE ~(chunk.count > 0)
  <2>1. UNCHANGED <<chunk, chunks, chunkFrames>>
    BY <1>6 DEF Wave!Finish
  <2>2. Wave!TypeOK'
    BY <1>1, <1>4, <2>1 DEF Wave!TypeOK
  <2>3. Wave!EqualWindows'
    BY <1>2, <1>3, <1>4, <2>1 DEF Wave!EqualWindows
  <2>4. FramesKept'
    BY <1>1, <2>1 DEF FramesKept
  <2>5. WithinLimit'
    BY <1>1, <1>2, <1>6, <2>1 DEF WithinLimit
  <2> QED
    BY <1>4, <2>2, <2>3, <2>4, <2>5
<1> QED
  BY <1>5, <1>6

\* A failed read ends the analysis with what there is.
LEMMA ReadFailsStep == ASSUME Wave!WaveformAssumption, WaveIInv, Wave!ReadFails PROVE WaveIInv'
BY DEF Wave!ReadFails, WaveIInv, Wave!TypeOK, BytesKept, FramesKept, WithinLimit, Wave!EqualWindows

\* The inductive invariant of the analysis.
THEOREM WaveInvariant == Wave!Spec => []WaveIInv
<1> USE CatalogueAssumption
<1>1. Wave!Init => WaveIInv
  BY WaveInit
<1>2. WaveIInv /\ [Wave!Next]_Wave!vars => WaveIInv'
  <2> SUFFICES ASSUME WaveIInv, [Wave!Next]_Wave!vars PROVE WaveIInv'
    OBVIOUS
  <2>1. CASE UNCHANGED Wave!vars
    BY <2>1 DEF Wave!vars, WaveIInv, Wave!TypeOK, BytesKept, FramesKept, WithinLimit, Wave!EqualWindows
  <2> QED
    BY <2>1, ReadStep, FrameStep, FinishStep, ReadFailsStep DEF Wave!Next
<1> QED
  BY <1>1, <1>2, PTL DEF Wave!Spec

\* The summary is bounded, every byte delivered, every frame and all of its
\* loudness is in it once, and its chunks stand for equal stretches of time.
THEOREM WaveformHolds == Wave!Spec => []WaveformInv
<1>1. WaveIInv => WaveformInv
  BY DEF WaveIInv, BytesKept, FramesKept, WaveformInv, Wave!WaveformInv, Wave!NothingLost
<1> QED
  BY <1>1, WaveInvariant, CatalogueAssumption, PTL

----------------------------------------------------------------------------
(* The bars of a waveform.                                                 *)

\* What a quotient is.
LEMMA DivBounds ==
    ASSUME NEW x \in Nat, NEW y \in Nat \ {0}
    PROVE  /\ x \div y \in Nat
           /\ (x \div y) * y <= x /\ x < (x \div y) * y + y
OBVIOUS

\* Products grow with a factor.
LEMMA TimesGrows ==
    ASSUME NEW m \in Nat, NEW n \in Nat, NEW k \in Nat, m < n
    PROVE  m * k + k <= n * k
<1>1. (m + 1) * k <= n * k
  OBVIOUS
<1>2. (m + 1) * k = m * k + k
  OBVIOUS
<1> QED
  BY <1>1, <1>2

\* ... and only then.
LEMMA TimesLess ==
    ASSUME NEW m \in Nat, NEW n \in Nat, NEW k \in Nat, m * k < n * k
    PROVE  m < n
OBVIOUS

\* A product of naturals, and what is multiplied out below.
LEMMA Times ==
    ASSUME NEW m \in Nat, NEW k \in Nat
    PROVE  /\ m * k \in Nat
           /\ (2 * m + 1) * k = 2 * (m * k) + k
           /\ m * (2 * k) = 2 * (m * k)
           /\ m * k = k * m
OBVIOUS

\* Chunk i of n begins within bar a of k.
Within(i, a, n, k) == a * n <= i * k /\ i * k < a * n + n

\* The middle of bar a of k is within chunk i of n.
Middle(i, a, n, k) == 2 * (i * k) <= 2 * (a * n) + n /\ 2 * (a * n) + n < 2 * (i * k) + 2 * k

\* The bar of a chunk is a bar, and the chunk begins within it.
LEMMA BarBounds ==
    ASSUME NEW n \in Nat \ {0}, NEW k \in Nat \ {0}, NEW i \in 0..(n - 1)
    PROVE  LET a == (i * k) \div n
           IN  a \in 0..(k - 1) /\ Wave!Capped(a, k) = a /\ Within(i, a, n, k)
<1> DEFINE a == (i * k) \div n
<1>1. i \in Nat /\ i < n /\ i * k \in Nat /\ n * k = k * n /\ n * k \in Nat
  BY Times
<1>2. a \in Nat /\ a * n <= i * k /\ i * k < a * n + n
  BY <1>1, DivBounds
<1> HIDE DEF a
<1>3. i * k + k <= n * k
  BY <1>1, TimesGrows
<1>4. a * n \in Nat
  BY <1>2, Times
<1>5. a * n < k * n
  BY <1>1, <1>2, <1>3, <1>4
<1>6. a < k
  BY <1>2, <1>5, TimesLess
<1> QED
  BY <1>2, <1>6 DEF a, Within, Wave!Capped

\* The chunk closest to a bar is a chunk, and the middle of the bar is in it.
LEMMA ClosestBounds ==
    ASSUME NEW n \in Nat \ {0}, NEW k \in Nat \ {0}, NEW a \in 0..(k - 1)
    PROVE  LET i == ((2 * a + 1) * n) \div (2 * k)
           IN  i \in 0..(n - 1) /\ Wave!Capped(i, n) = i /\ Middle(i, a, n, k)
<1> DEFINE c == (2 * a + 1) * n
           i == c \div (2 * k)
<1>1. a \in Nat /\ a < k /\ a * n \in Nat /\ c = 2 * (a * n) + n
  BY Times
<1> HIDE DEF c
<1>2. c \in Nat /\ 2 * k \in Nat \ {0}
  BY <1>1
<1>3. i \in Nat /\ i * (2 * k) <= c /\ c < i * (2 * k) + 2 * k
  BY <1>2, DivBounds
<1> HIDE DEF i
<1>4. i * (2 * k) = 2 * (i * k) /\ i * k \in Nat /\ n * k = k * n /\ n * k \in Nat
  BY <1>3, Times
<1>5. a * n + n <= k * n
  BY <1>1, TimesGrows
<1>6. i * k < n * k
  BY <1>1, <1>2, <1>3, <1>4, <1>5
<1>7. i < n
  BY <1>3, <1>6, TimesLess
<1> QED
  BY <1>1, <1>3, <1>4, <1>7 DEF i, c, Middle, Wave!Capped

\* Bars and chunks follow each other in the same order.
LEMMA InOrder ==
    ASSUME NEW n \in Nat \ {0}, NEW k \in Nat \ {0},
           NEW a \in Nat, NEW b \in Nat, a < b, NEW i \in Nat, NEW j \in Nat,
           Within(i, a, n, k) \/ Middle(i, a, n, k),
           Within(j, b, n, k) \/ Middle(j, b, n, k)
    PROVE  i <= j
<1> SUFFICES ASSUME j < i PROVE FALSE
  OBVIOUS
<1>1. /\ a * n \in Nat /\ b * n \in Nat /\ i * k \in Nat /\ j * k \in Nat
      /\ n \in Nat /\ k \in Nat /\ n > 0 /\ k > 0
  BY Times
<1>2. a * n + n <= b * n /\ j * k + k <= i * k
  BY TimesGrows
<1> QED
  BY <1>1, <1>2 DEF Within, Middle

\* No chunk is nearer to the middle of a bar than the one it is in.
LEMMA Nearest ==
    ASSUME NEW n \in Nat \ {0}, NEW k \in Nat \ {0}, NEW a \in Nat,
           NEW i \in Nat, NEW j \in Nat, Middle(i, a, n, k)
    PROVE  LET b == (2 * a + 1) * n
               Far(x) == IF (2 * x + 1) * k > b THEN (2 * x + 1) * k - b
                                                ELSE b - (2 * x + 1) * k
           IN  Far(i) <= Far(j)
<1>1. /\ a * n \in Nat /\ i * k \in Nat /\ j * k \in Nat /\ n \in Nat /\ k \in Nat
      /\ (2 * a + 1) * n = 2 * (a * n) + n
      /\ (2 * i + 1) * k = 2 * (i * k) + k
      /\ (2 * j + 1) * k = 2 * (j * k) + k
  BY Times
<1>2. j < i => j * k + k <= i * k
  BY TimesGrows
<1>3. i < j => i * k + k <= j * k
  BY TimesGrows
<1>4. i < j \/ i = j \/ j < i
  OBVIOUS
<1> QED
  BY <1>1, <1>2, <1>3, <1>4 DEF Middle

\* A finished analysis has chunks, and bars to show them in.
LEMMA DoneHasChunks ==
    ASSUME WaveIInv, Wave!WaveformAssumption, status = "done"
    PROVE  /\ Len(chunks) \in Nat \ {0} /\ barCount \in Nat \ {0}
<1>1. chunks \in Seq(Wave!Chunk) /\ barCount \in Nat \ {0} /\ totalFrames \in Nat
  BY DEF WaveIInv, Wave!TypeOK, Wave!WaveformAssumption
<1>2. Wave!Total(Wave!Counts(chunks)) # 0
  BY <1>1 DEF WaveIInv, WithinLimit, FramesKept
<1>3. chunks # <<>>
  BY <1>2, TotalOfNone
<1> QED
  BY <1>1, <1>3

\* A bar shows the chunks that begin within it or the one it has its middle in.
LEMMA ShownIs ==
    ASSUME Len(chunks) \in Nat \ {0}, barCount \in Nat \ {0}, NEW bar \in 0..(barCount - 1)
    PROVE  /\ \A i \in Wave!Shown(bar) :
                /\ i \in 0..(Len(chunks) - 1)
                /\ \/ Within(i, bar, Len(chunks), barCount)
                   \/ Middle(i, bar, Len(chunks), barCount)
           /\ Wave!Own(bar) = {} => \A i \in Wave!Shown(bar) :
                Middle(i, bar, Len(chunks), barCount)
<1> DEFINE n == Len(chunks)
<1>1. ASSUME NEW i \in Wave!Own(bar) PROVE i \in 0..(n - 1) /\ Within(i, bar, n, barCount)
  BY BarBounds DEF Wave!Own, Wave!BarOf
<1>2. Wave!Closest(bar) \in 0..(n - 1) /\ Middle(Wave!Closest(bar), bar, n, barCount)
  BY ClosestBounds DEF Wave!Closest
<1> QED
  BY <1>1, <1>2 DEF Wave!Shown

\* The bars show all of the preview in its order, and a bar with no chunk of
\* its own the nearest one, for any number of chunks and bars.
THEOREM BarsHold == Wave!Spec => []BarsInOrder
<1>1. ASSUME WaveIInv, status = "done"
      PROVE  LET Bars == 0..(barCount - 1)
                 Distance(i, bar) ==
                    LET a == (2 * i + 1) * barCount
                        b == (2 * bar + 1) * Len(chunks)
                    IN  IF a > b THEN a - b ELSE b - a
             IN  /\ UNION {Wave!Shown(bar) : bar \in Bars} = 0..(Len(chunks) - 1)
                 /\ \A a, b \in Bars : a < b =>
                     \A i \in Wave!Shown(a), j \in Wave!Shown(b) : i <= j
                 /\ \A bar \in Bars : Wave!Own(bar) = {} =>
                     \A i \in Wave!Shown(bar), j \in 0..(Len(chunks) - 1) :
                         Distance(i, bar) <= Distance(j, bar)
  <2> DEFINE n == Len(chunks)
             Bars == 0..(barCount - 1)
  <2>1. n \in Nat \ {0} /\ barCount \in Nat \ {0}
    BY <1>1, DoneHasChunks, CatalogueAssumption
  <2>2. \A bar \in Bars : \A i \in Wave!Shown(bar) :
          /\ i \in 0..(n - 1)
          /\ Within(i, bar, n, barCount) \/ Middle(i, bar, n, barCount)
    BY <2>1, ShownIs
  <2>3. ASSUME NEW i \in 0..(n - 1) PROVE \E bar \in Bars : i \in Wave!Shown(bar)
    <3>1. Wave!BarOf(i) \in Bars
      BY <2>1, BarBounds DEF Wave!BarOf
    <3>2. i \in Wave!Own(Wave!BarOf(i))
      BY DEF Wave!Own
    <3> QED
      BY <3>1, <3>2 DEF Wave!Shown
  <2>4. ASSUME NEW a \in Bars, NEW b \in Bars, a < b,
               NEW i \in Wave!Shown(a), NEW j \in Wave!Shown(b)
        PROVE  i <= j
    <3>1. a \in Nat /\ b \in Nat /\ i \in Nat /\ j \in Nat
      BY <2>1, <2>2
    <3> QED
      BY <2>1, <2>2, <2>4, <3>1, InOrder
  <2>5. ASSUME NEW bar \in Bars, Wave!Own(bar) = {},
               NEW i \in Wave!Shown(bar), NEW j \in 0..(n - 1)
        PROVE  LET b == (2 * bar + 1) * n
                   Far(x) == IF (2 * x + 1) * barCount > b THEN (2 * x + 1) * barCount - b
                                                           ELSE b - (2 * x + 1) * barCount
               IN  Far(i) <= Far(j)
    <3>1. bar \in Nat /\ i \in Nat /\ j \in Nat
      BY <2>1, <2>2
    <3>2. Middle(i, bar, n, barCount)
      BY <2>1, <2>5, ShownIs
    <3> QED
      BY <2>1, <3>1, <3>2, Nearest
  <2>6. UNION {Wave!Shown(bar) : bar \in Bars} = 0..(n - 1)
    BY <2>2, <2>3
  <2> QED
    BY <2>4, <2>5, <2>6
<1>2. WaveIInv => BarsInOrder
  BY <1>1 DEF BarsInOrder, Wave!BarsInOrder
<1> QED
  BY <1>2, WaveInvariant, PTL

----------------------------------------------------------------------------
(* The check of a WAV.                                                     *)

\* Cardinality, seen through an instance, is Cardinality.
LEMMA WavCard == \A S : Wav!Cardinality(S) = Cardinality(S)
BY DEF Wav!Cardinality, Cardinality

\* Where the file ends: within its last chunk by no more than a byte, or less
\* than another header after it.
FileEnds ==
    /\ Len(file.chunks) <= MaxChunks
    /\ Wav!End(file.chunks) <= file.size + 1
    /\ file.size <= Wav!End(file.chunks) + 7

\* The chunk numbers of a kind that the walk has passed.
Passed(id) == {i \in DOMAIN file.chunks : i < at /\ file.chunks[i].id = id}

\* What was found is what was passed, and only what is valid is passed.
FoundIsPassed ==
    /\ at \in 1..(Len(file.chunks) + 1)
    /\ foundFormat <=> Passed("fmt") # {}
    /\ foundAudioData <=> Passed("data") # {}
    /\ \A i, j \in Passed("fmt") : i = j
    /\ \A i \in Passed("fmt") : file.chunks[i].supported /\ file.chunks[i].size >= 16
    /\ \A i \in Passed("data") : file.chunks[i].size > 0

\* A walk has a header behind it and is where a chunk begins.
WalkHasHeader ==
    /\ verdict = "new" => at = 1
    /\ verdict = "walking" =>
        /\ file.magic /\ file.riff + 8 = file.size
        /\ offset + remaining = file.size
        /\ offset = Wav!Begins(file.chunks, at)

WavIInv ==
    Wav!TypeOK /\ FileEnds /\ FoundIsPassed /\ WalkHasHeader /\ Wav!VerdictIsExact

----------------------------------------------------------------------------

\* The body of a chunk is filled up to an even length.
LEMMA EvenLength ==
    ASSUME NEW n \in Nat
    PROVE  /\ 2 * ((n + 1) \div 2) = n + (n % 2)
           /\ n + (n % 2) \in Nat /\ n + (n % 2) >= n
           /\ n > 0 => n + (n % 2) >= 2
OBVIOUS

\* A chunk takes its header and its padded body.
LEMMA LengthOfChunk ==
    ASSUME Wav!WalkAssumption, NEW c \in Wav!Chunk
    PROVE  /\ c.size \in Nat /\ c.size % 2 \in Nat
           /\ Wav!Length(c) = 8 + c.size + (c.size % 2)
           /\ Wav!Length(c) \in Nat /\ Wav!Length(c) >= 8 + c.size
           /\ c.size > 0 => Wav!Length(c) >= 10
           /\ Wav!Padded(c.size) = c.size + (c.size % 2)
<1>1. c.size \in Nat
  BY DEF Wav!Chunk, Wav!WalkAssumption
<1> DEFINE n == c.size
<1>2. Wav!Length(c) = 8 + 2 * ((n + 1) \div 2) /\ Wav!Padded(n) = n + (n % 2)
  BY DEF Wav!Length, Wav!HeaderBytes, Wav!Padded
<1> HIDE DEF n
<1>3. n \in Nat /\ n % 2 \in Nat
  BY <1>1 DEF n
<1>4. /\ Wav!Length(c) = 8 + n + (n % 2)
      /\ Wav!Length(c) \in Nat /\ Wav!Length(c) >= 8 + n
      /\ n > 0 => Wav!Length(c) >= 10
  BY <1>2, <1>3, EvenLength
<1> QED
  BY <1>2, <1>3, <1>4 DEF n

\* Chunks follow each other.
LEMMA ChunksFollow ==
    ASSUME Wav!WalkAssumption, NEW s \in Seq(Wav!Chunk)
    PROVE  /\ Wav!Begins(s, 1) = 12
           /\ \A n \in 1..(Len(s) + 1) : Wav!Begins(s, n) \in Nat /\ Wav!Begins(s, n) >= 12
           /\ \A n \in 1..Len(s) :
                /\ Wav!Begins(s, n + 1) = Wav!Begins(s, n) + Wav!Length(s[n])
                /\ Wav!Begins(s, n) + Wav!Length(s[n]) <= Wav!End(s)
           /\ \A m, n \in 1..Len(s) : m < n =>
                Wav!Begins(s, m) + Wav!Length(s[m]) <= Wav!Begins(s, n)
<1> DEFINE a == Wav!Lengths(s)
<1>1. Len(s) \in Nat /\ \A i \in 1..Len(s) : a[i] = Wav!Length(s[i]) /\ a[i] \in Nat
  BY LengthOfChunk DEF Wav!Lengths
<1>2. \A n : Wav!Begins(s, n) = SumTo(12, a, n - 1)
  BY DEF Wav!Begins, SumTo
<1> HIDE DEF a
<1>3. Wav!Begins(s, 1) = 12
  <2>1. SumTo(12, a, 0) = 12
    BY SumStep
  <2> QED
    BY <1>2, <2>1
<1>4. ASSUME NEW n \in 1..(Len(s) + 1)
      PROVE  /\ Wav!Begins(s, n) \in Nat
             /\ \A m \in 1..Len(s) : m < n =>
                    Wav!Begins(s, m) + Wav!Length(s[m]) <= Wav!Begins(s, n)
  <2> DEFINE k == n - 1
  <2>1. k \in Nat /\ k <= Len(s) /\ \A i \in 1..k : a[i] \in Nat
    BY <1>1
  <2>2. Wav!Begins(s, n) = SumTo(12, a, k)
    BY <1>2
  <2>3. SumTo(12, a, k) \in Nat
    BY <2>1, SumNat
  <2>4. ASSUME NEW m \in 1..Len(s), m < n
        PROVE  Wav!Begins(s, m) + Wav!Length(s[m]) <= SumTo(12, a, k)
    <3> DEFINE j == m - 1
    <3>1. j \in Nat /\ j < k /\ j + 1 = m
      BY <1>1, <2>4
    <3>2. Wav!Begins(s, m) = SumTo(12, a, j) /\ a[j + 1] = Wav!Length(s[m])
      BY <1>1, <1>2, <3>1
    <3> HIDE DEF j, k
    <3>3. SumTo(12, a, j) + a[j + 1] <= SumTo(12, a, k)
      BY <2>1, <3>1, SumGrows
    <3> QED
      BY <3>2, <3>3
  <2> QED
    BY <2>2, <2>3, <2>4
<1>5. ASSUME NEW n \in 1..Len(s)
      PROVE  Wav!Begins(s, n + 1) = Wav!Begins(s, n) + Wav!Length(s[n])
  <2> DEFINE k == n - 1
  <2>1. k \in Nat /\ k + 1 = n /\ (n + 1) - 1 = k + 1
    BY <1>1
  <2>2. Wav!Begins(s, n + 1) = SumTo(12, a, k + 1) /\ Wav!Begins(s, n) = SumTo(12, a, k)
    BY <1>2, <2>1
  <2> HIDE DEF k
  <2>3. SumTo(12, a, k + 1) = SumTo(12, a, k) + a[k + 1]
    BY <2>1, SumMore
  <2> QED
    BY <1>1, <2>1, <2>2, <2>3
<1>6. \A n \in 1..Len(s) : Wav!Begins(s, n) + Wav!Length(s[n]) <= Wav!End(s)
  BY <1>1, <1>4 DEF Wav!End
<1>7. \A n \in 1..(Len(s) + 1) : Wav!Begins(s, n) >= 12
  <2>1. ASSUME NEW n \in 1..(Len(s) + 1), n # 1 PROVE Wav!Begins(s, n) >= 12
    <3>1. 1 \in 1..Len(s) /\ 1 < n
      BY <1>1, <2>1
    <3>2. Wav!Begins(s, 1) + Wav!Length(s[1]) <= Wav!Begins(s, n)
      BY <1>4, <3>1
    <3>3. Wav!Length(s[1]) \in Nat /\ Wav!Begins(s, n) \in Nat
      BY <1>1, <1>4, <3>1
    <3> QED
      BY <1>3, <3>2, <3>3
  <2> QED
    BY <1>3, <2>1
<1>8. ASSUME NEW m \in 1..Len(s), NEW n \in 1..Len(s), m < n
      PROVE  Wav!Begins(s, m) + Wav!Length(s[m]) <= Wav!Begins(s, n)
  BY <1>1, <1>4, <1>8
<1>9. \A n \in 1..(Len(s) + 1) : Wav!Begins(s, n) \in Nat
  BY <1>4
<1> QED
  BY <1>3, <1>5, <1>6, <1>7, <1>8, <1>9

\* A format and some audio, after a header, take 46 bytes at least.
LEMMA BothFit ==
    ASSUME NEW b \in Nat, NEW c \in Nat, NEW m \in Nat, NEW n \in Nat, NEW e \in Nat,
           b >= 12, c >= 12, m >= 24, n >= 10, b + m <= e, c + n <= e,
           b + m <= c \/ c + n <= b
    PROVE  e >= 44
OBVIOUS

\* A well-formed file has a format and audio, each in a chunk of its own.
LEMMA WellFormedHas ==
    ASSUME Wav!WalkAssumption, Wav!TypeOK, Wav!WellFormed(file)
    PROVE  /\ file.magic /\ file.riff + 8 = file.size /\ file.size >= 44
           /\ file.size = Wav!End(file.chunks)
           /\ \E i \in DOMAIN file.chunks : file.chunks[i].id = "fmt"
           /\ \E i \in DOMAIN file.chunks : file.chunks[i].id = "data"
           /\ \A i, j \in DOMAIN file.chunks :
                file.chunks[i].id = "fmt" /\ file.chunks[j].id = "fmt" => i = j
           /\ \A i \in DOMAIN file.chunks :
                /\ file.chunks[i].id = "fmt" =>
                     file.chunks[i].supported /\ file.chunks[i].size >= 16
                /\ file.chunks[i].id = "data" => file.chunks[i].size > 0
<1> DEFINE s == file.chunks
           Those(id) == {i \in DOMAIN s : s[i].id = id}
<1>1. s \in Seq(Wav!Chunk) /\ DOMAIN s = 1..Len(s) /\ Len(s) \in Nat
  BY DEF Wav!TypeOK
<1>2. /\ file.magic /\ file.riff + 8 = file.size /\ file.size = Wav!End(s)
      /\ Cardinality(Those("fmt")) = 1 /\ Those("data") # {}
      /\ \A i \in Those("fmt") : s[i].supported /\ s[i].size >= 16
      /\ \A i \in Those("data") : s[i].size > 0
  BY WavCard DEF Wav!WellFormed
<1>3. IsFiniteSet(Those("fmt"))
  <2>1. IsFiniteSet(1..Len(s)) /\ Those("fmt") \subseteq 1..Len(s)
    <3>1. IsFiniteSet(1..Len(s))
      BY <1>1, FS_Interval, 1 \in Int, Len(s) \in Int
    <3> QED
      BY <1>1, <3>1
  <2> QED
    BY <2>1, FS_Subset
<1>4. PICK f : Those("fmt") = {f}
  BY <1>2, <1>3, FS_Singleton
<1>5. PICK d \in DOMAIN s : s[d].id = "data"
  BY <1>2
<1>6. f \in DOMAIN s /\ s[f].id = "fmt" /\ s[f].size >= 16 /\ s[d].size > 0 /\ f # d
  BY <1>2, <1>4, <1>5
<1>7. file.size >= 44
  <2> HIDE DEF s, Those
  <2>0. f \in 1..Len(s) /\ d \in 1..Len(s)
    BY <1>1, <1>5, <1>6
  <2>1. s[f] \in Wav!Chunk /\ s[d] \in Wav!Chunk /\ f \in 1..Len(s) /\ d \in 1..Len(s)
    BY <1>1, <2>0
  <2>2. s[f].size \in Nat /\ Wav!Length(s[f]) \in Nat /\ Wav!Length(s[f]) >= 8 + s[f].size
    BY <2>1, LengthOfChunk
  <2>3. s[d].size \in Nat /\ Wav!Length(s[d]) \in Nat /\ Wav!Length(s[d]) >= 10
    BY <1>6, <2>1, LengthOfChunk
  <2>4. /\ Wav!Begins(s, f) \in Nat /\ Wav!Begins(s, f) >= 12
        /\ Wav!Begins(s, d) \in Nat /\ Wav!Begins(s, d) >= 12
    BY <1>1, <2>1, ChunksFollow
  <2>5. /\ Wav!Begins(s, f) + Wav!Length(s[f]) <= Wav!End(s)
        /\ Wav!Begins(s, d) + Wav!Length(s[d]) <= Wav!End(s)
    BY <1>1, <2>1, ChunksFollow
  <2>6. Wav!End(s) = file.size /\ file.size \in Nat
    BY <1>2 DEF Wav!TypeOK
  <2>7. \/ Wav!Begins(s, f) + Wav!Length(s[f]) <= Wav!Begins(s, d)
        \/ Wav!Begins(s, d) + Wav!Length(s[d]) <= Wav!Begins(s, f)
    <3>1. f < d \/ d < f
      <4>1. f \in Nat /\ d \in Nat
        BY <1>1, <2>1
      <4>2. f # d
        BY <1>6
      <4> QED
        BY ONLY <4>1, <4>2
    <3> QED
      BY <1>1, <2>1, <3>1, ChunksFollow
  <2>8. Wav!Length(s[f]) >= 24
    <3>1. s[f].size >= 16
      BY <1>6
    <3> QED
      BY ONLY <2>2, <3>1
  <2> QED
    BY <2>2, <2>3, <2>4, <2>5, <2>6, <2>7, <2>8, BothFit
<1>8. Those("data") # {} /\ \A i, j \in Those("fmt") : i = j
  BY <1>2, <1>4
<1> QED
  BY <1>2, <1>5, <1>6, <1>7, <1>8

\* No chunk has been passed.
LEMMA WavInit == ASSUME Wav!WalkAssumption, Wav!Init PROVE WavIInv
<1>0. PICK n \in 0..MaxChunks : \E s \in [1..n -> Wav!Chunk], magic \in BOOLEAN,
      shift \in Shifts, more \in {7, 8} :
        LET size == Wav!End(s) + shift - 1
        IN  Wav!Start([magic |-> magic, riff |-> size - more, size |-> size, chunks |-> s])
  BY DEF Wav!Init
<1>1. PICK s \in [1..n -> Wav!Chunk], magic \in BOOLEAN, shift \in Shifts, more \in {7, 8} :
        LET size == Wav!End(s) + shift - 1
        IN  Wav!Start([magic |-> magic, riff |-> size - more, size |-> size, chunks |-> s])
  BY <1>0
<1>2. n \in Nat /\ n <= MaxChunks /\ MaxChunks \in Nat /\ shift \in 0..8
  BY DEF Wav!WalkAssumption, Wav!HeaderBytes
<1>3. s \in Seq(Wav!Chunk) /\ Len(s) = n
  BY <1>2
<1>4. Wav!End(s) \in Nat /\ Wav!End(s) >= 12
  BY <1>2, <1>3, ChunksFollow DEF Wav!End
<1>5. /\ file.magic = magic /\ file.riff = (Wav!End(s) + shift - 1) - more
      /\ file.size = Wav!End(s) + shift - 1 /\ file.chunks = s
      /\ file = [magic |-> magic, riff |-> (Wav!End(s) + shift - 1) - more,
                 size |-> Wav!End(s) + shift - 1, chunks |-> s]
  <2>1. file = [magic |-> magic, riff |-> (Wav!End(s) + shift - 1) - more,
                size |-> Wav!End(s) + shift - 1, chunks |-> s]
    <3> DEFINE f == [magic |-> magic, riff |-> (Wav!End(s) + shift - 1) - more,
                     size |-> Wav!End(s) + shift - 1, chunks |-> s]
    <3>1. Wav!Start(f)
      BY ONLY <1>1
    <3> HIDE DEF f
    <3>2. file = f
      BY <3>1 DEF Wav!Start
    <3> QED
      BY <3>2 DEF f
  <2> QED
    BY <2>1
<1>6. /\ at = 1 /\ offset = 0 /\ remaining = 0
      /\ foundFormat = FALSE /\ foundAudioData = FALSE
      /\ verdict = "new"
  BY <1>1 DEF Wav!Start
<1>7. Wav!TypeOK
  <2>1. (Wav!End(s) + shift - 1) - more \in Nat /\ Wav!End(s) + shift - 1 \in Nat
    BY <1>2, <1>4
  <2>2. file \in [magic : BOOLEAN, riff : Nat, size : Nat, chunks : Seq(Wav!Chunk)]
    BY <1>3, <1>5, <2>1
  <2>3. at \in 1..(MaxChunks + 1)
    BY <1>2, <1>6
  <2> QED
    BY <1>6, <2>2, <2>3 DEF Wav!TypeOK
<1>8. FileEnds
  BY <1>2, <1>3, <1>4, <1>5 DEF FileEnds
<1>9. FoundIsPassed
  <2>1. \A id : Passed(id) = {}
    BY <1>2, <1>3, <1>5, <1>6 DEF Passed
  <2> QED
    BY <1>2, <1>3, <1>5, <1>6, <2>1 DEF FoundIsPassed
<1> QED
  BY <1>6, <1>7, <1>8, <1>9 DEF WavIInv, WalkHasHeader, Wav!VerdictIsExact

\* What is known of the file throughout.
LEMMA WavFile ==
    ASSUME WavIInv
    PROVE  /\ file.chunks \in Seq(Wav!Chunk) /\ Len(file.chunks) \in Nat
           /\ DOMAIN file.chunks = 1..Len(file.chunks)
           /\ file.riff \in Nat /\ file.size \in Nat
           /\ at \in 1..(Len(file.chunks) + 1)
           /\ offset \in Nat /\ remaining \in Nat
BY DEF WavIInv, Wav!TypeOK, FoundIsPassed

\* A header a well-formed file cannot have.
LEMMA ReadHeaderStep ==
    ASSUME Wav!WalkAssumption, WavIInv, Wav!ReadHeader PROVE WavIInv'
<1> USE DEF WavIInv
<1>1. UNCHANGED <<file, at, foundFormat, foundAudioData>> /\ verdict = "new"
  BY DEF Wav!ReadHeader, Wav!found
<1>2. FileEnds' /\ FoundIsPassed'
  BY <1>1 DEF FileEnds, FoundIsPassed, Passed
<1>3. file.size \in Nat /\ file.riff \in Nat
  BY WavFile
<1>4. CASE file.size < 44 \/ ~file.magic \/ file.riff < 4 \/ file.riff + 8 # file.size
  <2>1. verdict' = "rejected" /\ UNCHANGED <<offset, remaining>>
    BY <1>4 DEF Wav!ReadHeader
  <2>2. ~Wav!WellFormed(file)
    <3> SUFFICES ASSUME Wav!WellFormed(file) PROVE FALSE
      OBVIOUS
    <3>1. file.magic /\ file.riff + 8 = file.size /\ file.size >= 44
      BY WellFormedHas
    <3> QED
      BY <1>3, <1>4, <3>1
  <2>3. Wav!TypeOK'
    BY <1>1, <2>1 DEF Wav!TypeOK
  <2> QED
    BY <1>1, <1>2, <2>1, <2>2, <2>3 DEF WalkHasHeader, Wav!VerdictIsExact, Wav!WellFormed
<1>5. CASE ~(file.size < 44 \/ ~file.magic \/ file.riff < 4 \/ file.riff + 8 # file.size)
  <2>1. verdict' = "walking" /\ offset' = 12 /\ remaining' = file.riff - 4
    BY <1>5 DEF Wav!ReadHeader
  <2>2. offset' + remaining' = file.size /\ offset' \in Nat /\ remaining' \in Nat
    BY <1>3, <1>5, <2>1
  <2>3. at = 1
    BY <1>1 DEF WalkHasHeader
  <2>4. Wav!Begins(file.chunks, 1) = 12
    BY WavFile, ChunksFollow
  <2>5. Wav!TypeOK'
    BY <1>1, <2>1, <2>2 DEF Wav!TypeOK
  <2> QED
    BY <1>1, <1>2, <1>5, <2>1, <2>2, <2>3, <2>4, <2>5
       DEF WalkHasHeader, Wav!VerdictIsExact
<1> QED
  BY <1>4, <1>5

\* The walk is at a chunk, with the rest of the file before it, or at the end.
LEMMA WalkRemains ==
    ASSUME Wav!WalkAssumption, WavIInv, verdict = "walking"
    PROVE  /\ Wav!End(file.chunks) \in Nat
           /\ at \notin DOMAIN file.chunks =>
                at = Len(file.chunks) + 1 /\ offset = Wav!End(file.chunks) /\ remaining <= 7
           /\ at \in DOMAIN file.chunks =>
                /\ file.chunks[at] \in Wav!Chunk
                /\ offset + Wav!Length(file.chunks[at]) <= Wav!End(file.chunks)
                /\ Wav!Begins(file.chunks, at + 1) = offset + Wav!Length(file.chunks[at])
<1> DEFINE s == file.chunks
<1>1. /\ s \in Seq(Wav!Chunk) /\ Len(s) \in Nat /\ DOMAIN s = 1..Len(s)
      /\ file.size \in Nat /\ at \in 1..(Len(s) + 1)
      /\ offset \in Nat /\ remaining \in Nat
  BY WavFile
<1>2. offset + remaining = file.size /\ offset = Wav!Begins(s, at)
  BY DEF WavIInv, WalkHasHeader
<1>3. file.size <= Wav!End(s) + 7
  BY DEF WavIInv, FileEnds
<1> HIDE DEF s
<1>4. Wav!End(s) \in Nat
  BY <1>1, ChunksFollow DEF Wav!End
<1>5. ASSUME at \notin DOMAIN s
      PROVE  at = Len(s) + 1 /\ offset = Wav!End(s) /\ remaining <= 7
  <2>1. at = Len(s) + 1
    BY <1>1, <1>5
  <2>2. offset = Wav!End(s)
    BY <1>2, <2>1 DEF Wav!End
  <2> QED
    BY <1>1, <1>2, <1>3, <1>4, <2>1, <2>2
<1>6. ASSUME at \in DOMAIN s
      PROVE  /\ s[at] \in Wav!Chunk
             /\ offset + Wav!Length(s[at]) <= Wav!End(s)
             /\ Wav!Begins(s, at + 1) = offset + Wav!Length(s[at])
  <2>1. at \in 1..Len(s)
    BY <1>1, <1>6
  <2>2. s[at] \in Wav!Chunk
    BY <1>1, <2>1
  <2> QED
    BY <1>1, <1>2, <2>1, <2>2, ChunksFollow
<1> QED
  BY <1>4, <1>5, <1>6 DEF s

\* A chunk a well-formed file cannot have there is refused, any other passed.
LEMMA ReadChunkStep ==
    ASSUME Wav!WalkAssumption, WavIInv, Wav!ReadChunk PROVE WavIInv'
<1> USE DEF WavIInv
<1> DEFINE c == file.chunks[at]
<1>1. verdict = "walking" /\ at \in DOMAIN file.chunks /\ UNCHANGED file
  BY DEF Wav!ReadChunk
<1>2. /\ c \in Wav!Chunk
      /\ offset + Wav!Length(c) <= Wav!End(file.chunks)
      /\ Wav!Begins(file.chunks, at + 1) = offset + Wav!Length(c)
      /\ Wav!End(file.chunks) \in Nat
  BY <1>1, WalkRemains
<1>3. /\ c.size \in Nat /\ c.size % 2 \in Nat
      /\ Wav!Length(c) = 8 + c.size + (c.size % 2)
      /\ Wav!Padded(c.size) = c.size + (c.size % 2)
  BY <1>2, LengthOfChunk
<1>4. /\ offset \in Nat /\ remaining \in Nat /\ file.size \in Nat /\ at \in Nat
      /\ offset + remaining = file.size
  BY <1>1, WavFile DEF WalkHasHeader
<1>5. FileEnds'
  BY <1>1 DEF FileEnds
<1>6. CASE Wav!Refused(c)
  <2>1. verdict' = "rejected" /\ UNCHANGED <<at, offset, remaining, foundFormat, foundAudioData>>
    BY <1>6 DEF Wav!ReadChunk, Wav!found
  <2>2. ~Wav!WellFormed(file)
    <3> SUFFICES ASSUME Wav!WellFormed(file) PROVE FALSE
      OBVIOUS
    <3>1. /\ file.size = Wav!End(file.chunks)
          /\ \A i, j \in DOMAIN file.chunks :
                file.chunks[i].id = "fmt" /\ file.chunks[j].id = "fmt" => i = j
          /\ c.id = "fmt" => c.supported /\ c.size >= 16
          /\ c.id = "data" => c.size > 0
      BY <1>1, WellFormedHas
    <3>2. CASE Wav!Padded(c.size) > remaining - Wav!HeaderBytes
      <4>1. offset + 8 + Wav!Padded(c.size) <= offset + remaining
        BY <1>2, <1>3, <1>4, <3>1
      <4>2. Wav!Padded(c.size) \in Nat
        BY <1>3
      <4> HIDE DEF c
      <4> QED
        BY <1>4, <3>2, <4>1, <4>2 DEF Wav!HeaderBytes
    <3>3. CASE c.id = "fmt" /\ foundFormat
      <4>1. PICK i \in Passed("fmt") : TRUE
        BY <3>3 DEF FoundIsPassed
      <4>2. i \in DOMAIN file.chunks /\ file.chunks[i].id = "fmt" /\ i < at
        BY <4>1 DEF Passed
      <4>3. i = at
        BY <1>1, <3>1, <3>3, <4>2
      <4> QED
        BY ONLY <1>4, <4>2, <4>3
    <3>4. CASE c.id = "fmt" /\ (c.size < 16 \/ ~c.supported)
      BY <1>3, <3>1, <3>4
    <3>5. CASE c.id = "data" /\ c.size = 0
      BY <3>1, <3>5
    <3> QED
      BY <1>6, <3>2, <3>3, <3>4, <3>5 DEF Wav!Refused
  <2>3. Wav!TypeOK' /\ FoundIsPassed'
    BY <1>1, <2>1 DEF Wav!TypeOK, FoundIsPassed, Passed
  <2> QED
    BY <1>1, <1>5, <2>1, <2>2, <2>3 DEF WalkHasHeader, Wav!VerdictIsExact, Wav!WellFormed
<1>7. CASE ~Wav!Refused(c)
  <2>1. /\ at' = at + 1
        /\ offset' = offset + 8 + c.size + (c.size % 2)
        /\ remaining' = remaining - 8 - Wav!Padded(c.size)
        /\ foundFormat' = (foundFormat \/ c.id = "fmt")
        /\ foundAudioData' = (foundAudioData \/ c.id = "data")
        /\ verdict' = "walking"
    BY <1>1, <1>7 DEF Wav!ReadChunk, Wav!HeaderBytes
  <2>2. /\ Wav!Padded(c.size) <= remaining - 8
        /\ c.id = "fmt" => ~foundFormat /\ c.size >= 16 /\ c.supported
        /\ c.id = "data" => c.size > 0
    <3>1. ~(Wav!Padded(c.size) > remaining - 8) /\ ~(c.id = "data" /\ c.size = 0)
          /\ ~(c.id = "fmt" /\ (foundFormat \/ c.size < 16 \/ ~c.supported))
      BY <1>7 DEF Wav!Refused, Wav!HeaderBytes
    <3>2. Wav!Padded(c.size) \in Nat /\ c.size \in Nat
      BY <1>3
    <3> HIDE DEF c
    <3> QED
      BY <1>4, <3>1, <3>2
  <2>3. /\ offset' \in Nat /\ remaining' \in Nat /\ offset' + remaining' = file.size
        /\ offset' = offset + Wav!Length(c)
    <3>1. /\ offset' = offset + 8 + c.size + (c.size % 2)
          /\ remaining' = remaining - 8 - Wav!Padded(c.size)
          /\ Wav!Padded(c.size) <= remaining - 8
      BY <2>1, <2>2
    <3> HIDE DEF c
    <3> QED
      BY ONLY <1>3, <1>4, <3>1
  <2>4. WalkHasHeader'
    BY <1>1, <1>2, <2>1, <2>3 DEF WalkHasHeader
  <2>5. at' \in 1..(Len(file.chunks) + 1)
    <3>1. at \in 1..Len(file.chunks) /\ Len(file.chunks) \in Nat
      BY <1>1, WavFile
    <3> QED
      BY <2>1, <3>1
  <2>6. ASSUME NEW id PROVE Passed(id)' = Passed(id) \cup (IF c.id = id THEN {at} ELSE {})
    <3>1. \A i \in DOMAIN file.chunks : i < at + 1 <=> i < at \/ i = at
      BY <1>4, WavFile
    <3> QED
      BY <1>1, <2>1, <3>1 DEF Passed
  <2>7. FoundIsPassed'
    <3>1. /\ foundFormat <=> Passed("fmt") # {}
          /\ foundAudioData <=> Passed("data") # {}
          /\ \A i, j \in Passed("fmt") : i = j
          /\ \A i \in Passed("fmt") : file.chunks[i].supported /\ file.chunks[i].size >= 16
          /\ \A i \in Passed("data") : file.chunks[i].size > 0
      BY DEF FoundIsPassed
    <3>2. /\ Passed("fmt")' = Passed("fmt") \cup (IF c.id = "fmt" THEN {at} ELSE {})
          /\ Passed("data")' = Passed("data") \cup (IF c.id = "data" THEN {at} ELSE {})
      BY <2>6
    <3>3. foundFormat' <=> Passed("fmt")' # {}
      BY <2>1, <3>1, <3>2
    <3>4. foundAudioData' <=> Passed("data")' # {}
      BY <2>1, <3>1, <3>2
    <3>5. \A i, j \in Passed("fmt")' : i = j
      BY <2>2, <3>1, <3>2
    <3>6. \A i \in Passed("fmt")' : file'.chunks[i].supported /\ file'.chunks[i].size >= 16
      BY <1>1, <2>2, <3>1, <3>2
    <3>7. \A i \in Passed("data")' : file'.chunks[i].size > 0
      BY <1>1, <2>2, <3>1, <3>2
    <3> QED
      BY <1>1, <2>5, <3>3, <3>4, <3>5, <3>6, <3>7 DEF FoundIsPassed
  <2>8. Wav!TypeOK'
    <3>1. at' \in 1..(MaxChunks + 1)
      BY <1>4, <2>1, <2>5, WavFile DEF FileEnds, Wav!WalkAssumption
    <3>2. foundFormat' \in BOOLEAN /\ foundAudioData' \in BOOLEAN
      BY <2>1
    <3> QED
      BY <1>1, <2>1, <2>3, <3>1, <3>2 DEF Wav!TypeOK
  <2> QED
    BY <1>5, <2>1, <2>4, <2>7, <2>8 DEF Wav!VerdictIsExact
<1> QED
  BY <1>6, <1>7

\* Less than a header is left: the end of the file, or what is no chunk.
LEMMA ConcludeStep ==
    ASSUME Wav!WalkAssumption, WavIInv, Wav!Conclude PROVE WavIInv'
<1> USE DEF WavIInv
<1>1. /\ verdict = "walking" /\ remaining < 8
      /\ verdict' = IF remaining = 0 /\ foundFormat /\ foundAudioData
                    THEN "accepted" ELSE "rejected"
      /\ UNCHANGED <<file, at, offset, remaining, foundFormat, foundAudioData>>
  BY DEF Wav!Conclude, Wav!HeaderBytes, Wav!found
<1>2. Wav!TypeOK' /\ FileEnds' /\ FoundIsPassed' /\ WalkHasHeader'
  BY <1>1 DEF Wav!TypeOK, FileEnds, FoundIsPassed, Passed, WalkHasHeader
<1>3. /\ file.chunks \in Seq(Wav!Chunk) /\ DOMAIN file.chunks = 1..Len(file.chunks)
      /\ Len(file.chunks) \in Nat /\ file.size \in Nat
      /\ offset \in Nat /\ remaining \in Nat /\ offset + remaining = file.size
      /\ file.magic /\ file.riff + 8 = file.size
  BY <1>1, WavFile DEF WalkHasHeader
<1>4. /\ Wav!End(file.chunks) \in Nat /\ Wav!End(file.chunks) <= file.size + 1
      /\ at \notin DOMAIN file.chunks =>
            at = Len(file.chunks) + 1 /\ offset = Wav!End(file.chunks)
      /\ at \in DOMAIN file.chunks => offset + 8 <= Wav!End(file.chunks)
  <2>1. ASSUME at \in DOMAIN file.chunks PROVE offset + 8 <= Wav!End(file.chunks)
    <3>1. /\ file.chunks[at] \in Wav!Chunk
          /\ offset + Wav!Length(file.chunks[at]) <= Wav!End(file.chunks)
          /\ Wav!End(file.chunks) \in Nat
      BY <1>1, <2>1, WalkRemains
    <3>2. Wav!Length(file.chunks[at]) \in Nat /\ Wav!Length(file.chunks[at]) >= 8
      BY <3>1, LengthOfChunk
    <3> QED
      BY <1>3, <3>1, <3>2
  <2> QED
    BY <1>1, <2>1, WalkRemains DEF FileEnds
<1>5. ASSUME at = Len(file.chunks) + 1, NEW id
      PROVE  Passed(id) = {i \in DOMAIN file.chunks : file.chunks[i].id = id}
  BY <1>3, <1>5 DEF Passed
<1>6. CASE remaining = 0 /\ foundFormat /\ foundAudioData
  <2>1. at \notin DOMAIN file.chunks
    BY <1>3, <1>4, <1>6
  <2>2. at = Len(file.chunks) + 1 /\ file.size = Wav!End(file.chunks)
    BY <1>3, <1>4, <1>6, <2>1
  <2>3. /\ Passed("fmt") # {} /\ Passed("data") # {}
        /\ \A i, j \in Passed("fmt") : i = j
        /\ \A i \in Passed("fmt") : file.chunks[i].supported /\ file.chunks[i].size >= 16
        /\ \A i \in Passed("data") : file.chunks[i].size > 0
    BY <1>6 DEF FoundIsPassed
  <2>4. Cardinality(Passed("fmt")) = 1
    <3>1. PICK i : Passed("fmt") = {i}
      BY <2>3
    <3> QED
      BY <3>1, FS_Singleton
  <2>5. Wav!WellFormed(file)
    BY <1>3, <1>5, <2>2, <2>3, <2>4, WavCard DEF Wav!WellFormed
  <2> QED
    BY <1>1, <1>2, <1>6, <2>5 DEF Wav!VerdictIsExact, Wav!WellFormed
<1>7. CASE ~(remaining = 0 /\ foundFormat /\ foundAudioData)
  <2>1. ~Wav!WellFormed(file)
    <3> SUFFICES ASSUME Wav!WellFormed(file) PROVE FALSE
      OBVIOUS
    <3>1. /\ file.size = Wav!End(file.chunks)
          /\ \E i \in DOMAIN file.chunks : file.chunks[i].id = "fmt"
          /\ \E i \in DOMAIN file.chunks : file.chunks[i].id = "data"
      BY WellFormedHas
    <3>2. at = Len(file.chunks) + 1 /\ remaining = 0
      BY <1>1, <1>3, <1>4, <3>1
    <3>3. foundFormat /\ foundAudioData
      BY <1>5, <3>1, <3>2 DEF FoundIsPassed
    <3> QED
      BY <1>7, <3>2, <3>3
  <2> QED
    BY <1>1, <1>2, <1>7, <2>1 DEF Wav!VerdictIsExact, Wav!WellFormed
<1> QED
  BY <1>6, <1>7

\* The inductive invariant of the walk.
THEOREM WavInvariant == Wav!Spec => []WavIInv
<1> USE CatalogueAssumption
<1>1. Wav!Init => WavIInv
  BY WavInit
<1>2. WavIInv /\ [Wav!Next]_Wav!vars => WavIInv'
  <2> SUFFICES ASSUME WavIInv, [Wav!Next]_Wav!vars PROVE WavIInv'
    OBVIOUS
  <2> USE DEF WavIInv
  <2>1. CASE Wav!StorageFails \/ UNCHANGED Wav!vars
    <3>1. UNCHANGED <<file, at, offset, remaining, foundFormat, foundAudioData>>
          /\ (verdict' = "failed" \/ verdict' = verdict)
      BY <2>1 DEF Wav!StorageFails, Wav!vars, Wav!found
    <3> QED
      BY <3>1 DEF Wav!TypeOK, FileEnds, FoundIsPassed, Passed, WalkHasHeader,
                  Wav!VerdictIsExact, Wav!WellFormed
  <2> QED
    BY <2>1, ReadHeaderStep, ReadChunkStep, ConcludeStep DEF Wav!Next
<1> QED
  BY <1>1, <1>2, PTL DEF Wav!Spec

\* The walk accepts exactly the well-formed files, whatever their chunks and
\* wherever they end, and never runs out of the file before it concludes.
THEOREM WavHolds == Wav!Spec => []WavInv
<1>1. WavIInv => WavInv
  <2> SUFFICES ASSUME WavIInv PROVE Wav!WavInv
    BY DEF WavInv
  <2>1. Wav!WalkIsAligned
    <3> SUFFICES ASSUME verdict = "walking"
                 PROVE  /\ offset + remaining = file.size
                        /\ offset = Wav!Begins(file.chunks, at)
                        /\ remaining >= Wav!HeaderBytes => at \in DOMAIN file.chunks
      BY DEF Wav!WalkIsAligned
    <3>1. remaining \in Nat /\ (at \notin DOMAIN file.chunks => remaining <= 7)
      BY WalkRemains, WavFile, CatalogueAssumption
    <3> QED
      BY <3>1 DEF WavIInv, WalkHasHeader, Wav!HeaderBytes
  <2> QED
    BY <2>1 DEF WavIInv, Wav!WavInv
<1> QED
  BY <1>1, WavInvariant, PTL
=============================================================================
