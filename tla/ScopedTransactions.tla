-------------------------- MODULE ScopedTransactions --------------------------
(***************************************************************************)
(* Transactions that see one tenant's rows (tenant-scope-sqlx): a client   *)
(* takes a connection from a pool, begins, sets the settings that row      *)
(* security reads, local to the transaction, and queries.  Any statement   *)
(* may fail and any await may be the last; a transaction that is dropped   *)
(* is rolled back.  The pool and PostgreSQL are external.                  *)
(***************************************************************************)
EXTENDS Integers, Sequences

CONSTANTS Clients, Connections,
          Settings, Values,
          Unset,           \* the value of a setting nobody has set
          Assignments,     \* the assignment lists clients ask for
          MaxTransactions  \* bound: transactions begun

ASSUME ScopeAssumption ==
  /\ Unset \notin Values \cup Connections /\ MaxTransactions \in Nat
  /\ \A list \in Assignments : list \in Seq(Settings \X Values)

VARIABLES connections,   \* per connection: its session, and its transaction
          transactions,  \* per client: where it is, and what it asked for
          begun

scopeVars == <<connections, transactions, begun>>

-----------------------------------------------------------------------------
(* PostgreSQL's part of set_config and of the end of a transaction. *)
Nothing == [s \in Settings |-> Unset]
Idle == [session |-> Nothing, local |-> Nothing, open |-> FALSE, queried |-> FALSE,
         repeatable |-> FALSE]

current_setting(c, s) ==
  IF connections[c].local[s] # Unset THEN connections[c].local[s] ELSE connections[c].session[s]

Ended(c) == [Idle EXCEPT !.session = connections[c].session]

(* Mutant of set_config: it sets the session, not the transaction. *)
set_session_config(c, s, v) ==
  [connections EXCEPT ![c].session[s] = v, ![c].queried = TRUE]

(* set_local: SELECT set_config(name, value, true), a query. *)
set_config(c, s, v) == [connections EXCEPT ![c].local[s] = v, ![c].queried = TRUE]

-----------------------------------------------------------------------------
NoTransaction == [at |-> "none", connection |-> Unset, readonly |-> FALSE, asked |-> <<>>, todo |-> <<>>]

ScopeInit ==
  /\ connections = [c \in Connections |-> Idle]
  /\ transactions = [k \in Clients |-> NoTransaction]
  /\ begun = 0

Free(c) == ~connections[c].open

(* pool.begin(), of begin_scoped_tx or its read-only sibling. *)
Begin(k, c, readonly, list) ==
  /\ transactions[k].at = "none" /\ Free(c) /\ begun < MaxTransactions
  /\ connections' = [connections EXCEPT ![c].open = TRUE]
  /\ transactions' = [transactions EXCEPT ![k] =
       [at |-> IF readonly THEN "isolating" ELSE "setting", connection |-> c,
        readonly |-> readonly, asked |-> list, todo |-> list]]
  /\ begun' = begun + 1

(* PostgreSQL refuses this after the transaction's first query. *)
SetIsolation(k) ==
  LET c == transactions[k].connection IN
  /\ transactions[k].at = "isolating" /\ ~connections[c].queried
  /\ connections' = [connections EXCEPT ![c].repeatable = TRUE]
  /\ transactions' = [transactions EXCEPT ![k].at = "setting"]
  /\ UNCHANGED begun

(* set_local_many: one assignment after the other. *)
SetLocal(k) ==
  LET next == Head(transactions[k].todo) IN
  /\ transactions[k].at = "setting" /\ transactions[k].todo # <<>>
  /\ connections' = set_config(transactions[k].connection, next[1], next[2])
  /\ transactions' = [transactions EXCEPT ![k].todo = Tail(@)]
  /\ UNCHANGED begun

(* begin_scoped_tx returns: the transaction is the client's. *)
Scoped(k) ==
  /\ transactions[k].at = "setting" /\ transactions[k].todo = <<>>
  /\ transactions' = [transactions EXCEPT ![k].at = "scoped"]
  /\ UNCHANGED <<connections, begun>>

Query(k) ==
  /\ transactions[k].at = "scoped"
  /\ connections' = [connections EXCEPT ![transactions[k].connection].queried = TRUE]
  /\ UNCHANGED <<transactions, begun>>

(* A commit, an error of a statement, a dropped future: the connection     *)
(* goes back to the pool.                                                  *)
End(k) ==
  LET c == transactions[k].connection IN
  /\ transactions[k].at # "none"
  /\ connections' = [connections EXCEPT ![c] = Ended(c)]
  /\ transactions' = [transactions EXCEPT ![k] = NoTransaction]
  /\ UNCHANGED begun

ScopeNext ==
  \E k \in Clients :
    \/ SetIsolation(k) \/ SetLocal(k) \/ Scoped(k) \/ Query(k) \/ End(k)
    \/ \E c \in Connections, readonly \in BOOLEAN, list \in Assignments : Begin(k, c, readonly, list)

ScopeSpec == ScopeInit /\ [][ScopeNext]_scopeVars

-----------------------------------------------------------------------------
(* What the first n assignments of a list ask for: the last one of each    *)
(* setting, where there is one.                                            *)
AskedBy(list, n, s, v) ==
  \/ v = Unset /\ \A i \in 1..n : list[i][1] # s
  \/ \E i \in 1..n : /\ list[i] = <<s, v>>
                      /\ \A j \in (i + 1)..n : list[j][1] # s
Asked(list, s, v) == AskedBy(list, Len(list), s, v)

(***************************************************************************)
(* A transaction that was handed out runs in exactly the scope it was      *)
(* asked for: with every setting of its own, isolated if it is read-only,  *)
(* and with none that another transaction has left on the connection,      *)
(* committed, failed or dropped halfway.                                   *)
(***************************************************************************)
QueriesSeeTheirScope ==
  \A k \in Clients : transactions[k].at = "scoped" =>
    LET c == transactions[k].connection IN
    /\ \A s \in Settings : Asked(transactions[k].asked, s, current_setting(c, s))
    /\ transactions[k].readonly => connections[c].repeatable
    /\ \A other \in Clients \ {k} : transactions[other].connection # c
=============================================================================
