----------------------------- MODULE Categories -----------------------------
(* service/category.go over repository/category.go.                        *)
EXTENDS LedgerRequests

\* Create: one INSERT.  categories has no unique index, so the conflict the
\* service is prepared for never comes back.
CreateCategory(q, u, name, type) ==
  /\ AtOnce(q)
  /\ InsertCategory([user |-> u, name |-> name, type |-> type])
  /\ HadTypeAfter(nextId.category, type)
  /\ UNCHANGED <<transactions, budgets, rules, now, author>>

\* Update, first part: GetByIDForUser.  Nobody asks what refers to the category.
UpdateCategory(q, u, c, name, type) ==
  /\ OwnCategory(u, c)
  /\ Begin(q, "category_write", u, c, [name |-> name, type |-> type], 0)
  /\ UNCHANGED ledgerVars

\* Variant with a bug: the row is replaced by what the client sent.
WriteCategory_WholeRow(q) ==
  LET c == target[q] IN
  /\ at[q] = "category_write"
  /\ IF OwnCategory(who[q], c)
       THEN /\ categories' = [categories EXCEPT ![c] = input[q]]
            /\ HadTypeAfter(c, input[q].type)
       ELSE UNCHANGED <<categories, hadType>>
  /\ Finish(q)
  /\ UNCHANGED <<transactions, budgets, rules, nextId, now, author>>

\* Update, second part: UPDATE ... WHERE id AND user_id.  No row: internal error.
WriteCategory(q) ==
  LET c == target[q] IN
  /\ at[q] = "category_write"
  /\ IF OwnCategory(who[q], c)
       THEN /\ categories' = [categories EXCEPT
                 ![c].name = input[q].name, ![c].type = input[q].type]
            /\ HadTypeAfter(c, input[q].type)
       ELSE UNCHANGED <<categories, hadType>>
  /\ Finish(q)
  /\ UNCHANGED <<transactions, budgets, rules, nextId, now, author>>

\* Delete: one DELETE; a referenced category answers category_in_use.
DeleteCategory(q, u, c) ==
  /\ OwnCategory(u, c)
  /\ ~Referenced(c)
  /\ AtOnce(q)
  /\ categories' = [categories EXCEPT ![c] = NoRow]
  /\ UNCHANGED <<transactions, budgets, rules, nextId, now, ledgerHistory>>

CategoryStep(q) ==
  \/ \E u \in User, name \in Name, type \in Type :
       CreateCategory(q, u, name, type) \/ \E c \in Category : UpdateCategory(q, u, c, name, type)
  \/ WriteCategory(q)
  \/ \E u \in User, c \in Category : DeleteCategory(q, u, c)
=============================================================================
