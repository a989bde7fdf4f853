------------------------------- MODULE Payroll -------------------------------
(***************************************************************************)
(* The payroll of one collaborator: payments that discount an instalment   *)
(* of a loan and, once paid on a project, have an expense of the project.  *)
(*                                                                         *)
(* create and remove are transactions that lock the collaborator; update,  *)
(* the edition of a loan and the expenses are not.  ExpensesService writes *)
(* through a connection of its own, so an expense is there before the      *)
(* payment that asked for it, and outlives it when that fails.  Any call   *)
(* may fail; what a failed call should have undone is marked.  A statement *)
(* that fails did nothing, but ExpensesService.create makes several and    *)
(* may fail with the expense saved.                                        *)
(*                                                                         *)
(* A key stands for the project, the period and the type of a payment.     *)
(* The save of a row is one step and writes every column.                  *)
(***************************************************************************)
EXTENDS Integers, FiniteSets, FiniteSetsExt, Sums

CONSTANTS
    Entries,       \* rows of payroll_entries
    Loans,         \* rows of collaborator_loans, in the order of their dates
    Expenses,      \* rows of expenses
    Keys,          \* project, period and type of a payment
    ProjectKeys,   \* those with a project
    MaxAmount,     \* largest amount of a loan
    Reqs,          \* requests in flight at the same time
    NoEntry, NoLoan, NoExpense, NoKey, NoReq,
    Overlap        \* may an edition overlap with other requests?

ASSUME ConstantsAssumption ==
    /\ Loans \subseteq Nat
    /\ IsFiniteSet(Entries)
    /\ NoEntry \notin Entries
    /\ NoLoan \notin Loans
    /\ NoExpense \notin Expenses
    /\ NoKey \notin Keys
    /\ ProjectKeys \subseteq Keys
    /\ MaxAmount \in Nat \ {0}
    /\ NoReq \notin Reqs
    /\ Overlap \in BOOLEAN

VARIABLES
    loan,      \* table collaborator_loans
    entry,     \* table payroll_entries
    expense,   \* table expenses
    broken,    \* payments whose expense was deleted by hand or not undone
    lock,      \* the request that has the row of the collaborator
    req        \* requests in flight

vars == <<loan, entry, expense, broken, lock, req>>

(***************************************************************************)
(* Types.                                                                  *)
(***************************************************************************)
LoanStatus == {"active", "paid", "cancelled"}
Status == {"pending", "paid", "cancelled"}

Loan == [status: LoanStatus \cup {"none"}, amount: Nat, balance: Nat, installment: Nat]
Row ==
    [status: Status \cup {"none", "deleted"}, key: Keys \cup {NoKey}, loan: Loans \cup {NoLoan},
     taken: Nat, expense: Expenses \cup {NoExpense}]
\* A "kept" expense is one whose deletion failed, and a "lost" one was saved by a
\* creation that failed afterwards, so that its id reached nobody.
ExpenseStatus == {"none", "there", "lost", "kept", "gone"}
Request ==
    [pc: {"idle", "expense", "commit", "discard", "check", "save", "sync", "link", "detach",
          "revert", "loan_save"},
     entry: Entries \cup {NoEntry}, row: Row, before: Row, expense: Expenses \cup {NoExpense},
     loan: Loans \cup {NoLoan}, saved: Loan]

NoRow == [status |-> "none", key |-> NoKey, loan |-> NoLoan, taken |-> 0, expense |-> NoExpense]
NoLoanRow == [status |-> "none", amount |-> 0, balance |-> 0, installment |-> 0]
Idle ==
    [pc |-> "idle", entry |-> NoEntry, row |-> NoRow, before |-> NoRow, expense |-> NoExpense,
     loan |-> NoLoan, saved |-> NoLoanRow]

TypeOK ==
    /\ loan \in [Loans -> Loan]
    /\ entry \in [Entries -> Row]
    /\ expense \in [Expenses -> ExpenseStatus]
    /\ broken \in SUBSET Entries
    /\ lock \in Reqs \cup {NoReq}
    /\ req \in [Reqs -> Request]

Init ==
    /\ loan = [l \in Loans |-> NoLoanRow]
    /\ entry = [e \in Entries |-> NoRow]
    /\ expense = [x \in Expenses |-> "none"]
    /\ broken = {}
    /\ lock = NoReq
    /\ req = [r \in Reqs |-> Idle]

(***************************************************************************)
(* Helpers.                                                                *)
(***************************************************************************)
Exists(e) == entry[e].status \in Status
There(x) == expense[x] \in {"there", "lost", "kept"}
Active == {l \in Loans : loan[l].status = "active"}
ShouldExist(row) == row.status = "paid" /\ row.key \in ProjectKeys
Linked(row) == row.expense \in Expenses

\* findDuplicatePayroll: cancelled payments do not count, nor does except.
Duplicate(key, except) ==
    \E e \in Entries \ {except} : Exists(e) /\ entry[e].status # "cancelled" /\ entry[e].key = key

\* The database refuses a reference to an expense that is gone.
Savable(row) == Linked(row) => There(row.expense)

At(r, label) == req[r].pc = label
Become(r, next) == req' = [req EXCEPT ![r] = next]
Goto(r, label) == Become(r, [req[r] EXCEPT !.pc = label])
Finish(r) == Become(r, Idle)
Editing == \E r \in Reqs : req[r].pc \in {"check", "save", "sync", "link", "detach", "revert", "loan_save"}
Begin(r) == At(r, "idle") /\ (Overlap \/ ~Editing)
BeginEdit(r) == At(r, "idle") /\ (Overlap \/ \A s \in Reqs : At(s, "idle"))

\* The database clears the references to an expense that is deleted.
Cleared(x) ==
    [e \in Entries |-> IF entry[e].expense = x THEN [entry[e] EXCEPT !.expense = NoExpense] ELSE entry[e]]

(***************************************************************************)
(* create: one transaction under the lock of the collaborator.  The        *)
(* instalment is that of the oldest active loan, at most its balance.      *)
(***************************************************************************)
FirstActive == IF Active = {} THEN NoLoan ELSE Min(Active)
Installment(l) == IF l = NoLoan THEN 0 ELSE Min({loan[l].balance, loan[l].installment})

NewEntry(status, key) ==
    [status |-> status, key |-> key, loan |-> FirstActive, taken |-> Installment(FirstActive),
     expense |-> NoExpense]

\* Faulty variant: the collaborator is not locked.
CreateLockNot(r) ==
    /\ Begin(r)
    /\ \E status \in Status, key \in Keys :
          LET row == NewEntry(status, key)
          IN  /\ ~Duplicate(key, NoEntry)
              /\ Become(r, [Idle EXCEPT !.pc = IF ShouldExist(row) THEN "expense" ELSE "commit", !.row = row])
    /\ UNCHANGED <<loan, entry, expense, broken, lock>>

CreateLock(r) ==
    /\ Begin(r)
    /\ lock = NoReq
    /\ \E status \in Status, key \in Keys :
          LET row == NewEntry(status, key)
          IN  /\ ~Duplicate(key, NoEntry)
              /\ Become(r, [Idle EXCEPT !.pc = IF ShouldExist(row) THEN "expense" ELSE "commit", !.row = row])
    /\ lock' = r
    /\ UNCHANGED <<loan, entry, expense, broken>>

\* ExpensesService.create saves the expense and then reads it; when the reading
\* fails the transaction does too, and onExpenseCreated is not called.
CreateExpense(r, x) ==
    /\ At(r, "expense")
    /\ expense[x] = "none"
    /\ \/ /\ expense' = [expense EXCEPT ![x] = "there"]
          /\ Become(r, [req[r] EXCEPT !.pc = "commit", !.expense = x, !.row.expense = x])
          /\ UNCHANGED lock
       \/ /\ expense' = [expense EXCEPT ![x] = "lost"]
          /\ Finish(r)
          /\ lock' = NoReq
    /\ UNCHANGED <<loan, entry, broken>>

\* Faulty variant: the instalment is discounted without looking at the balance.
DiscountedWhole(row) ==
    LET l == row.loan
    IN  IF l = NoLoan THEN loan ELSE [loan EXCEPT ![l].balance = loan[l].balance - loan[l].installment]

\* applyInstallment is part of the transaction.
Discounted(row) ==
    LET l == row.loan
        left == loan[l].balance - row.taken
    IN  IF l = NoLoan \/ row.taken = 0 THEN loan
        ELSE [loan EXCEPT ![l] = IF left > 0 THEN [loan[l] EXCEPT !.balance = left]
                                 ELSE [loan[l] EXCEPT !.balance = 0, !.status = "paid"]]

CreateCommit(r, e) ==
    /\ At(r, "commit")
    /\ entry[e].status = "none"
    /\ Savable(req[r].row)
    /\ entry' = [entry EXCEPT ![e] = req[r].row]
    /\ loan' = Discounted(req[r].row)
    /\ lock' = NoReq
    /\ Finish(r)
    /\ UNCHANGED <<expense, broken>>

\* Faulty variant: a transaction that fails forgets the expense it created.
CreateFailForgets(r) ==
    /\ req[r].pc \in {"expense", "commit"}
    /\ Finish(r)
    /\ lock' = NoReq
    /\ UNCHANGED <<loan, entry, expense, broken>>

\* A statement or the commit fails: nothing of the transaction stays.
CreateFail(r) ==
    /\ req[r].pc \in {"expense", "commit"}
    /\ IF req[r].expense = NoExpense THEN Finish(r)
       ELSE Become(r, [Idle EXCEPT !.pc = "discard", !.expense = req[r].expense])
    /\ lock' = NoReq
    /\ UNCHANGED <<loan, entry, expense, broken>>

\* discardExpense, and the deletion of the expense that update detached or
\* remove left behind.  When it fails the expense is kept.
Discard(r) ==
    LET x == req[r].expense
    IN  /\ At(r, "discard")
        /\ \/ There(x) /\ expense' = [expense EXCEPT ![x] = "gone"] /\ entry' = Cleared(x)
           \/ /\ expense' = IF There(x) THEN [expense EXCEPT ![x] = "kept"] ELSE expense
              /\ UNCHANGED entry
        /\ Finish(r)
        /\ UNCHANGED <<loan, broken, lock>>

(***************************************************************************)
(* remove: a transaction too; the expense is removed after it.             *)
(***************************************************************************)
Refunded(row) ==
    LET l == row.loan
        balance == loan[l].balance + row.taken
    IN  IF l = NoLoan \/ row.taken = 0 THEN loan
        ELSE [loan EXCEPT ![l] = [loan[l] EXCEPT !.balance = balance,
                                     !.status = IF loan[l].status = "paid" /\ balance > 0 THEN "active"
                                                ELSE loan[l].status]]

RemoveTransaction(r, e) ==
    /\ Begin(r)
    /\ lock = NoReq
    /\ Exists(e)
    /\ loan' = Refunded(entry[e])
    /\ entry' = [entry EXCEPT ![e] = [NoRow EXCEPT !.status = "deleted"]]
    /\ Become(r, IF Linked(entry[e]) THEN [Idle EXCEPT !.pc = "discard", !.expense = entry[e].expense] ELSE Idle)
    /\ UNCHANGED <<expense, broken, lock>>

(***************************************************************************)
(* update: no transaction.  The row is read, its key checked if it         *)
(* changes, saved whole, and then its expense is created, changed or       *)
(* removed; when that fails the columns read are saved again.              *)
(***************************************************************************)
UpdateRead(r, e) ==
    /\ BeginEdit(r)
    /\ Exists(e)
    /\ \E status \in Status, key \in Keys :
          Become(r, [Idle EXCEPT !.pc = IF key = entry[e].key THEN "save" ELSE "check", !.entry = e,
                                 !.row = [entry[e] EXCEPT !.status = status, !.key = key],
                                 !.before = entry[e]])
    /\ UNCHANGED <<loan, entry, expense, broken, lock>>

UpdateCheck(r) ==
    /\ At(r, "check")
    /\ IF Duplicate(req[r].row.key, req[r].entry) THEN Finish(r) ELSE Goto(r, "save")
    /\ UNCHANGED <<loan, entry, expense, broken, lock>>

\* A row deleted meanwhile is inserted again.
UpdateSave(r) ==
    LET row == req[r].row
        next == CASE ShouldExist(row) -> "sync"
                  [] ~ShouldExist(row) /\ Linked(row) -> "detach"
                  [] OTHER -> "idle"
    IN  /\ At(r, "save")
        /\ IF Savable(row)
           THEN /\ entry' = [entry EXCEPT ![req[r].entry] = row]
                /\ IF next = "idle" THEN Finish(r) ELSE Goto(r, next)
           ELSE Finish(r) /\ UNCHANGED entry
        /\ UNCHANGED <<loan, expense, broken, lock>>

\* Faulty variant: a failed expense leaves the payment as it was saved.
SyncExpenseLenient(r) ==
    LET x == req[r].row.expense
    IN  /\ At(r, "sync")
        /\ \/ Linked(req[r].row) /\ There(x) /\ Finish(r) /\ UNCHANGED expense
           \/ \E y \in Expenses :
                 /\ ~Linked(req[r].row)
                 /\ expense[y] = "none"
                 /\ expense' = [expense EXCEPT ![y] = "there"]
                 /\ Become(r, [req[r] EXCEPT !.pc = "link", !.expense = y])
           \/ Finish(r) /\ UNCHANGED expense
        /\ UNCHANGED <<loan, entry, broken, lock>>

\* The expense linked is updated, or one is created; either may fail, the creation
\* also with the expense saved, and the one linked may be gone.
SyncExpense(r) ==
    LET x == req[r].row.expense
    IN  /\ At(r, "sync")
        /\ \/ Linked(req[r].row) /\ There(x) /\ Finish(r) /\ UNCHANGED expense
           \/ \E y \in Expenses :
                 /\ ~Linked(req[r].row)
                 /\ expense[y] = "none"
                 /\ \/ /\ expense' = [expense EXCEPT ![y] = "there"]
                       /\ Become(r, [req[r] EXCEPT !.pc = "link", !.expense = y])
                    \/ expense' = [expense EXCEPT ![y] = "lost"] /\ Goto(r, "revert")
           \/ Goto(r, "revert") /\ UNCHANGED expense
        /\ UNCHANGED <<loan, entry, broken, lock>>

LinkExpense(r) ==
    LET e == req[r].entry
    IN  /\ At(r, "link")
        /\ \/ /\ entry' = IF Exists(e) THEN [entry EXCEPT ![e].expense = req[r].expense] ELSE entry
              /\ There(req[r].expense)
              /\ Finish(r)
           \/ Goto(r, "revert") /\ UNCHANGED entry
        /\ UNCHANGED <<loan, expense, broken, lock>>

\* The columns read are saved again and the expense created is discarded.
UpdateRevert(r) ==
    LET e == req[r].entry
        row == req[r].before
    IN  /\ At(r, "revert")
        /\ \/ Savable(row) /\ entry' = [entry EXCEPT ![e] = row] /\ UNCHANGED broken
           \/ broken' = broken \cup {e} /\ UNCHANGED entry
        /\ IF req[r].expense = NoExpense THEN Finish(r)
           ELSE Become(r, [Idle EXCEPT !.pc = "discard", !.expense = req[r].expense])
        /\ UNCHANGED <<loan, expense, lock>>

\* detachExpense: the reference is cleared first; if that fails, update reverts.
DetachExpense(r) ==
    LET e == req[r].entry
    IN  /\ At(r, "detach")
        /\ \/ /\ entry' = IF Exists(e) THEN [entry EXCEPT ![e].expense = NoExpense] ELSE entry
              /\ Become(r, [Idle EXCEPT !.pc = "discard", !.expense = req[r].row.expense])
           \/ Goto(r, "revert") /\ UNCHANGED entry
        /\ UNCHANGED <<loan, expense, broken, lock>>

(***************************************************************************)
(* CollaboratorLoansService.  update reads the row and saves it whole, the *)
(* balance too; it waits for a transaction that has the row.               *)
(***************************************************************************)
LoanCreate(l) ==
    /\ Overlap \/ ~Editing
    /\ loan[l].status = "none"
    /\ \E amount \in 1..MaxAmount, installment \in 1..MaxAmount :
          loan' = [loan EXCEPT ![l] = [status |-> "active", amount |-> amount, balance |-> amount,
                                       installment |-> installment]]
    /\ UNCHANGED <<entry, expense, broken, lock, req>>

LoanRead(r, l) ==
    /\ BeginEdit(r)
    /\ loan[l].status \in LoanStatus
    /\ \E status \in LoanStatus, installment \in 1..MaxAmount :
          Become(r, [Idle EXCEPT !.pc = "loan_save", !.loan = l,
                                 !.saved = [loan[l] EXCEPT !.status = status, !.installment = installment]])
    /\ UNCHANGED <<loan, entry, expense, broken, lock>>

LoanSave(r) ==
    /\ At(r, "loan_save")
    /\ lock # NoReq => req[lock].row.loan # req[r].loan
    /\ loan' = [loan EXCEPT ![req[r].loan] = req[r].saved]
    /\ Finish(r)
    /\ UNCHANGED <<entry, expense, broken, lock>>

\* Faulty variant: payroll_entries.expenseId without its foreign key.
DeleteByHandNoForeignKey(x) ==
    /\ Overlap \/ ~Editing
    /\ There(x)
    /\ expense' = [expense EXCEPT ![x] = "gone"]
    /\ UNCHANGED <<loan, entry, broken, lock, req>>

\* ExpensesService.remove, asked by the staff.
DeleteByHand(x) ==
    /\ Overlap \/ ~Editing
    /\ There(x)
    /\ expense' = [expense EXCEPT ![x] = "gone"]
    /\ entry' = Cleared(x)
    /\ broken' = broken \cup {e \in Entries : entry[e].expense = x}
    /\ UNCHANGED <<loan, lock, req>>

Create(r) ==
    \/ CreateLock(r)
    \/ \E x \in Expenses : CreateExpense(r, x)
    \/ \E e \in Entries : CreateCommit(r, e)
    \/ CreateFail(r)

Update(r) ==
    \/ \E e \in Entries : UpdateRead(r, e)
    \/ UpdateCheck(r) \/ UpdateSave(r) \/ SyncExpense(r) \/ LinkExpense(r) \/ UpdateRevert(r)
    \/ DetachExpense(r)

Next ==
    \/ \E r \in Reqs :
          \/ Create(r) \/ Update(r) \/ Discard(r) \/ LoanSave(r)
          \/ \E e \in Entries : RemoveTransaction(r, e)
          \/ \E l \in Loans : LoanRead(r, l)
    \/ \E l \in Loans : LoanCreate(l)
    \/ \E x \in Expenses : DeleteByHand(x)

Spec == Init /\ [][Next]_vars

(***************************************************************************)
(* Safety.                                                                 *)
(***************************************************************************)
\* "dos pagos simultáneos no pueden leer el mismo saldo y descontar dos veces":
\* what was discounted from a loan, in the payments there are, and what is left
\* of it is what was lent, whatever payments are created, edited, removed and
\* fail, as long as an edition does not overlap with other requests.
LoanConserved ==
    \A l \in Loans :
        loan[l].balance + SumOver([e \in Entries |-> entry[e].taken], {e \in Entries : entry[e].loan = l})
            = loan[l].amount

\* syncExpense: "el pago NO puede quedar PAGADO sin su gasto", and one that is
\* not paid, or has no project, has none, once no request is at work on it;
\* unless somebody deleted the expense, or undoing the change failed too.
PaidHasExpense ==
    \A e \in Entries :
        Exists(e) /\ e \notin broken /\ (\A r \in Reqs : req[r].entry # e)
            => (ShouldExist(entry[e]) <=> Linked(entry[e]))

\* "el gasto se creó por otra conexión, hay que quitarlo": an expense whose creation
\* was told to the payroll is in a payment, or in a request that will put it there
\* or delete it, whatever fails afterwards.  Only two expenses count the labour of
\* a project with no payment: one whose deletion failed ("kept") and one whose
\* creation failed after saving it ("lost").
NoOrphan ==
    \A x \in Expenses :
        expense[x] = "there" =>
            \/ \E e \in Entries : entry[e].expense = x
            \/ \E r \in Reqs : req[r].expense = x

\* A payment refers to an expense that exists, and no two payments to the same
\* one, whatever requests overlap, fail or insert again a payment deleted.
OwnExpense ==
    /\ \A e \in Entries : Linked(entry[e]) => There(entry[e].expense)
    /\ \A e, f \in Entries : Linked(entry[e]) /\ entry[e].expense = entry[f].expense => e = f
=============================================================================
