--------------------------- MODULE PayrollProofs ---------------------------
(***************************************************************************)
(* Payrolls of any number, with requests that overlap in any way: an       *)
(* expense belongs to one payment.  While editions overlap with nothing, a *)
(* loan's balance and discounts add up, a paid payment of a project has    *)
(* its expense, and no expense is left without its payment.                *)
(***************************************************************************)
EXTENDS Payroll, SumsProofs, TLAPS

(***************************************************************************)
(* The inductive invariant.  A row read may be saved when the payment has  *)
(* changed, so an expense that no payment has now may come back: own is    *)
(* the payment each expense was ever linked to, which never changes.       *)
(***************************************************************************)
Owners == [Expenses -> Entries \cup {NoEntry}]
Made(x) == expense[x] # "none"
Edits == {"check", "save", "sync", "link", "detach", "revert"}

Own(own, e, row) == Linked(row) => own[row.expense] = e

\* What a request knows.
Knows(own, a) ==
    /\ a.pc = "expense" => ~Linked(a.row)
    /\ a.pc = "commit" /\ Linked(a.row) => own[a.row.expense] = NoEntry /\ Made(a.row.expense)
    /\ a.pc \in Edits => a.entry \in Entries /\ Own(own, a.entry, a.row) /\ Own(own, a.entry, a.before)
    /\ a.pc = "link" => a.expense \in Expenses /\ own[a.expense] = a.entry

EntriesOwn(own) == \A e \in Entries : Own(own, e, entry[e]) /\ Savable(entry[e])
NewIsFree(own) == \A x \in Expenses : ~Made(x) => own[x] = NoEntry

\* Two transactions do not have the same expense.
Holds(a, x) == a.pc = "commit" /\ a.row.expense = x
Apart == \A r, s \in Reqs : \A x \in Expenses : Holds(req[r], x) /\ Holds(req[s], x) => r = s

J(own) ==
    /\ TypeOK
    /\ own \in Owners
    /\ EntriesOwn(own)
    /\ NewIsFree(own)
    /\ \A r \in Reqs : Knows(own, req[r])
    /\ Apart

IInv == \E own : J(own)

(***************************************************************************)
(* Types.                                                                  *)
(***************************************************************************)
LEMMA IdleTyped ==
    /\ NoRow \in Row /\ ~Linked(NoRow) /\ NoLoanRow \in Loan
    /\ Idle \in Request /\ Idle.pc = "idle" /\ Idle.row = NoRow /\ Idle.before = NoRow /\ Idle.expense = NoExpense
    /\ Idle.entry = NoEntry /\ Idle.loan = NoLoan /\ Idle.saved = NoLoanRow
<1>1. NoRow \in Row /\ ~Linked(NoRow)
  BY ConstantsAssumption DEF NoRow, Row, Linked
<1>2. NoLoanRow \in Loan
  BY DEF NoLoanRow, Loan
<1> QED
  BY <1>1, <1>2 DEF Idle, Request

LEMMA IdleKnows == ASSUME NEW own PROVE Knows(own, Idle)
BY IdleTyped DEF Knows, Edits

\* The first of some loans is one of them.
LEMMA MinOfNat == ASSUME NEW S \in SUBSET Nat, S # {} PROVE Min(S) \in S /\ \A n \in S : Min(S) =< n
<1>1. PICK R : R = OpToRel(<, Nat)
  OBVIOUS
<1>2. IsWellFoundedOn(R, Nat)
  BY <1>1, NatLessThanWellFounded
<1>3. PICK x \in S : \A y \in S : <<y, x>> \notin R
  BY <1>2, WFMin
<1>4. \A y \in S : x \in Nat /\ y \in Nat /\ ~(y < x)
  BY <1>1, <1>3 DEF OpToRel
<1>5. \A y \in S : x =< y
  BY <1>4
<1>6. \E z \in S : \A y \in S : z =< y
  BY <1>5
<1> QED
  BY <1>6 DEF Min

LEMMA NewEntryTyped ==
    ASSUME TypeOK, NEW status \in Status, NEW key \in Keys
    PROVE  NewEntry(status, key) \in Row /\ ~Linked(NewEntry(status, key))
<1>1. PICK l : l = FirstActive
  OBVIOUS
<1>2. l \in Loans \cup {NoLoan}
  <2>1. Active \in SUBSET Nat /\ Active \subseteq Loans
    BY ConstantsAssumption DEF Active
  <2> QED
    BY <1>1, <2>1, MinOfNat DEF FirstActive
<1>3. Installment(l) \in Nat
  <2>1. CASE l = NoLoan
    BY <2>1 DEF Installment
  <2>2. CASE l # NoLoan
    <3>1. loan[l].balance \in Nat /\ loan[l].installment \in Nat
      BY <1>2, <2>2 DEF TypeOK, Loan
    <3>2. Min({loan[l].balance, loan[l].installment}) \in {loan[l].balance, loan[l].installment}
      BY <3>1, MinOfNat
    <3> QED
      BY <2>2, <3>1, <3>2 DEF Installment
  <2> QED
    BY <2>1, <2>2
<1>4. NewEntry(status, key) = [status |-> status, key |-> key, loan |-> l, taken |-> Installment(l), expense |-> NoExpense]
  BY <1>1 DEF NewEntry
<1> QED
  BY <1>2, <1>3, <1>4, ConstantsAssumption DEF Row, Linked

LEMMA DiscountedTyped ==
    ASSUME TypeOK, NEW row \in Row
    PROVE  Discounted(row) \in [Loans -> Loan]
<1>1. PICK l : l = row.loan
  OBVIOUS
<1>2. CASE l = NoLoan \/ row.taken = 0
  BY <1>1, <1>2 DEF Discounted, TypeOK
<1>3. CASE ~(l = NoLoan \/ row.taken = 0)
  <2>1. l \in Loans /\ row.taken \in Nat
    BY <1>1, <1>3 DEF Row
  <2>2. PICK old \in Loan : old = loan[l]
    BY <2>1 DEF TypeOK
  <2>3. PICK left \in Int : left = old.balance - row.taken
    BY <2>1 DEF Loan
  <2>4. Discounted(row) = [loan EXCEPT ![l] = IF left > 0 THEN [old EXCEPT !.balance = left]
                                              ELSE [old EXCEPT !.balance = 0, !.status = "paid"]]
    BY <1>1, <1>3, <2>2, <2>3 DEF Discounted
  <2>5. [old EXCEPT !.balance = 0, !.status = "paid"] \in Loan
    BY DEF Loan, LoanStatus
  <2>6. left > 0 => [old EXCEPT !.balance = left] \in Loan
    BY DEF Loan
  <2> QED
    BY <2>4, <2>5, <2>6 DEF TypeOK
<1> QED
  BY <1>2, <1>3

LEMMA RefundedTyped ==
    ASSUME TypeOK, NEW row \in Row
    PROVE  Refunded(row) \in [Loans -> Loan]
<1>1. PICK l : l = row.loan
  OBVIOUS
<1>2. CASE l = NoLoan \/ row.taken = 0
  BY <1>1, <1>2 DEF Refunded, TypeOK
<1>3. CASE ~(l = NoLoan \/ row.taken = 0)
  <2>1. l \in Loans /\ row.taken \in Nat
    BY <1>1, <1>3 DEF Row
  <2>2. PICK old \in Loan : old = loan[l]
    BY <2>1 DEF TypeOK
  <2>3. PICK balance \in Nat : balance = old.balance + row.taken
    BY <2>1 DEF Loan
  <2>4. PICK status : status = IF old.status = "paid" /\ balance > 0 THEN "active" ELSE old.status
    OBVIOUS
  <2>5. Refunded(row) = [loan EXCEPT ![l] = [old EXCEPT !.balance = balance, !.status = status]]
    BY <1>1, <1>3, <2>2, <2>3, <2>4 DEF Refunded
  <2>6. [old EXCEPT !.balance = balance, !.status = status] \in Loan
    BY <2>4 DEF Loan, LoanStatus
  <2> QED
    BY <2>5, <2>6 DEF TypeOK
<1> QED
  BY <1>2, <1>3

LEMMA InitIInv == Init => IInv
<1> SUFFICES ASSUME Init PROVE IInv
  OBVIOUS
<1>1. PICK own : own = [x \in Expenses |-> NoEntry]
  OBVIOUS
<1>2. TypeOK
  BY IdleTyped DEF Init, TypeOK, ExpenseStatus
<1>3. EntriesOwn(own)
  BY IdleTyped DEF Init, EntriesOwn, Own, Savable
<1>4. own \in Owners /\ NewIsFree(own)
  BY <1>1 DEF Owners, NewIsFree
<1>5. \A r \in Reqs : Knows(own, req[r])
  BY IdleKnows DEF Init
<1>6. Apart
  BY IdleTyped DEF Init, Apart, Holds
<1> QED
  BY <1>2, <1>3, <1>4, <1>5, <1>6 DEF J, IInv

(***************************************************************************)
(* A step of one request.                                                  *)
(***************************************************************************)
LEMMA StepJ ==
    ASSUME NEW own, J(own), NEW own2 \in Owners,
           \A x \in Expenses : own[x] # NoEntry => own2[x] = own[x],
           \A x \in Expenses : Made(x) => Made(x)',
           NEW r \in Reqs, NEW b \in Request, req' = [req EXCEPT ![r] = b], Knows(own2, b)',
           \A s \in Reqs \ {r} : \A x \in Expenses : Holds(req[s], x) => own2[x] = NoEntry /\ ~Holds(b, x),
           loan' \in [Loans -> Loan], entry' \in [Entries -> Row], expense' \in [Expenses -> ExpenseStatus],
           broken' \in SUBSET Entries, lock' \in Reqs \cup {NoReq},
           EntriesOwn(own2)', NewIsFree(own2)'
    PROVE  J(own2)'
<1>1. req' \in [Reqs -> Request] /\ \A s \in Reqs : req'[s] = IF s = r THEN b ELSE req[s]
  BY DEF J, TypeOK
<1>2. TypeOK'
  BY <1>1 DEF TypeOK
<1>3. ASSUME NEW s \in Reqs \ {r}
      PROVE  Knows(own2, req[s])'
  <2>1. PICK a \in Request : a = req[s] /\ Knows(own, a)
    BY DEF J, TypeOK
  <2>2. req'[s] = a
    BY <1>1, <2>1
  <2>3. a.entry \in Entries => a.entry # NoEntry
    BY ConstantsAssumption
  <2>4. a.pc = "commit" /\ Linked(a.row) => own2[a.row.expense] = NoEntry /\ Made(a.row.expense)'
    <3>1. a.pc = "commit" /\ Linked(a.row) => Holds(req[s], a.row.expense)
      BY <2>1 DEF Holds
    <3> QED
      BY <2>1, <3>1 DEF Knows, Linked
  <2>5. a.pc \in Edits => a.entry \in Entries /\ Own(own2, a.entry, a.row) /\ Own(own2, a.entry, a.before)
    BY <2>1, <2>3 DEF Knows, Own, Linked
  <2>6. a.pc = "link" => a.expense \in Expenses /\ own2[a.expense] = a.entry
    BY <2>1, <2>3 DEF Knows, Edits
  <2>7. a.pc = "expense" => ~Linked(a.row)
    BY <2>1 DEF Knows
  <2> QED
    BY <2>2, <2>4, <2>5, <2>6, <2>7 DEF Knows, Made
<1>4. \A s \in Reqs : Knows(own2, req[s])'
  <2>1. Knows(own2, req[r])'
    BY <1>1 DEF Knows, Made
  <2> QED
    BY <1>3, <2>1
<1>5. Apart'
  BY <1>1 DEF Apart, Holds, J
<1> QED
  BY <1>2, <1>4, <1>5 DEF J

\* A step that links nothing to an expense: the rows it writes are its own.
LEMMA QuietJ ==
    ASSUME NEW own, J(own), NEW r \in Reqs, NEW b \in Request, req' = [req EXCEPT ![r] = b], Knows(own, b),
           b.pc = "commit" => ~Linked(b.row),
           loan' \in [Loans -> Loan], entry' \in [Entries -> Row],
           broken' \in SUBSET Entries, lock' \in Reqs \cup {NoReq},
           expense' \in [Expenses -> ExpenseStatus], \A x \in Expenses : Made(x)' = Made(x),
           EntriesOwn(own)'
    PROVE  J(own)'
<1>1. own \in Owners /\ NewIsFree(own)'
  BY DEF J, NewIsFree
<1>2. Knows(own, b)'
  BY DEF Knows, Made, Linked
<1>3. \A s \in Reqs \ {r} : \A x \in Expenses : Holds(req[s], x) => own[x] = NoEntry /\ ~Holds(b, x)
  BY DEF J, Knows, Holds, Linked
<1> QED
  BY <1>1, <1>2, <1>3, StepJ

\* A step of no request.
LEMMA RestJ ==
    ASSUME NEW own, J(own), UNCHANGED req,
           loan' \in [Loans -> Loan], entry' \in [Entries -> Row],
           broken' \in SUBSET Entries, lock' \in Reqs \cup {NoReq},
           expense' \in [Expenses -> ExpenseStatus], \A x \in Expenses : Made(x)' = Made(x),
           EntriesOwn(own)'
    PROVE  J(own)'
<1>1. TypeOK' /\ Apart' /\ NewIsFree(own)'
  BY DEF J, TypeOK, Apart, Holds, NewIsFree
<1>2. \A s \in Reqs : Knows(own, req[s])'
  BY DEF J, Knows, Made, Linked
<1> QED
  BY <1>1, <1>2 DEF J

(***************************************************************************)
(* What the steps write.                                                   *)
(***************************************************************************)
LEMMA RowSaved ==
    ASSUME NEW own, J(own), NEW e \in Entries, NEW row \in Row, Own(own, e, row), Savable(row),
           entry' = [entry EXCEPT ![e] = row], UNCHANGED expense
    PROVE  entry' \in [Entries -> Row] /\ EntriesOwn(own)'
BY DEF J, TypeOK, EntriesOwn, Own, Savable, There, Linked

LEMMA RowsKept ==
    ASSUME NEW own, J(own), UNCHANGED <<entry, expense>>
    PROVE  entry' \in [Entries -> Row] /\ EntriesOwn(own)'
BY DEF J, TypeOK, EntriesOwn, Own, Savable, There, Linked

LEMMA RowsCleared ==
    ASSUME NEW own, J(own), NEW x \in Expenses, There(x),
           entry' = Cleared(x), expense' = [expense EXCEPT ![x] = "gone"]
    PROVE  /\ entry' \in [Entries -> Row] /\ EntriesOwn(own)'
           /\ expense' \in [Expenses -> ExpenseStatus] /\ \A y \in Expenses : Made(y)' = Made(y)
<1>1. expense' \in [Expenses -> ExpenseStatus] /\ \A y \in Expenses : Made(y)' = Made(y)
  BY DEF J, TypeOK, ExpenseStatus, Made, There
<1>2. ASSUME NEW e \in Entries
      PROVE  entry'[e] \in Row /\ Own(own, e, entry'[e]) /\ Savable(entry[e])'
  <2>1. PICK row \in Row : row = entry[e] /\ Own(own, e, row) /\ Savable(row)
    BY DEF J, TypeOK, EntriesOwn
  <2>2. entry'[e] = IF row.expense = x THEN [row EXCEPT !.expense = NoExpense] ELSE row
    BY <2>1 DEF Cleared
  <2>3. CASE row.expense = x
    <3>1. PICK q : q = [row EXCEPT !.expense = NoExpense]
      OBVIOUS
    <3>2. q \in Row /\ q.expense = NoExpense
      BY <3>1 DEF Row
    <3> QED
      BY <2>2, <2>3, <3>1, <3>2, ConstantsAssumption DEF Own, Savable, Linked
  <2>4. CASE row.expense # x
    <3>1. Linked(row) => expense'[row.expense] = expense[row.expense]
      BY <2>4 DEF J, TypeOK, Linked
    <3>2. entry'[e] = row
      BY <2>2, <2>4
    <3>3. Linked(row) => There(row.expense)'
      BY <2>1, <3>1 DEF Savable, There
    <3>4. Savable(entry[e])'
      BY <3>2, <3>3 DEF Savable, Linked, There
    <3> QED
      BY <2>1, <3>2, <3>4
  <2> QED
    BY <2>3, <2>4
<1>3. entry' \in [Entries -> Row]
  <2>1. DOMAIN entry' = Entries /\ entry' = [e \in Entries |-> entry'[e]]
    BY DEF Cleared
  <2> QED
    BY <1>2, <2>1
<1>4. EntriesOwn(own)'
  BY <1>2 DEF EntriesOwn
<1> QED
  BY <1>1, <1>3, <1>4

LEMMA DiscardRequest ==
    ASSUME NEW own, NEW x \in Expenses \cup {NoExpense}
    PROVE  LET b == [Idle EXCEPT !.pc = "discard", !.expense = x]
           IN  b \in Request /\ Knows(own, b) /\ b.pc = "discard"
<1>1. PICK b : b = [Idle EXCEPT !.pc = "discard", !.expense = x]
  OBVIOUS
<1>2. b \in Request /\ b.pc = "discard"
  BY <1>1, IdleTyped DEF Request
<1>3. Knows(own, b)
  BY <1>2 DEF Knows, Edits
<1> QED
  BY <1>1, <1>2, <1>3

(***************************************************************************)
(* create, remove and the deletion of expenses.                            *)
(***************************************************************************)
LEMMA CreateLockKeeps ==
    ASSUME NEW own, J(own), NEW r \in Reqs, CreateLock(r)
    PROVE  J(own)'
<1>1. TypeOK
  BY DEF J
<1>2. PICK status \in Status, key \in Keys :
        Become(r, [Idle EXCEPT !.pc = IF ShouldExist(NewEntry(status, key)) THEN "expense" ELSE "commit",
                               !.row = NewEntry(status, key)])
  BY DEF CreateLock
<1>3. PICK row \in Row : row = NewEntry(status, key) /\ ~Linked(row)
  BY <1>1, NewEntryTyped
<1>4. PICK pc \in {"expense", "commit"} : pc = IF ShouldExist(NewEntry(status, key)) THEN "expense" ELSE "commit"
  OBVIOUS
<1>5. PICK b : b = [Idle EXCEPT !.pc = pc, !.row = row]
  OBVIOUS
<1>6. req' = [req EXCEPT ![r] = b]
  BY <1>2, <1>3, <1>4, <1>5 DEF Become
<1>7. b \in Request /\ b.pc = pc /\ b.row = row
  BY <1>5, IdleTyped DEF Request
<1>8. Knows(own, b)
  BY <1>3, <1>7 DEF Knows, Edits
<1>9. loan' \in [Loans -> Loan] /\ broken' \in SUBSET Entries /\ lock' \in Reqs \cup {NoReq}
  BY <1>1 DEF CreateLock, TypeOK
<1>10. UNCHANGED <<entry, expense>>
  BY DEF CreateLock
<1>11. expense' \in [Expenses -> ExpenseStatus] /\ \A x \in Expenses : Made(x)' = Made(x)
  BY <1>1, <1>10 DEF TypeOK, Made
<1>12. entry' \in [Entries -> Row] /\ EntriesOwn(own)'
  BY <1>10, RowsKept
<1>13. b.pc = "commit" => ~Linked(b.row)
  BY <1>3, <1>7
<1> QED
  BY <1>6, <1>7, <1>8, <1>9, <1>11, <1>12, <1>13, QuietJ

\* The expense of a new payment.
LEMMA ExpenseForCommit ==
    ASSUME NEW own, J(own), NEW r \in Reqs, NEW x \in Expenses, At(r, "expense"), expense[x] = "none",
           expense' = [expense EXCEPT ![x] = "there"],
           Become(r, [req[r] EXCEPT !.pc = "commit", !.expense = x, !.row.expense = x]),
           UNCHANGED <<loan, entry, broken, lock>>
    PROVE  J(own)'
<1>1. TypeOK /\ own \in Owners /\ ~Made(x) /\ own[x] = NoEntry
  BY DEF J, Made, NewIsFree
<1>2. PICK a \in Request : a = req[r] /\ a.pc = "expense"
  BY <1>1 DEF At, TypeOK
<1>3. PICK b : b = [a EXCEPT !.pc = "commit", !.expense = x, !.row.expense = x]
  OBVIOUS
<1>4. req' = [req EXCEPT ![r] = b]
  BY <1>2, <1>3 DEF Become
<1>5. PICK row : row = [a.row EXCEPT !.expense = x]
  OBVIOUS
<1>6. row \in Row /\ row.expense = x
  BY <1>2, <1>5 DEF Request, Row
<1>7. b = [a EXCEPT !.pc = "commit", !.expense = x, !.row = row]
  BY <1>3, <1>5
<1>8. b \in Request /\ b.pc = "commit" /\ b.row = row
  BY <1>6, <1>7 DEF Request
<1>9. expense' = [expense EXCEPT ![x] = "there"]
  OBVIOUS
<1>10. /\ expense' \in [Expenses -> ExpenseStatus]
       /\ Made(x)'
       /\ \A y \in Expenses \ {x} : expense'[y] = expense[y]
  BY <1>1, <1>9 DEF TypeOK, ExpenseStatus, Made
<1>11. \A y \in Expenses : Made(y) => Made(y)'
  BY <1>10 DEF Made
<1>12. Knows(own, b)'
  BY <1>1, <1>6, <1>8, <1>10 DEF Knows, Edits
<1>13. \A s \in Reqs \ {r} : \A y \in Expenses : Holds(req[s], y) => own[y] = NoEntry /\ ~Holds(b, y)
  BY <1>1, <1>6, <1>8 DEF J, Knows, Holds, Linked
<1>14. UNCHANGED <<loan, entry, broken, lock>>
  OBVIOUS
<1>15. \A row2 : Savable(row2) => Savable(row2)'
  BY <1>1, <1>10 DEF Savable, There, Made, Linked
<1>16. EntriesOwn(own)'
  BY <1>14, <1>15 DEF J, EntriesOwn, Own, Linked
<1>17. NewIsFree(own)'
  BY <1>10 DEF J, NewIsFree, Made
<1>18. loan' \in [Loans -> Loan] /\ entry' \in [Entries -> Row] /\ broken' \in SUBSET Entries
       /\ lock' \in Reqs \cup {NoReq}
  BY <1>1, <1>14 DEF TypeOK
<1> QED
  BY <1>1, <1>4, <1>8, <1>10, <1>11, <1>12, <1>13, <1>16, <1>17, <1>18, StepJ

\* An expense is saved and its id reaches nobody.
LEMMA LostJ ==
    ASSUME NEW own, J(own), NEW r \in Reqs, NEW b \in Request, req' = [req EXCEPT ![r] = b], Knows(own, b),
           b.pc # "commit", NEW x \in Expenses, expense[x] = "none", expense' = [expense EXCEPT ![x] = "lost"],
           UNCHANGED <<loan, entry, broken>>, lock' \in Reqs \cup {NoReq}
    PROVE  J(own)'
<1>1. TypeOK /\ own \in Owners
  BY DEF J
<1>2. expense'[x] = "lost" /\ \A y \in Expenses \ {x} : expense'[y] = expense[y]
  BY <1>1 DEF TypeOK
<1>3. expense' \in [Expenses -> ExpenseStatus] /\ \A y \in Expenses : Made(y) => Made(y)'
  BY <1>1, <1>2 DEF TypeOK, ExpenseStatus, Made
<1>4. \A row : Savable(row) => Savable(row)'
  BY <1>2 DEF Savable, There, Linked
<1>5. EntriesOwn(own)'
  BY <1>4 DEF J, EntriesOwn, Own, Linked
<1>6. NewIsFree(own)'
  BY <1>3 DEF J, NewIsFree
<1>7. Knows(own, b)'
  BY DEF Knows
<1>8. \A s \in Reqs \ {r} : \A y \in Expenses : Holds(req[s], y) => own[y] = NoEntry /\ ~Holds(b, y)
  BY DEF J, Knows, Holds, Linked
<1>9. loan' \in [Loans -> Loan] /\ entry' \in [Entries -> Row] /\ broken' \in SUBSET Entries
  BY <1>1 DEF TypeOK
<1> QED
  BY <1>1, <1>3, <1>5, <1>6, <1>7, <1>8, <1>9, StepJ

LEMMA CreateExpenseKeeps ==
    ASSUME NEW own, J(own), NEW r \in Reqs, NEW x \in Expenses, CreateExpense(r, x)
    PROVE  J(own)'
<1>a. CASE expense' = [expense EXCEPT ![x] = "lost"] /\ Finish(r) /\ lock' = NoReq
  <2>1. req' = [req EXCEPT ![r] = Idle] /\ expense[x] = "none" /\ UNCHANGED <<loan, entry, broken>>
    BY <1>a DEF CreateExpense, Finish, Become
  <2>2. Idle \in Request /\ Idle.pc # "commit" /\ Knows(own, Idle)
    BY IdleTyped, IdleKnows
  <2> QED
    BY <1>a, <2>1, <2>2, LostJ
<1>b. CASE /\ expense' = [expense EXCEPT ![x] = "there"]
           /\ Become(r, [req[r] EXCEPT !.pc = "commit", !.expense = x, !.row.expense = x])
           /\ UNCHANGED lock
  <2>1. UNCHANGED <<loan, entry, broken, lock>> /\ At(r, "expense") /\ expense[x] = "none"
    BY <1>b DEF CreateExpense
  <2> QED
    BY <1>b, <2>1, ExpenseForCommit
<1> QED
  BY <1>a, <1>b DEF CreateExpense

LEMMA CreateCommitKeeps ==
    ASSUME NEW own, J(own), NEW r \in Reqs, NEW e \in Entries, CreateCommit(r, e)
    PROVE  IInv'
<1>1. TypeOK /\ own \in Owners
  BY DEF J
<1>2. PICK a \in Request : a = req[r] /\ a.pc = "commit" /\ Knows(own, a)
  BY <1>1 DEF J, CreateCommit, At, TypeOK
<1>3. PICK row \in Row : row = a.row /\ Savable(row)
  BY <1>2 DEF CreateCommit, Request
<1>4. PICK own2 : own2 = IF Linked(row) THEN [own EXCEPT ![row.expense] = e] ELSE own
  OBVIOUS
<1>5. own2 \in Owners
  BY <1>1, <1>4 DEF Owners, Linked
<1>6. Linked(row) => own[row.expense] = NoEntry /\ Made(row.expense)
  BY <1>2, <1>3 DEF Knows
<1>7. /\ \A y \in Expenses : own[y] # NoEntry => own2[y] = own[y]
      /\ \A y \in Expenses : y # row.expense => own2[y] = own[y]
      /\ Linked(row) => own2[row.expense] = e
  BY <1>1, <1>4, <1>6 DEF Owners, Linked
<1>8. req' = [req EXCEPT ![r] = Idle] /\ Idle \in Request
  BY IdleTyped DEF CreateCommit, Finish, Become
<1>9. Knows(own2, Idle)'
  BY IdleTyped DEF Knows, Edits
<1>10. UNCHANGED <<expense, broken>> /\ entry' = [entry EXCEPT ![e] = row] /\ loan' = Discounted(row) /\ lock' = NoReq
  BY <1>2, <1>3 DEF CreateCommit
<1>11. ASSUME NEW s \in Reqs \ {r}, NEW y \in Expenses, Holds(req[s], y)
       PROVE  own2[y] = NoEntry /\ ~Holds(Idle, y)
  <2>1. own[y] = NoEntry
    BY <1>11 DEF J, Knows, Holds, Linked
  <2>2. y # row.expense
    BY <1>2, <1>3, <1>11 DEF J, Apart, Holds
  <2> QED
    BY <1>7, <2>1, <2>2, IdleTyped DEF Holds
<1>12. /\ loan' \in [Loans -> Loan] /\ entry' \in [Entries -> Row] /\ expense' \in [Expenses -> ExpenseStatus]
       /\ broken' \in SUBSET Entries /\ lock' \in Reqs \cup {NoReq}
  BY <1>1, <1>3, <1>10, DiscountedTyped DEF TypeOK
<1>13. EntriesOwn(own2)'
  <2>1. ASSUME NEW f \in Entries
        PROVE  Own(own2, f, entry'[f]) /\ Savable(entry[f])'
    <3>1. CASE f = e
      <4>1. entry'[f] = row
        BY <1>1, <1>10, <3>1 DEF TypeOK
      <4> QED
        BY <1>3, <1>7, <1>10, <3>1, <4>1 DEF Own, Savable, Linked, There
    <3>2. CASE f # e
      <4>1. PICK old \in Row : old = entry[f] /\ Own(own, f, old) /\ Savable(old)
        BY <1>1 DEF J, EntriesOwn, TypeOK
      <4>2. entry'[f] = old
        BY <1>1, <1>10, <3>2, <4>1 DEF TypeOK
      <4>3. Own(own2, f, old)
        BY <1>7, <4>1, ConstantsAssumption DEF Own, Linked
      <4> QED
        BY <1>10, <4>1, <4>2, <4>3 DEF Savable, Linked, There
    <3> QED
      BY <3>1, <3>2
  <2> QED
    BY <2>1 DEF EntriesOwn, Own, Linked
<1>14. NewIsFree(own2)'
  BY <1>6, <1>7, <1>10 DEF J, NewIsFree, Made, Linked
<1>15. \A x \in Expenses : Made(x) => Made(x)'
  BY <1>10 DEF Made
<1>16. J(own2)'
  BY <1>5, <1>7, <1>8, <1>9, <1>11, <1>12, <1>13, <1>14, <1>15, StepJ
<1> QED
  BY <1>16 DEF IInv

LEMMA CreateFailKeeps ==
    ASSUME NEW own, J(own), NEW r \in Reqs, CreateFail(r)
    PROVE  J(own)'
<1>1. TypeOK
  BY DEF J
<1>2. PICK x \in Expenses \cup {NoExpense} : x = req[r].expense
  BY <1>1 DEF TypeOK, Request
<1>3. PICK b : b = IF x = NoExpense THEN Idle ELSE [Idle EXCEPT !.pc = "discard", !.expense = x]
  OBVIOUS
<1>4. req' = [req EXCEPT ![r] = b]
  BY <1>2, <1>3 DEF CreateFail, Finish, Become
<1>5. b \in Request /\ Knows(own, b) /\ b.pc # "commit"
  BY <1>3, IdleTyped, IdleKnows, DiscardRequest
<1>6. /\ loan' \in [Loans -> Loan] /\ broken' \in SUBSET Entries /\ lock' \in Reqs \cup {NoReq}
      /\ UNCHANGED <<entry, expense>>
  BY <1>1 DEF CreateFail, TypeOK
<1>7. expense' \in [Expenses -> ExpenseStatus] /\ \A y \in Expenses : Made(y)' = Made(y)
  BY <1>1, <1>6 DEF TypeOK, Made
<1>8. entry' \in [Entries -> Row] /\ EntriesOwn(own)'
  BY <1>6, RowsKept
<1> QED
  BY <1>4, <1>5, <1>6, <1>7, <1>8, QuietJ

LEMMA DiscardKeeps ==
    ASSUME NEW own, J(own), NEW r \in Reqs, Discard(r)
    PROVE  J(own)'
<1>1. TypeOK
  BY DEF J
<1>2. PICK x \in Expenses \cup {NoExpense} : x = req[r].expense
  BY <1>1 DEF TypeOK, Request
<1>3. /\ req' = [req EXCEPT ![r] = Idle]
      /\ Idle \in Request /\ Knows(own, Idle) /\ (Idle.pc = "commit" => ~Linked(Idle.row))
  BY IdleTyped, IdleKnows DEF Discard, Finish, Become
<1>4. loan' \in [Loans -> Loan] /\ broken' \in SUBSET Entries /\ lock' \in Reqs \cup {NoReq}
  BY <1>1 DEF Discard, TypeOK
<1>5. /\ entry' \in [Entries -> Row] /\ EntriesOwn(own)'
      /\ expense' \in [Expenses -> ExpenseStatus] /\ \A y \in Expenses : Made(y)' = Made(y)
  <2>1. CASE x \in Expenses /\ There(x) /\ expense' = [expense EXCEPT ![x] = "gone"] /\ entry' = Cleared(x)
    BY <2>1, RowsCleared
  <2>2. CASE x \notin Expenses /\ expense' = [expense EXCEPT ![x] = "gone"] /\ entry' = Cleared(x)
    <3>1. x = NoExpense /\ expense' = expense
      BY <1>1, <2>2 DEF TypeOK
    <3>2. \A e \in Entries : entry[e].expense = x => [entry[e] EXCEPT !.expense = NoExpense] = entry[e]
      BY <1>1, <3>1 DEF TypeOK, Row
    <3>3. Cleared(x) = [e \in Entries |-> entry[e]]
      BY <3>2 DEF Cleared
    <3>4. entry' = entry
      BY <1>1, <2>2, <3>3 DEF TypeOK
    <3> QED
      BY <1>1, <3>1, <3>4, RowsKept DEF TypeOK, Made
  <2>3. CASE UNCHANGED entry /\ expense' = IF There(x) THEN [expense EXCEPT ![x] = "kept"] ELSE expense
    <3>1. expense' \in [Expenses -> ExpenseStatus] /\ \A y \in Expenses : Made(y)' = Made(y) /\ There(y)' = There(y)
      <4>1. PICK table \in [Expenses -> ExpenseStatus] : table = expense
        BY <1>1 DEF TypeOK
      <4>2. CASE There(x) /\ x \in Expenses
        BY <2>3, <4>1, <4>2 DEF ExpenseStatus, Made, There
      <4>3. CASE ~(There(x) /\ x \in Expenses)
        <5>1. expense' = table
          BY <2>3, <4>1, <4>3
        <5> QED
          BY <4>1, <5>1 DEF Made, There
      <4> QED
        BY <4>2, <4>3
    <3>2. entry' \in [Entries -> Row]
      BY <1>1, <2>3 DEF TypeOK
    <3>3. EntriesOwn(own)'
      BY <2>3, <3>1 DEF J, EntriesOwn, Own, Savable, Linked
    <3> QED
      BY <3>1, <3>2, <3>3
  <2> QED
    BY <1>2, <2>1, <2>2, <2>3 DEF Discard
<1> QED
  BY <1>3, <1>4, <1>5, QuietJ

LEMMA RemoveKeeps ==
    ASSUME NEW own, J(own), NEW r \in Reqs, NEW e \in Entries, RemoveTransaction(r, e)
    PROVE  J(own)'
<1>1. TypeOK
  BY DEF J
<1>2. PICK row \in Row : row = entry[e]
  BY <1>1 DEF TypeOK
<1>3. PICK b : b = IF Linked(row) THEN [Idle EXCEPT !.pc = "discard", !.expense = row.expense] ELSE Idle
  OBVIOUS
<1>4. req' = [req EXCEPT ![r] = b]
  BY <1>2, <1>3 DEF RemoveTransaction, Become
<1>5. b \in Request /\ Knows(own, b) /\ b.pc # "commit"
  BY <1>3, IdleTyped, IdleKnows, DiscardRequest DEF Linked
<1>6. loan' \in [Loans -> Loan]
  BY <1>1, <1>2, RefundedTyped DEF RemoveTransaction
<1>7. broken' \in SUBSET Entries /\ lock' \in Reqs \cup {NoReq} /\ UNCHANGED expense
  BY <1>1 DEF RemoveTransaction, TypeOK
<1>8. expense' \in [Expenses -> ExpenseStatus] /\ \A y \in Expenses : Made(y)' = Made(y)
  BY <1>1, <1>7 DEF TypeOK, Made
<1>9. PICK blank : blank = [NoRow EXCEPT !.status = "deleted"]
  OBVIOUS
<1>10. blank \in Row /\ ~Linked(blank)
  BY <1>9, IdleTyped DEF Row, Linked
<1>11. entry' = [entry EXCEPT ![e] = blank]
  BY <1>9 DEF RemoveTransaction
<1>12. entry' \in [Entries -> Row] /\ EntriesOwn(own)'
  BY <1>7, <1>10, <1>11, RowSaved DEF Own, Savable
<1> QED
  BY <1>4, <1>5, <1>6, <1>7, <1>8, <1>12, QuietJ

LEMMA DeleteByHandKeeps ==
    ASSUME NEW own, J(own), NEW x \in Expenses, DeleteByHand(x)
    PROVE  J(own)'
<1>1. UNCHANGED req /\ loan' \in [Loans -> Loan] /\ broken' \in SUBSET Entries /\ lock' \in Reqs \cup {NoReq}
  BY DEF J, TypeOK, DeleteByHand
<1>2. There(x) /\ entry' = Cleared(x) /\ expense' = [expense EXCEPT ![x] = "gone"]
  BY DEF DeleteByHand
<1> QED
  BY <1>1, <1>2, RowsCleared, RestJ

(***************************************************************************)
(* update, which saves rows that it read before.                           *)
(***************************************************************************)
\* A step that saves no row and creates no expense.
LEMMA OnlyRequest ==
    ASSUME NEW own, J(own), NEW r \in Reqs, NEW b \in Request, req' = [req EXCEPT ![r] = b], Knows(own, b),
           b.pc = "commit" => ~Linked(b.row), UNCHANGED <<loan, entry, expense, broken, lock>>
    PROVE  J(own)'
<1>1. /\ loan' \in [Loans -> Loan] /\ broken' \in SUBSET Entries /\ lock' \in Reqs \cup {NoReq}
      /\ expense' \in [Expenses -> ExpenseStatus] /\ \A y \in Expenses : Made(y)' = Made(y)
  BY DEF J, TypeOK, Made
<1>2. entry' \in [Entries -> Row] /\ EntriesOwn(own)'
  BY RowsKept
<1> QED
  BY <1>1, <1>2, QuietJ

\* A step that saves the row of a payment.
LEMMA OnlyEntry ==
    ASSUME NEW own, J(own), NEW r \in Reqs, NEW b \in Request, req' = [req EXCEPT ![r] = b], Knows(own, b),
           b.pc # "commit", UNCHANGED <<loan, expense, broken, lock>>,
           NEW e \in Entries, NEW row \in Row, Own(own, e, row), Savable(row), entry' = [entry EXCEPT ![e] = row]
    PROVE  J(own)'
<1>1. /\ loan' \in [Loans -> Loan] /\ broken' \in SUBSET Entries /\ lock' \in Reqs \cup {NoReq}
      /\ expense' \in [Expenses -> ExpenseStatus] /\ \A y \in Expenses : Made(y)' = Made(y)
  BY DEF J, TypeOK, Made
<1>2. entry' \in [Entries -> Row] /\ EntriesOwn(own)'
  BY RowSaved
<1> QED
  BY <1>1, <1>2, QuietJ

\* An edition that goes on to another step, with the same rows.
LEMMA GotoKnows ==
    ASSUME NEW own, J(own), NEW r \in Reqs, req[r].pc \in Edits, NEW label \in Edits \ {"link"}
    PROVE  LET b == [req[r] EXCEPT !.pc = label]
           IN  b \in Request /\ Knows(own, b) /\ b.pc # "commit"
<1>1. PICK a \in Request : a = req[r] /\ Knows(own, a) /\ a.pc \in Edits
  BY DEF J, TypeOK
<1>2. PICK b : b = [a EXCEPT !.pc = label]
  OBVIOUS
<1>3. b \in Request /\ b.pc = label /\ b.entry = a.entry /\ b.row = a.row /\ b.before = a.before
  BY <1>2 DEF Request, Edits
<1>4. Knows(own, b) /\ b.pc # "commit"
  BY <1>1, <1>3 DEF Knows, Edits
<1> QED
  BY <1>1, <1>2, <1>3, <1>4

LEMMA UpdateReadKeeps ==
    ASSUME NEW own, J(own), NEW r \in Reqs, NEW e \in Entries, UpdateRead(r, e)
    PROVE  J(own)'
<1>1. PICK old \in Row : old = entry[e] /\ Own(own, e, old)
  BY DEF J, TypeOK, EntriesOwn
<1>2. PICK status \in Status, key \in Keys :
        Become(r, [Idle EXCEPT !.pc = IF key = entry[e].key THEN "save" ELSE "check", !.entry = e,
                               !.row = [entry[e] EXCEPT !.status = status, !.key = key],
                               !.before = entry[e]])
  BY DEF UpdateRead
<1>3. PICK row : row = [old EXCEPT !.status = status, !.key = key]
  OBVIOUS
<1>4. row \in Row /\ row.expense = old.expense
  BY <1>3 DEF Row, Status
<1>5. PICK pc \in {"save", "check"} : pc = IF key = entry[e].key THEN "save" ELSE "check"
  OBVIOUS
<1>6. PICK b : b = [Idle EXCEPT !.pc = pc, !.entry = e, !.row = row, !.before = old]
  OBVIOUS
<1>7. req' = [req EXCEPT ![r] = b]
  BY <1>1, <1>2, <1>3, <1>5, <1>6 DEF Become
<1>8. b \in Request /\ b.pc = pc /\ b.entry = e /\ b.row = row /\ b.before = old
  BY <1>4, <1>6, IdleTyped DEF Request
<1>9. Knows(own, b) /\ b.pc # "commit"
  BY <1>1, <1>4, <1>8 DEF Knows, Edits, Own, Linked
<1>10. UNCHANGED <<loan, entry, expense, broken, lock>>
  BY DEF UpdateRead
<1> QED
  BY <1>7, <1>8, <1>9, <1>10, OnlyRequest

LEMMA UpdateCheckKeeps ==
    ASSUME NEW own, J(own), NEW r \in Reqs, UpdateCheck(r)
    PROVE  J(own)'
<1>1. PICK b : b = IF Duplicate(req[r].row.key, req[r].entry) THEN Idle ELSE [req[r] EXCEPT !.pc = "save"]
  OBVIOUS
<1>2. req' = [req EXCEPT ![r] = b] /\ UNCHANGED <<loan, entry, expense, broken, lock>>
  BY <1>1 DEF UpdateCheck, Finish, Goto, Become
<1>3. req[r].pc \in Edits
  BY DEF UpdateCheck, At, Edits
<1>4. "save" \in Edits \ {"link"}
  BY DEF Edits
<1>5. b \in Request /\ Knows(own, b) /\ b.pc # "commit"
  BY <1>1, <1>3, <1>4, GotoKnows, IdleTyped, IdleKnows
<1> QED
  BY <1>2, <1>5, OnlyRequest

LEMMA UpdateSaveKeeps ==
    ASSUME NEW own, J(own), NEW r \in Reqs, UpdateSave(r)
    PROVE  J(own)'
<1>1. PICK a \in Request : a = req[r] /\ a.pc = "save" /\ Knows(own, a)
  BY DEF J, TypeOK, UpdateSave, At
<1>2. PICK e \in Entries, row \in Row : e = a.entry /\ row = a.row /\ Own(own, e, row)
  BY <1>1 DEF Knows, Edits, Request
<1>3. PICK next \in {"sync", "detach", "idle"} :
        next = CASE ShouldExist(row) -> "sync"
                 [] ~ShouldExist(row) /\ Linked(row) -> "detach"
                 [] OTHER -> "idle"
  <2>1. CASE ShouldExist(row)
    BY <2>1
  <2>2. CASE ~ShouldExist(row) /\ Linked(row)
    BY <2>2
  <2>3. CASE ~ShouldExist(row) /\ ~Linked(row)
    BY <2>3
  <2> QED
    BY <2>1, <2>2, <2>3
<1>4. PICK b : b = IF Savable(row) /\ next # "idle" THEN [req[r] EXCEPT !.pc = next] ELSE Idle
  OBVIOUS
<1>5. req' = [req EXCEPT ![r] = b] /\ UNCHANGED <<loan, expense, broken, lock>>
  BY <1>1, <1>2, <1>3, <1>4 DEF UpdateSave, Finish, Goto, Become
<1>6. req[r].pc \in Edits /\ (next # "idle" => next \in Edits \ {"link"})
  BY <1>1 DEF Edits
<1>7. b \in Request /\ Knows(own, b) /\ b.pc # "commit"
  BY <1>4, <1>6, GotoKnows, IdleTyped, IdleKnows
<1>8. CASE Savable(row)
  <2>1. entry' = [entry EXCEPT ![e] = row]
    BY <1>1, <1>2, <1>8 DEF UpdateSave
  <2> QED
    BY <1>2, <1>5, <1>7, <1>8, <2>1, OnlyEntry
<1>9. CASE ~Savable(row)
  <2>1. UNCHANGED entry
    BY <1>1, <1>2, <1>9 DEF UpdateSave
  <2> QED
    BY <1>5, <1>7, <2>1, OnlyRequest
<1> QED
  BY <1>8, <1>9

LEMMA SyncExpenseKeeps ==
    ASSUME NEW own, J(own), NEW r \in Reqs, SyncExpense(r)
    PROVE  IInv'
<1>1. PICK a \in Request : a = req[r] /\ a.pc = "sync" /\ Knows(own, a)
  BY DEF J, TypeOK, SyncExpense, At
<1>2. req[r].pc \in Edits /\ "revert" \in Edits \ {"link"}
  BY <1>1 DEF Edits
<1>3. CASE Finish(r) /\ UNCHANGED expense
  <2>1. req' = [req EXCEPT ![r] = Idle] /\ UNCHANGED <<loan, entry, expense, broken, lock>>
    BY <1>3 DEF Finish, Become, SyncExpense
  <2>2. J(own)'
    BY <2>1, IdleTyped, IdleKnows, OnlyRequest
  <2> QED
    BY <2>2 DEF IInv
<1>4. CASE Goto(r, "revert") /\ UNCHANGED expense
  <2>1. PICK b : b = [req[r] EXCEPT !.pc = "revert"]
    OBVIOUS
  <2>2. req' = [req EXCEPT ![r] = b] /\ UNCHANGED <<loan, entry, expense, broken, lock>>
    BY <1>4, <2>1 DEF Goto, Become, SyncExpense
  <2>3. b \in Request /\ Knows(own, b) /\ b.pc # "commit"
    BY <1>2, <2>1, GotoKnows
  <2>4. J(own)'
    BY <2>2, <2>3, OnlyRequest
  <2> QED
    BY <2>4 DEF IInv
<1>5. ASSUME NEW y \in Expenses, expense[y] = "none", expense' = [expense EXCEPT ![y] = "there"],
             Become(r, [req[r] EXCEPT !.pc = "link", !.expense = y])
      PROVE  IInv'
  <2>1. TypeOK /\ own \in Owners /\ own[y] = NoEntry
    BY <1>5 DEF J, NewIsFree, Made
  <2>2. PICK e \in Entries : e = a.entry /\ Own(own, e, a.row) /\ Own(own, e, a.before)
    BY <1>1 DEF Knows, Edits
  <2>3. PICK own2 : own2 = [own EXCEPT ![y] = e]
    OBVIOUS
  <2>4. own2 \in Owners /\ own2[y] = e /\ \A x \in Expenses \ {y} : own2[x] = own[x]
    BY <2>1, <2>3 DEF Owners
  <2>5. \A x \in Expenses : own[x] # NoEntry => own2[x] = own[x]
    BY <2>1, <2>4
  <2>6. PICK b : b = [a EXCEPT !.pc = "link", !.expense = y]
    OBVIOUS
  <2>7. req' = [req EXCEPT ![r] = b]
    BY <1>1, <1>5, <2>6 DEF Become
  <2>8. b \in Request /\ b.pc = "link" /\ b.expense = y /\ b.entry = e /\ b.row = a.row /\ b.before = a.before
    BY <2>2, <2>6 DEF Request
  <2>9. \A row \in Row : Own(own, e, row) => Own(own2, e, row)
    BY <2>4, <2>5, ConstantsAssumption DEF Own, Linked
  <2>10. Knows(own2, b)'
    BY <1>1, <2>2, <2>4, <2>8, <2>9 DEF Knows, Edits, Request
  <2>11. /\ expense' \in [Expenses -> ExpenseStatus]
         /\ \A x \in Expenses \ {y} : expense'[x] = expense[x]
         /\ expense'[y] = "there"
    BY <1>5, <2>1 DEF TypeOK, ExpenseStatus
  <2>12. \A x \in Expenses : Made(x) => Made(x)'
    BY <2>11 DEF Made
  <2>13. ASSUME NEW s \in Reqs \ {r}, NEW x \in Expenses, Holds(req[s], x)
         PROVE  own2[x] = NoEntry /\ ~Holds(b, x)
    <3>1. own[x] = NoEntry /\ Made(x)
      BY <2>13 DEF J, Knows, Holds, Linked
    <3>2. x # y
      BY <1>5, <3>1 DEF Made
    <3> QED
      BY <2>4, <2>8, <3>1, <3>2 DEF Holds
  <2>14. UNCHANGED <<loan, entry, broken, lock>>
    BY DEF SyncExpense
  <2>15. /\ loan' \in [Loans -> Loan] /\ entry' \in [Entries -> Row] /\ broken' \in SUBSET Entries
         /\ lock' \in Reqs \cup {NoReq}
    BY <2>1, <2>14 DEF TypeOK
  <2>16. EntriesOwn(own2)'
    <3>1. \A row : Savable(row) => Savable(row)'
      BY <1>5, <2>11 DEF Savable, There, Linked
    <3>2. \A f \in Entries : \A row \in Row : Own(own, f, row) => Own(own2, f, row)
      BY <2>5, ConstantsAssumption DEF Own, Linked
    <3>3. \A f \in Entries : entry[f] \in Row /\ Own(own, f, entry[f]) /\ Savable(entry[f])
      BY <2>1 DEF J, EntriesOwn, TypeOK
    <3> QED
      BY <2>14, <3>1, <3>2, <3>3 DEF EntriesOwn, Own, Linked
  <2>17. NewIsFree(own2)'
    BY <2>4, <2>11 DEF J, NewIsFree, Made
  <2>18. J(own2)'
    BY <2>4, <2>5, <2>7, <2>8, <2>10, <2>11, <2>12, <2>13, <2>15, <2>16, <2>17, StepJ
  <2> QED
    BY <2>18 DEF IInv
<1>6. ASSUME NEW y \in Expenses, expense[y] = "none", expense' = [expense EXCEPT ![y] = "lost"], Goto(r, "revert")
      PROVE  IInv'
  <2>1. PICK b : b = [req[r] EXCEPT !.pc = "revert"]
    OBVIOUS
  <2>2. req' = [req EXCEPT ![r] = b] /\ UNCHANGED <<loan, entry, broken, lock>>
    BY <1>6, <2>1 DEF Goto, Become, SyncExpense
  <2>3. b \in Request /\ Knows(own, b) /\ b.pc # "commit"
    BY <1>2, <2>1, GotoKnows
  <2>4. lock' \in Reqs \cup {NoReq}
    BY <2>2 DEF J, TypeOK
  <2>5. J(own)'
    BY <1>6, <2>2, <2>3, <2>4, LostJ
  <2> QED
    BY <2>5 DEF IInv
<1> QED
  BY <1>3, <1>4, <1>5, <1>6 DEF SyncExpense

LEMMA LinkExpenseKeeps ==
    ASSUME NEW own, J(own), NEW r \in Reqs, LinkExpense(r)
    PROVE  J(own)'
<1>1. PICK a \in Request : a = req[r] /\ a.pc = "link" /\ Knows(own, a)
  BY DEF J, TypeOK, LinkExpense, At
<1>2. PICK e \in Entries, x \in Expenses : e = a.entry /\ x = a.expense /\ own[x] = e
  BY <1>1 DEF Knows, Edits
<1>3. req[r].pc \in Edits /\ "revert" \in Edits \ {"link"}
  BY <1>1 DEF Edits
<1>4. UNCHANGED <<loan, expense, broken, lock>>
  BY DEF LinkExpense
<1>5. CASE Goto(r, "revert") /\ UNCHANGED entry
  <2>1. PICK b : b = [req[r] EXCEPT !.pc = "revert"]
    OBVIOUS
  <2>2. req' = [req EXCEPT ![r] = b]
    BY <1>5, <2>1 DEF Goto, Become
  <2>3. b \in Request /\ Knows(own, b) /\ b.pc # "commit"
    BY <1>3, <2>1, GotoKnows
  <2> QED
    BY <1>4, <1>5, <2>2, <2>3, OnlyRequest
<1>6. CASE /\ entry' = IF Exists(e) THEN [entry EXCEPT ![e].expense = x] ELSE entry
           /\ There(x) /\ Finish(r)
  <2>1. req' = [req EXCEPT ![r] = Idle]
    BY <1>6 DEF Finish, Become
  <2>2. CASE ~Exists(e)
    BY <1>4, <1>6, <2>1, <2>2, IdleTyped, IdleKnows, OnlyRequest
  <2>3. CASE Exists(e)
    <3>1. PICK old \in Row : old = entry[e]
      BY DEF J, TypeOK
    <3>2. PICK row : row = [old EXCEPT !.expense = x]
      OBVIOUS
    <3>3. row \in Row /\ row.expense = x
      BY <3>2 DEF Row
    <3>4. entry' = [entry EXCEPT ![e] = row]
      BY <1>6, <2>3, <3>1, <3>2
    <3>5. Own(own, e, row) /\ Savable(row)
      BY <1>2, <1>6, <3>3 DEF Own, Savable
    <3>6. Idle \in Request /\ Knows(own, Idle) /\ Idle.pc # "commit"
      BY IdleTyped, IdleKnows
    <3> QED
      BY <1>4, <2>1, <3>3, <3>4, <3>5, <3>6, OnlyEntry
  <2> QED
    BY <2>2, <2>3
<1> QED
  BY <1>1, <1>2, <1>5, <1>6 DEF LinkExpense

LEMMA UpdateRevertKeeps ==
    ASSUME NEW own, J(own), NEW r \in Reqs, UpdateRevert(r)
    PROVE  J(own)'
<1>1. PICK a \in Request : a = req[r] /\ a.pc = "revert" /\ Knows(own, a)
  BY DEF J, TypeOK, UpdateRevert, At
<1>2. PICK e \in Entries, row \in Row, x \in Expenses \cup {NoExpense} :
        e = a.entry /\ row = a.before /\ x = a.expense /\ Own(own, e, row)
  BY <1>1 DEF Knows, Edits, Request
<1>3. PICK b : b = IF x = NoExpense THEN Idle ELSE [Idle EXCEPT !.pc = "discard", !.expense = x]
  OBVIOUS
<1>4. req' = [req EXCEPT ![r] = b] /\ UNCHANGED <<loan, expense, lock>>
  BY <1>1, <1>2, <1>3 DEF UpdateRevert, Finish, Become
<1>5. b \in Request /\ Knows(own, b) /\ b.pc # "commit"
  BY <1>3, IdleTyped, IdleKnows, DiscardRequest
<1>6. CASE Savable(row) /\ entry' = [entry EXCEPT ![e] = row] /\ UNCHANGED broken
  BY <1>2, <1>4, <1>5, <1>6, OnlyEntry
<1>7. CASE broken' = broken \cup {e} /\ UNCHANGED entry
  <2>1. /\ loan' \in [Loans -> Loan] /\ broken' \in SUBSET Entries /\ lock' \in Reqs \cup {NoReq}
        /\ expense' \in [Expenses -> ExpenseStatus] /\ \A y \in Expenses : Made(y)' = Made(y)
    BY <1>4, <1>7 DEF J, TypeOK, Made
  <2>2. entry' \in [Entries -> Row] /\ EntriesOwn(own)'
    BY <1>4, <1>7, RowsKept
  <2> QED
    BY <1>4, <1>5, <2>1, <2>2, QuietJ
<1> QED
  BY <1>1, <1>2, <1>6, <1>7 DEF UpdateRevert

LEMMA DetachExpenseKeeps ==
    ASSUME NEW own, J(own), NEW r \in Reqs, DetachExpense(r)
    PROVE  J(own)'
<1>1. PICK a \in Request : a = req[r] /\ a.pc = "detach" /\ Knows(own, a)
  BY DEF J, TypeOK, DetachExpense, At
<1>2. PICK e \in Entries, x \in Expenses \cup {NoExpense} : e = a.entry /\ x = a.row.expense
  BY <1>1 DEF Knows, Edits, Request, Row
<1>3. req[r].pc \in Edits /\ "revert" \in Edits \ {"link"}
  BY <1>1 DEF Edits
<1>4. UNCHANGED <<loan, expense, broken, lock>>
  BY DEF DetachExpense
<1>5. CASE Goto(r, "revert") /\ UNCHANGED entry
  <2>1. PICK b : b = [req[r] EXCEPT !.pc = "revert"]
    OBVIOUS
  <2>2. req' = [req EXCEPT ![r] = b]
    BY <1>5, <2>1 DEF Goto, Become
  <2>3. b \in Request /\ Knows(own, b) /\ b.pc # "commit"
    BY <1>3, <2>1, GotoKnows
  <2> QED
    BY <1>4, <1>5, <2>2, <2>3, OnlyRequest
<1>6. CASE /\ entry' = IF Exists(e) THEN [entry EXCEPT ![e].expense = NoExpense] ELSE entry
           /\ Become(r, [Idle EXCEPT !.pc = "discard", !.expense = x])
  <2>1. PICK b : b = [Idle EXCEPT !.pc = "discard", !.expense = x]
    OBVIOUS
  <2>2. req' = [req EXCEPT ![r] = b]
    BY <1>6, <2>1 DEF Become
  <2>3. b \in Request /\ Knows(own, b) /\ b.pc # "commit"
    BY <2>1, DiscardRequest
  <2>4. CASE ~Exists(e)
    BY <1>4, <1>6, <2>2, <2>3, <2>4, OnlyRequest
  <2>5. CASE Exists(e)
    <3>1. PICK old \in Row : old = entry[e]
      BY DEF J, TypeOK
    <3>2. PICK row : row = [old EXCEPT !.expense = NoExpense]
      OBVIOUS
    <3>3. row \in Row /\ ~Linked(row)
      BY <3>2, ConstantsAssumption DEF Row, Linked
    <3>4. entry' = [entry EXCEPT ![e] = row]
      BY <1>6, <2>5, <3>1, <3>2
    <3>5. Own(own, e, row) /\ Savable(row)
      BY <3>3 DEF Own, Savable
    <3> QED
      BY <1>4, <2>2, <2>3, <3>3, <3>4, <3>5, OnlyEntry
  <2> QED
    BY <2>4, <2>5
<1> QED
  BY <1>1, <1>2, <1>5, <1>6 DEF DetachExpense

(***************************************************************************)
(* The loans, which have nothing to do with the expenses.                  *)
(***************************************************************************)
LEMMA LoanReadKeeps ==
    ASSUME NEW own, J(own), NEW r \in Reqs, NEW l \in Loans, LoanRead(r, l)
    PROVE  J(own)'
<1>1. PICK old \in Loan : old = loan[l]
  BY DEF J, TypeOK
<1>2. PICK status \in LoanStatus, installment \in 1..MaxAmount :
        Become(r, [Idle EXCEPT !.pc = "loan_save", !.loan = l,
                               !.saved = [loan[l] EXCEPT !.status = status, !.installment = installment]])
  BY DEF LoanRead
<1>3. PICK saved : saved = [old EXCEPT !.status = status, !.installment = installment]
  OBVIOUS
<1>4. saved \in Loan
  <2>1. installment \in Nat
    BY ConstantsAssumption
  <2> QED
    BY <1>3, <2>1 DEF Loan
<1>5. PICK b : b = [Idle EXCEPT !.pc = "loan_save", !.loan = l, !.saved = saved]
  OBVIOUS
<1>6. req' = [req EXCEPT ![r] = b] /\ UNCHANGED <<loan, entry, expense, broken, lock>>
  BY <1>1, <1>2, <1>3, <1>5 DEF Become, LoanRead
<1>7. b \in Request /\ b.pc = "loan_save"
  BY <1>4, <1>5, IdleTyped DEF Request
<1>8. Knows(own, b)
  BY <1>7 DEF Knows, Edits
<1> QED
  BY <1>6, <1>7, <1>8, OnlyRequest

LEMMA LoanSaveKeeps ==
    ASSUME NEW own, J(own), NEW r \in Reqs, LoanSave(r)
    PROVE  J(own)'
<1>1. TypeOK
  BY DEF J
<1>2. req' = [req EXCEPT ![r] = Idle] /\ UNCHANGED <<entry, expense, broken, lock>>
  BY DEF LoanSave, Finish, Become
<1>3. req[r].saved \in Loan
  BY <1>1 DEF TypeOK, Request
<1>4. loan' \in [Loans -> Loan]
  BY <1>1, <1>3 DEF LoanSave, TypeOK
<1>5. /\ broken' \in SUBSET Entries /\ lock' \in Reqs \cup {NoReq}
      /\ expense' \in [Expenses -> ExpenseStatus] /\ \A y \in Expenses : Made(y)' = Made(y)
  BY <1>1, <1>2 DEF TypeOK, Made
<1>6. entry' \in [Entries -> Row] /\ EntriesOwn(own)'
  BY <1>2, RowsKept
<1>7. Idle \in Request /\ Knows(own, Idle) /\ (Idle.pc = "commit" => ~Linked(Idle.row))
  BY IdleTyped, IdleKnows
<1> QED
  BY <1>2, <1>4, <1>5, <1>6, <1>7, QuietJ

LEMMA LoanCreateKeeps ==
    ASSUME NEW own, J(own), NEW l \in Loans, LoanCreate(l)
    PROVE  J(own)'
<1>1. TypeOK
  BY DEF J
<1>2. UNCHANGED <<entry, expense, broken, lock, req>>
  BY DEF LoanCreate
<1>3. PICK amount \in 1..MaxAmount, installment \in 1..MaxAmount :
        loan' = [loan EXCEPT ![l] = [status |-> "active", amount |-> amount, balance |-> amount,
                                     installment |-> installment]]
  BY DEF LoanCreate
<1>4. loan' \in [Loans -> Loan]
  <2>1. amount \in Nat /\ installment \in Nat
    BY ConstantsAssumption
  <2> QED
    BY <1>1, <1>3, <2>1 DEF TypeOK, Loan, LoanStatus
<1>5. /\ broken' \in SUBSET Entries /\ lock' \in Reqs \cup {NoReq}
      /\ expense' \in [Expenses -> ExpenseStatus] /\ \A y \in Expenses : Made(y)' = Made(y)
  BY <1>1, <1>2 DEF TypeOK, Made
<1>6. entry' \in [Entries -> Row] /\ EntriesOwn(own)'
  BY <1>2, RowsKept
<1> QED
  BY <1>2, <1>4, <1>5, <1>6, RestJ

(***************************************************************************)
(* The theorems.                                                           *)
(***************************************************************************)
LEMMA NextIInv == IInv /\ [Next]_vars => IInv'
<1> SUFFICES ASSUME IInv, [Next]_vars
             PROVE  IInv'
  OBVIOUS
<1>1. PICK own : J(own)
  BY DEF IInv
<1>2. CASE UNCHANGED vars
  <2>1. UNCHANGED <<loan, entry, expense, broken, lock, req>>
    BY <1>2 DEF vars
  <2>2. /\ loan' \in [Loans -> Loan] /\ broken' \in SUBSET Entries /\ lock' \in Reqs \cup {NoReq}
        /\ expense' \in [Expenses -> ExpenseStatus] /\ \A y \in Expenses : Made(y)' = Made(y)
    BY <1>1, <2>1 DEF J, TypeOK, Made
  <2>3. entry' \in [Entries -> Row] /\ EntriesOwn(own)'
    BY <1>1, <2>1, RowsKept
  <2>4. J(own)'
    BY <1>1, <2>1, <2>2, <2>3, RestJ
  <2> QED
    BY <2>4 DEF IInv
<1>3. ASSUME NEW r \in Reqs, Create(r)
      PROVE  IInv'
  BY <1>1, <1>3, CreateLockKeeps, CreateExpenseKeeps, CreateCommitKeeps, CreateFailKeeps DEF Create, IInv
<1>4. ASSUME NEW r \in Reqs, Update(r)
      PROVE  IInv'
  BY <1>1, <1>4, UpdateReadKeeps, UpdateCheckKeeps, UpdateSaveKeeps, SyncExpenseKeeps, LinkExpenseKeeps,
     UpdateRevertKeeps, DetachExpenseKeeps DEF Update, IInv
<1>5. ASSUME NEW r \in Reqs, Discard(r) \/ LoanSave(r)
      PROVE  IInv'
  BY <1>1, <1>5, DiscardKeeps, LoanSaveKeeps DEF IInv
<1>6. ASSUME NEW r \in Reqs, NEW e \in Entries, RemoveTransaction(r, e)
      PROVE  IInv'
  BY <1>1, <1>6, RemoveKeeps DEF IInv
<1>7. ASSUME NEW r \in Reqs, NEW l \in Loans, LoanRead(r, l)
      PROVE  IInv'
  BY <1>1, <1>7, LoanReadKeeps DEF IInv
<1>8. ASSUME NEW l \in Loans, LoanCreate(l)
      PROVE  IInv'
  BY <1>1, <1>8, LoanCreateKeeps DEF IInv
<1>9. ASSUME NEW x \in Expenses, DeleteByHand(x)
      PROVE  IInv'
  BY <1>1, <1>9, DeleteByHandKeeps DEF IInv
<1> QED
  BY <1>2, <1>3, <1>4, <1>5, <1>6, <1>7, <1>8, <1>9 DEF Next

\* What the invariant says of the payments and their expenses.
LEMMA IInvOwnExpense == IInv => TypeOK /\ OwnExpense
<1> SUFFICES ASSUME NEW own, J(own)
             PROVE  TypeOK /\ OwnExpense
  BY DEF IInv
<1>1. \A e \in Entries : Own(own, e, entry[e]) /\ Savable(entry[e])
  BY DEF J, EntriesOwn
<1>2. \A e \in Entries : Linked(entry[e]) => There(entry[e].expense)
  BY <1>1 DEF Savable
<1>3. ASSUME NEW e \in Entries, NEW f \in Entries, Linked(entry[e]), entry[e].expense = entry[f].expense
      PROVE  e = f
  <2>1. Linked(entry[f])
    BY <1>3 DEF Linked
  <2>2. own[entry[e].expense] = e /\ own[entry[f].expense] = f
    BY <1>1, <1>3, <2>1 DEF Own
  <2> QED
    BY <1>3, <2>2
<1> QED
  BY <1>2, <1>3 DEF J, OwnExpense

\* The rows of the loans, the payments and the expenses, and what the requests
\* keep, have their types, however many there are.
THEOREM SpecTypeOK == Spec => []TypeOK
<1>1. IInv => TypeOK
  BY IInvOwnExpense
<1> QED
  BY <1>1, InitIInv, NextIInv, PTL DEF Spec

\* A payment refers to an expense that exists and is of no other payment: for
\* any number of requests, also when editions overlap, any call fails, a row
\* read long ago is saved again and the staff deletes expenses.
THEOREM SpecOwnExpense == Spec => []OwnExpense
<1>1. IInv => OwnExpense
  BY IInvOwnExpense
<1> QED
  BY <1>1, InitIInv, NextIInv, PTL DEF Spec

(***************************************************************************)
(* Without overlapping editions.  What was discounted adds up, a paid      *)
(* payment of a project has its expense, and no expense is in no payment.  *)
(* An edition is alone, and what it read is still in the table when it     *)
(* writes; a transaction has the lock from its first statement to its end. *)
(***************************************************************************)
Busy == Edits \cup {"loan_save"}
Alone == \A r, s \in Reqs : r # s /\ req[r].pc \in Busy => req[s].pc = "idle"
LockHeld == \A r \in Reqs : req[r].pc \in {"expense", "commit"} => lock = r

\* The loan of a payment was created before it.
LoanRows ==
    \A e \in Entries : /\ entry[e].status = "none" => entry[e].loan = NoLoan
                       /\ entry[e].loan # NoLoan => loan[entry[e].loan].status # "none"
FreeRows == \A e \in Entries : entry[e].status = "none" => entry[e].expense = NoExpense

\* What a request knows of loans.
KnowsLoan(a) ==
    /\ a.pc \in {"expense", "commit"} /\ a.row.loan # NoLoan =>
          loan[a.row.loan].status # "none" /\ a.row.taken <= loan[a.row.loan].balance
    /\ a.pc \in Edits => /\ a.row.loan = entry[a.entry].loan /\ a.row.taken = entry[a.entry].taken
                         /\ a.before.loan = entry[a.entry].loan /\ a.before.taken = entry[a.entry].taken
    /\ a.pc = "loan_save" => /\ a.loan \in Loans /\ a.saved.status \in LoanStatus
                             /\ a.saved.balance = loan[a.loan].balance /\ a.saved.amount = loan[a.loan].amount

\* What a request knows of payments and their expenses: where it is, what the table
\* has of the payment that it edits.
KnowsExpense(a) ==
    /\ a.pc \notin Edits => a.entry = NoEntry
    /\ a.pc \notin {"commit", "discard", "link", "revert"} => a.expense = NoExpense
    /\ a.pc = "expense" => ShouldExist(a.row) /\ ~Linked(a.row)
    /\ a.pc = "commit" => a.row.expense = a.expense /\ a.row.status # "none" /\ (ShouldExist(a.row) <=> Linked(a.row))
    /\ a.pc \in Edits => /\ a.row.status \in Status /\ a.before.status \in Status /\ a.row.expense = a.before.expense
                         /\ a.entry \notin broken => (ShouldExist(a.before) <=> Linked(a.before))
    /\ a.pc \in {"check", "save"} => entry[a.entry] = a.before
    /\ a.pc \in {"sync", "link", "detach", "revert"} => entry[a.entry] = a.row
    /\ a.pc \in {"sync", "link"} => ShouldExist(a.row)
    /\ a.pc = "link" => ~Linked(a.row)
    /\ a.pc = "detach" => ~ShouldExist(a.row) /\ Linked(a.row)

\* The expense that a request has in its hands is in no payment nor another request.
Held ==
    \A r \in Reqs : \A x \in Expenses : req[r].expense = x =>
        /\ Made(x)
        /\ \A e \in Entries : entry[e].expense # x
        /\ \A s \in Reqs : req[s].expense = x => s = r

AInv ==
    /\ IInv
    /\ Alone /\ LockHeld
    /\ LoanRows /\ FreeRows /\ Held
    /\ \A r \in Reqs : KnowsLoan(req[r]) /\ KnowsExpense(req[r])
    /\ LoanConserved /\ PaidHasExpense /\ NoOrphan

(***************************************************************************)
(* What the payments of a table took from a loan.                          *)
(***************************************************************************)
Share(row, l) == IF row.loan = l THEN row.taken ELSE 0
TakenIn(t, l) == SumOver([e \in Entries |-> t[e].taken], {e \in Entries : t[e].loan = l})

LEMMA TakenOfTable ==
    LoanConserved <=> \A l \in Loans : loan[l].balance + TakenIn(entry, l) = loan[l].amount
BY DEF LoanConserved, TakenIn

LEMMA TakenOfTableNext ==
    LoanConserved' <=> \A l \in Loans : loan'[l].balance + TakenIn(entry', l) = loan'[l].amount
BY DEF LoanConserved, TakenIn

LEMMA TakenIsShares ==
    ASSUME NEW t \in [Entries -> Row], NEW l
    PROVE  TakenIn(t, l) = SumOver([e \in Entries |-> Share(t[e], l)], Entries)
<1>1. PICK T \in SUBSET Entries : T = {e \in Entries : t[e].loan = l}
  OBVIOUS
<1>2. PICK w : w = [e \in Entries |-> t[e].taken]
  OBVIOUS
<1>3. PICK v : v = [e \in Entries |-> Share(t[e], l)]
  OBVIOUS
<1>4. \A x \in Entries : w[x] \in Int
  BY <1>2 DEF Row
<1>5. \A x \in Entries : v[x] = IF x \in T THEN w[x] ELSE 0
  BY <1>1, <1>2, <1>3 DEF Share
<1>6. IsFiniteSet(Entries)
  BY ConstantsAssumption
<1>7. SumOver(v, Entries) = SumOver(w, T)
  BY <1>4, <1>5, <1>6, SumOfPart
<1> QED
  BY <1>1, <1>2, <1>3, <1>7 DEF TakenIn

LEMMA TakenTyped == ASSUME NEW t \in [Entries -> Row], NEW l PROVE TakenIn(t, l) \in Int
<1>1. PICK v : v = [e \in Entries |-> Share(t[e], l)]
  OBVIOUS
<1>2. \A x \in Entries : v[x] \in Int
  BY <1>1 DEF Share, Row
<1>3. IsFiniteSet(Entries)
  BY ConstantsAssumption
<1>4. SumOver(v, Entries) \in Int
  BY <1>2, <1>3, SumIsNumber
<1> QED
  BY <1>1, <1>4, TakenIsShares

\* One payment changes.
LEMMA TakenMoves ==
    ASSUME NEW t \in [Entries -> Row], NEW u \in [Entries -> Row], NEW e \in Entries, NEW l,
           \A f \in Entries \ {e} : u[f].loan = t[f].loan /\ u[f].taken = t[f].taken
    PROVE  TakenIn(u, l) = TakenIn(t, l) + Share(u[e], l) - Share(t[e], l)
<1>1. PICK w : w = [f \in Entries |-> Share(t[f], l)]
  OBVIOUS
<1>2. PICK v : v = [f \in Entries |-> Share(u[f], l)]
  OBVIOUS
<1>3. \A x \in Entries : v[x] \in Int /\ w[x] \in Int
  BY <1>1, <1>2 DEF Share, Row
<1>4. \A x \in Entries \ {e} : v[x] = w[x]
  BY <1>1, <1>2 DEF Share
<1>5. IsFiniteSet(Entries)
  BY ConstantsAssumption
<1>6. SumOver(v, Entries) = SumOver(w, Entries) + v[e] - w[e]
  BY <1>3, <1>4, <1>5, SumMoves
<1>7. TakenIn(u, l) = SumOver(v, Entries) /\ TakenIn(t, l) = SumOver(w, Entries)
  BY <1>1, <1>2, TakenIsShares
<1> QED
  BY <1>1, <1>2, <1>6, <1>7

\* No payment changes what it took.
LEMMA TakenSame ==
    ASSUME NEW t \in [Entries -> Row], NEW u \in [Entries -> Row], NEW l,
           \A f \in Entries : u[f].loan = t[f].loan /\ u[f].taken = t[f].taken
    PROVE  TakenIn(u, l) = TakenIn(t, l)
<1>1. PICK w : w = [f \in Entries |-> Share(t[f], l)]
  OBVIOUS
<1>2. PICK v : v = [f \in Entries |-> Share(u[f], l)]
  OBVIOUS
<1>3. \A x \in Entries : v[x] = w[x]
  BY <1>1, <1>2 DEF Share
<1>4. v = w
  BY <1>1, <1>2, <1>3
<1> QED
  BY <1>1, <1>2, <1>4, TakenIsShares

\* No payment of a loan, nothing taken from it.
LEMMA TakenNone ==
    ASSUME NEW t \in [Entries -> Row], NEW l, \A e \in Entries : t[e].loan # l
    PROVE  TakenIn(t, l) = 0
<1>1. {e \in Entries : t[e].loan = l} = {}
  OBVIOUS
<1> QED
  BY <1>1, SumOfNone DEF TakenIn

\* applyInstallment takes from the balance what the payment discounts.
LEMMA DiscountedShare ==
    ASSUME TypeOK, NEW row \in Row, row.loan # NoLoan => row.taken <= loan[row.loan].balance, NEW l \in Loans
    PROVE  /\ Discounted(row)[l].balance = loan[l].balance - Share(row, l)
           /\ Discounted(row)[l].amount = loan[l].amount
           /\ loan[l].status # "none" => Discounted(row)[l].status # "none"
<1>1. PICK m : m = row.loan
  OBVIOUS
<1>2. l # NoLoan /\ loan[l] \in Loan /\ row.taken \in Nat
  BY ConstantsAssumption DEF TypeOK, Row
<1>3. loan[l].balance \in Nat
  BY <1>2 DEF Loan
<1>4. CASE m = NoLoan \/ row.taken = 0 \/ l # m
  <2>1. Discounted(row)[l] = loan[l]
    BY <1>1, <1>4 DEF Discounted, TypeOK
  <2>2. Share(row, l) = 0
    BY <1>1, <1>2, <1>4 DEF Share
  <2> QED
    BY <1>3, <2>1, <2>2
<1>5. CASE ~(m = NoLoan \/ row.taken = 0 \/ l # m)
  <2>1. PICK old \in Loan : old = loan[l]
    BY <1>2
  <2>2. PICK left \in Int : left = old.balance - row.taken
    BY <1>2 DEF Loan
  <2>3. left >= 0 /\ Share(row, l) = row.taken
    BY <1>1, <1>2, <1>3, <1>5, <2>1, <2>2 DEF Share
  <2>4. PICK new : new = IF left > 0 THEN [old EXCEPT !.balance = left] ELSE [old EXCEPT !.balance = 0, !.status = "paid"]
    OBVIOUS
  <2>5. Discounted(row) = [loan EXCEPT ![l] = new]
    BY <1>1, <1>5, <2>1, <2>2, <2>4 DEF Discounted
  <2>6. Discounted(row)[l] = new
    BY <2>5 DEF TypeOK
  <2>7. new.balance = left /\ new.amount = old.amount /\ (old.status # "none" => new.status # "none")
    BY <2>3, <2>4 DEF Loan
  <2> QED
    BY <2>1, <2>2, <2>3, <2>6, <2>7
<1> QED
  BY <1>4, <1>5

\* remove gives it back.
LEMMA RefundedShare ==
    ASSUME TypeOK, NEW row \in Row, NEW l \in Loans
    PROVE  /\ Refunded(row)[l].balance = loan[l].balance + Share(row, l)
           /\ Refunded(row)[l].amount = loan[l].amount
           /\ loan[l].status # "none" => Refunded(row)[l].status # "none"
<1>1. PICK m : m = row.loan
  OBVIOUS
<1>2. l # NoLoan /\ loan[l] \in Loan /\ row.taken \in Nat
  BY ConstantsAssumption DEF TypeOK, Row
<1>3. loan[l].balance \in Nat
  BY <1>2 DEF Loan
<1>4. CASE m = NoLoan \/ row.taken = 0 \/ l # m
  <2>1. Refunded(row)[l] = loan[l]
    BY <1>1, <1>4 DEF Refunded, TypeOK
  <2>2. Share(row, l) = 0
    BY <1>1, <1>2, <1>4 DEF Share
  <2> QED
    BY <1>3, <2>1, <2>2
<1>5. CASE ~(m = NoLoan \/ row.taken = 0 \/ l # m)
  <2>1. PICK old \in Loan : old = loan[l]
    BY <1>2
  <2>2. PICK balance \in Nat : balance = old.balance + row.taken
    BY <1>2 DEF Loan
  <2>3. PICK status : status = IF old.status = "paid" /\ balance > 0 THEN "active" ELSE old.status
    OBVIOUS
  <2>4. PICK new : new = [old EXCEPT !.balance = balance, !.status = status]
    OBVIOUS
  <2>5. Refunded(row) = [loan EXCEPT ![l] = new]
    BY <1>1, <1>5, <2>1, <2>2, <2>3, <2>4 DEF Refunded
  <2>6. Refunded(row)[l] = new
    BY <2>5 DEF TypeOK
  <2>7. new.balance = balance /\ new.amount = old.amount /\ (old.status # "none" => new.status # "none")
    BY <2>3, <2>4 DEF Loan
  <2> QED
    BY <1>1, <1>5, <2>1, <2>2, <2>6, <2>7 DEF Share
<1> QED
  BY <1>4, <1>5

(***************************************************************************)
(* Requests and the tables.                                                *)
(***************************************************************************)
LEMMA Typed ==
    ASSUME AInv
    PROVE  /\ TypeOK /\ OwnExpense
           /\ \A r \in Reqs : /\ req[r] \in Request /\ KnowsLoan(req[r]) /\ KnowsExpense(req[r])
                              /\ req[r].pc \in Edits => req[r].entry \in Entries
<1>1. PICK own : J(own)
  BY DEF AInv, IInv
<1>2. \A r \in Reqs : req[r].pc \in Edits => req[r].entry \in Entries
  BY <1>1 DEF J, Knows
<1>3. TypeOK /\ OwnExpense
  BY IInvOwnExpense DEF AInv
<1> QED
  BY <1>2, <1>3 DEF AInv, TypeOK

LEMMA TypedNext ==
    ASSUME IInv'
    PROVE  TypeOK' /\ OwnExpense'
BY IInvOwnExpense, PTL

\* A request that is not running has nothing in its hands.
LEMMA IdleHasNothing ==
    ASSUME AInv, NEW s \in Reqs, req[s].pc = "idle"
    PROVE  req[s].entry = NoEntry /\ req[s].expense = NoExpense
BY Typed DEF KnowsExpense, Edits

LEMMA OthersIdle ==
    ASSUME AInv, NEW r \in Reqs, req[r].pc \in Busy
    PROVE  \A s \in Reqs \ {r} : req[s].pc = "idle"
BY DEF AInv, Alone

LEMMA NobodyBusy ==
    ASSUME AInv, NEW r \in Reqs, req[r].pc # "idle", req[r].pc \notin Busy
    PROVE  \A s \in Reqs : req[s].pc \notin Busy
BY DEF AInv, Alone

LEMMA NotEditing ==
    ASSUME ~Overlap, NEW r \in Reqs, Begin(r)
    PROVE  \A s \in Reqs : req[s].pc \notin Busy
BY DEF Begin, Editing, Busy, Edits

\* What is known by a request that edits no payment does not depend on the tables.
LEMMA FreeKnows ==
    ASSUME NEW a, a.pc \notin Edits, KnowsExpense(a)
    PROVE  KnowsExpense(a)'
BY DEF KnowsExpense, Edits, Linked, ShouldExist

LEMMA IdleKnowsAll ==
    ASSUME NEW a, a.pc = "idle", a.entry = NoEntry, a.expense = NoExpense
    PROVE  KnowsLoan(a)' /\ KnowsExpense(a)'
BY DEF KnowsLoan, KnowsExpense, Edits

LEMMA OneChanges ==
    ASSUME TypeOK, NEW r \in Reqs, NEW b, req' = [req EXCEPT ![r] = b]
    PROVE  req'[r] = b /\ \A s \in Reqs \ {r} : req'[s] = req[s]
BY DEF TypeOK

(***************************************************************************)
(* An edition writes the payment it read, alone.                           *)
(***************************************************************************)
\* What it has in its hands afterwards is in no payment, and what it had is there,
\* in the payment or deleted.
OnlyInHands(b, e, row) ==
    \A x \in Expenses : b.expense = x =>
        expense'[x] # "none" /\ row.expense # x /\ \A f \in Entries \ {e} : entry[f].expense # x
NothingDropped(r, b, e, row) ==
    \A x \in Expenses : expense'[x] = "there" =>
        \/ x \in {b.expense, row.expense}
        \/ expense[x] = "there" /\ x \notin {entry[e].expense, req[r].expense}

LEMMA EditStep ==
    ASSUME AInv, IInv', NEW r \in Reqs, req[r].pc \in Edits, NEW e \in Entries, req[r].entry = e,
           NEW b \in Request, req' = [req EXCEPT ![r] = b], b.pc \notin {"expense", "commit"},
           KnowsLoan(b)', KnowsExpense(b)',
           NEW row \in Row, entry' = [entry EXCEPT ![e] = row], UNCHANGED loan,
           row.loan = entry[e].loan, row.taken = entry[e].taken, row.status # "none",
           OnlyInHands(b, e, row), NothingDropped(r, b, e, row),
           b.entry # e /\ e \notin broken' => (ShouldExist(row) <=> Linked(row)),
           \A f \in Entries \ {e} : f \in broken => f \in broken'
    PROVE  AInv'
<1>0. TypeOK /\ e # NoEntry /\ NoExpense \notin Expenses
  BY Typed, ConstantsAssumption
<1>1. req'[r] = b /\ \A s \in Reqs \ {r} : req'[s] = req[s]
  BY <1>0, OneChanges
<1>2. \A s \in Reqs \ {r} : req[s].pc = "idle" /\ req[s].entry = NoEntry /\ req[s].expense = NoExpense
  BY OthersIdle, IdleHasNothing DEF Busy
<1>3. \A s \in Reqs \ {r} : req'[s].pc = "idle" /\ req'[s].entry = NoEntry /\ req'[s].expense = NoExpense
  BY <1>1, <1>2
<1>4. entry'[e] = row /\ \A f \in Entries \ {e} : entry'[f] = entry[f]
  BY <1>0 DEF TypeOK
<1>5. Alone'
  BY <1>3 DEF Alone, Busy, Edits
<1>6. LockHeld'
  BY <1>1, <1>3 DEF LockHeld
<1>7. LoanRows' /\ FreeRows'
  <2>1. LoanRows /\ FreeRows
    BY DEF AInv
  <2>2. LoanRows'
    BY <1>4, <2>1 DEF LoanRows
  <2>3. FreeRows'
    BY <1>4, <2>1 DEF FreeRows
  <2> QED
    BY <2>2, <2>3
<1>8. Held'
  <2> SUFFICES ASSUME NEW q \in Reqs, NEW x \in Expenses, req'[q].expense = x
               PROVE  /\ Made(x)'
                      /\ \A f \in Entries : entry'[f].expense # x
                      /\ \A s \in Reqs : req'[s].expense = x => s = q
    BY DEF Held
  <2>1. q = r /\ b.expense = x
    BY <1>0, <1>1, <1>3
  <2>2. Made(x)' /\ row.expense # x /\ \A f \in Entries \ {e} : entry[f].expense # x
    BY <2>1 DEF Made, OnlyInHands
  <2>3. \A f \in Entries : entry'[f].expense # x
    BY <1>4, <2>2
  <2>4. \A s \in Reqs \ {r} : req'[s].expense # x
    BY <1>0, <1>3
  <2> QED
    BY <2>1, <2>2, <2>3, <2>4
<1>9. \A s \in Reqs : KnowsLoan(req[s])' /\ KnowsExpense(req[s])'
  <2> SUFFICES ASSUME NEW s \in Reqs PROVE KnowsLoan(req[s])' /\ KnowsExpense(req[s])'
    OBVIOUS
  <2>1. CASE s = r
    BY <1>1, <2>1 DEF KnowsLoan, KnowsExpense
  <2>2. CASE s # r
    <3>1. PICK a : a = req'[s]
      OBVIOUS
    <3>2. a.pc = "idle" /\ a.entry = NoEntry /\ a.expense = NoExpense
      BY <1>3, <2>2, <3>1
    <3>3. KnowsLoan(a)' /\ KnowsExpense(a)'
      BY <3>2, IdleKnowsAll
    <3> QED
      BY <3>1, <3>3 DEF KnowsLoan, KnowsExpense
  <2> QED
    BY <2>1, <2>2
<1>10. LoanConserved'
  <2>1. PICK t \in [Entries -> Row] : t = entry
    BY <1>0 DEF TypeOK
  <2>2. PICK u \in [Entries -> Row] : u = entry'
    BY <2>1
  <2>3. \A f \in Entries : u[f].loan = t[f].loan /\ u[f].taken = t[f].taken
    BY <1>4, <2>1, <2>2
  <2>4. \A l : TakenIn(u, l) = TakenIn(t, l)
    BY <2>3, TakenSame
  <2> QED
    BY <2>1, <2>2, <2>4, TakenOfTable, TakenOfTableNext DEF AInv
<1>11. PaidHasExpense'
  <2> SUFFICES ASSUME NEW f \in Entries, entry'[f].status \in Status, f \notin broken', \A q \in Reqs : req'[q].entry # f
               PROVE  ShouldExist(entry'[f]) <=> Linked(entry'[f])
    BY DEF PaidHasExpense, Exists, ShouldExist, Linked
  <2>1. CASE f = e
    BY <1>1, <1>4, <2>1
  <2>2. CASE f # e
    <3>1. entry'[f] = entry[f] /\ f \notin broken
      BY <1>4, <2>2
    <3>2. \A q \in Reqs : req[q].entry # f
      <4>1. f # NoEntry
        BY ConstantsAssumption
      <4> QED
        BY <1>2, <2>2, <4>1
    <3>3. PaidHasExpense
      BY DEF AInv
    <3>4. ShouldExist(entry[f]) <=> Linked(entry[f])
      BY <3>1, <3>2, <3>3 DEF PaidHasExpense, Exists
    <3> QED
      BY <3>1, <3>4
  <2> QED
    BY <2>1, <2>2
<1>12. NoOrphan'
  <2> SUFFICES ASSUME NEW x \in Expenses, expense'[x] = "there"
               PROVE  (\E f \in Entries : entry'[f].expense = x) \/ (\E q \in Reqs : req'[q].expense = x)
    BY DEF NoOrphan
  <2>0. \/ x \in {b.expense, row.expense}
        \/ expense[x] = "there" /\ x \notin {entry[e].expense, req[r].expense}
    BY DEF NothingDropped
  <2>1. CASE x \in {b.expense, row.expense}
    BY <1>1, <1>4, <2>1
  <2>2. CASE expense[x] = "there" /\ x \notin {entry[e].expense, req[r].expense}
    <3>1. (\E f \in Entries : entry[f].expense = x) \/ (\E q \in Reqs : req[q].expense = x)
      BY <2>2 DEF AInv, NoOrphan
    <3>2. \A q \in Reqs : req[q].expense # x
      BY <1>0, <1>2, <2>2
    <3>3. PICK f \in Entries \ {e} : entry[f].expense = x
      BY <2>2, <3>1, <3>2
    <3> QED
      BY <1>4, <3>3
  <2> QED
    BY <2>0, <2>1, <2>2
<1> QED
  BY <1>5, <1>6, <1>7, <1>8, <1>9, <1>10, <1>11, <1>12 DEF AInv

\* What an edition knows.
LEMMA Editor ==
    ASSUME AInv, NEW r \in Reqs, req[r].pc \in Edits
    PROVE  /\ req[r] \in Request /\ KnowsLoan(req[r]) /\ KnowsExpense(req[r])
           /\ req[r].entry \in Entries /\ req[r].entry # NoEntry
           /\ req[r].row \in Row /\ req[r].before \in Row /\ entry[req[r].entry] \in Row
           /\ req[r].expense \in Expenses \cup {NoExpense}
           /\ entry[req[r].entry].status # "none"
<1>1. PICK a : a = req[r]
  OBVIOUS
<1>2. a \in Request /\ KnowsLoan(a) /\ KnowsExpense(a) /\ a.entry \in Entries /\ TypeOK
  BY <1>1, Typed
<1>3. a.entry # NoEntry /\ a.row \in Row /\ a.before \in Row /\ a.expense \in Expenses \cup {NoExpense} /\ entry[a.entry] \in Row
  BY <1>2, ConstantsAssumption DEF Request, TypeOK
<1>4. entry[a.entry] \in {a.row, a.before}
  BY <1>1, <1>2 DEF KnowsExpense, Edits
<1>5. a.row.status \in Status /\ a.before.status \in Status
  BY <1>1, <1>2 DEF KnowsExpense
<1> QED
  BY <1>1, <1>2, <1>3, <1>4, <1>5 DEF Status

\* What the payment has is nobody's else, and nothing in a payment is still to be created.
LEMMA InEntries ==
    ASSUME AInv, NEW x \in Expenses
    PROVE  /\ \A e \in Entries : entry[e].expense = x => Made(x) /\ \A f \in Entries \ {e} : entry[f].expense # x
           /\ \A r \in Reqs : req[r].expense = x => Made(x) /\ \A e \in Entries : entry[e].expense # x
<1>1. OwnExpense
  BY Typed
<1>2. \A e \in Entries : entry[e].expense = x => Made(x) /\ \A f \in Entries \ {e} : entry[f].expense # x
  BY <1>1 DEF OwnExpense, Linked, There, Made
<1> QED
  BY <1>2 DEF AInv, Held

\* No expense is there that was not, and none that was made is not made.
NothingAppears ==
    \A x \in Expenses : /\ Made(x) => expense'[x] # "none"
                        /\ expense'[x] = "there" => expense[x] = "there"

\* The payment is left as it is, and an expense may be lost.
LEMMA EditLeaves ==
    ASSUME AInv, IInv', NEW r \in Reqs, req[r].pc \in Edits, NEW e \in Entries, req[r].entry = e,
           NEW b \in Request, req' = [req EXCEPT ![r] = b], b.pc \notin {"expense", "commit"},
           KnowsLoan(b)', KnowsExpense(b)', UNCHANGED <<loan, entry>>, NothingAppears,
           b.expense = req[r].expense, broken \subseteq broken',
           b.entry # e /\ e \notin broken' => (ShouldExist(entry[e]) <=> Linked(entry[e]))
    PROVE  AInv'
<1>1. PICK row \in Row : row = entry[e] /\ row.status # "none"
  BY Editor
<1>2. entry' = [entry EXCEPT ![e] = row]
  BY <1>1, Typed DEF TypeOK
<1>3. OnlyInHands(b, e, row)
  BY <1>1, InEntries DEF OnlyInHands, NothingAppears
<1>4. NothingDropped(r, b, e, row)
  BY <1>1 DEF NothingDropped, NothingAppears
<1>5. b.entry # e /\ e \notin broken' => (ShouldExist(row) <=> Linked(row))
  BY <1>1
<1>6. \A f \in Entries \ {e} : f \in broken => f \in broken'
  OBVIOUS
<1>7. row.loan = entry[e].loan /\ row.taken = entry[e].taken /\ row.status # "none"
  BY <1>1
<1> QED
  BY <1>2, <1>3, <1>4, <1>5, <1>6, <1>7, EditStep

\* The payment is left as it is, and the expenses too.
LEMMA EditStay ==
    ASSUME AInv, IInv', NEW r \in Reqs, req[r].pc \in Edits, NEW e \in Entries, req[r].entry = e,
           NEW b \in Request, req' = [req EXCEPT ![r] = b], b.pc \notin {"expense", "commit"},
           KnowsLoan(b)', KnowsExpense(b)', UNCHANGED <<loan, entry, expense>>,
           b.expense = req[r].expense, broken \subseteq broken',
           b.entry # e /\ e \notin broken' => (ShouldExist(entry[e]) <=> Linked(entry[e]))
    PROVE  AInv'
<1>1. NothingAppears
  BY DEF NothingAppears, Made
<1> QED
  BY <1>1, EditLeaves

\* The end of an edition, or its last step, with the expense in its hands.
LEMMA IdleNext ==
    /\ Idle \in Request /\ Idle.pc \notin {"expense", "commit"} /\ Idle.entry = NoEntry /\ Idle.expense = NoExpense
    /\ KnowsLoan(Idle)' /\ KnowsExpense(Idle)'
<1>1. Idle \in Request /\ Idle.pc = "idle" /\ Idle.entry = NoEntry /\ Idle.expense = NoExpense
  BY IdleTyped
<1>2. PICK a : a = Idle
  OBVIOUS
<1>3. KnowsLoan(a)' /\ KnowsExpense(a)'
  BY <1>1, <1>2, IdleKnowsAll
<1> QED
  BY <1>1, <1>2, <1>3 DEF KnowsLoan, KnowsExpense

LEMMA DiscardNext ==
    ASSUME NEW x \in Expenses \cup {NoExpense},
           NEW b, b = [Idle EXCEPT !.pc = "discard", !.expense = x]
    PROVE  /\ b \in Request /\ b.pc = "discard" /\ b.entry = NoEntry /\ b.expense = x
           /\ KnowsLoan(b)' /\ KnowsExpense(b)'
<1>1. b \in Request /\ b.pc = "discard" /\ b.entry = NoEntry /\ b.expense = x
  BY IdleTyped DEF Request
<1>2. KnowsLoan(b)' /\ KnowsExpense(b)'
  BY <1>1 DEF KnowsLoan, KnowsExpense, Edits
<1> QED
  BY <1>1, <1>2

\* An edition goes on.
LEMMA EditGoesOn ==
    ASSUME AInv, NEW r \in Reqs, req[r].pc \in Edits, NEW label \in Edits,
           NEW b, b = [req[r] EXCEPT !.pc = label]
    PROVE  /\ b \in Request /\ b.pc = label /\ b.pc \notin {"expense", "commit"} /\ b.entry = req[r].entry /\ b.row = req[r].row
           /\ b.before = req[r].before /\ b.expense = req[r].expense
BY Editor DEF Request, Edits

LEMMA UpdateCheckAlone ==
    ASSUME AInv, IInv', NEW r \in Reqs, UpdateCheck(r)
    PROVE  AInv'
<1>1. PICK a : a = req[r] /\ a.pc = "check"
  BY DEF UpdateCheck, At
<1>2. req[r].pc \in Edits /\ "save" \in Edits
  BY <1>1 DEF Edits
<1>3. PICK e \in Entries : a.entry = e /\ e # NoEntry
  BY <1>1, <1>2, Editor
<1>4. entry[e] = a.before /\ a.expense = NoExpense /\ (e \notin broken => (ShouldExist(a.before) <=> Linked(a.before)))
      /\ KnowsLoan(a) /\ KnowsExpense(a)
  BY <1>1, <1>2, <1>3, Editor DEF KnowsExpense
<1>5. UNCHANGED <<loan, entry, expense, broken, lock>>
  BY DEF UpdateCheck
<1>6. PICK b : b = IF Duplicate(req[r].row.key, req[r].entry) THEN Idle ELSE [req[r] EXCEPT !.pc = "save"]
  OBVIOUS
<1>7. req' = [req EXCEPT ![r] = b]
  BY <1>6 DEF UpdateCheck, Finish, Goto, Become
<1>8. CASE b = Idle
  <2>1. b \in Request /\ b.pc \notin {"expense", "commit"} /\ b.expense = NoExpense /\ KnowsLoan(b)' /\ KnowsExpense(b)'
    BY <1>8, IdleNext DEF KnowsLoan, KnowsExpense
  <2> QED
    BY <1>1, <1>2, <1>3, <1>4, <1>5, <1>7, <2>1, EditStay
<1>9. CASE b = [req[r] EXCEPT !.pc = "save"]
  <2>1. /\ b \in Request /\ b.pc = "save" /\ b.pc \notin {"expense", "commit"} /\ b.entry = a.entry /\ b.row = a.row
        /\ b.before = a.before /\ b.expense = a.expense
    BY <1>1, <1>2, <1>9, EditGoesOn
  <2>2. KnowsLoan(b)'
    BY <1>1, <1>4, <1>5, <2>1 DEF KnowsLoan, Edits
  <2>3. KnowsExpense(b)'
    BY <1>1, <1>4, <1>5, <2>1 DEF KnowsExpense, Edits, Linked, ShouldExist
  <2> QED
    BY <1>1, <1>2, <1>3, <1>4, <1>5, <1>7, <2>1, <2>2, <2>3, EditStay
<1> QED
  BY <1>6, <1>8, <1>9

LEMMA UpdateSaveAlone ==
    ASSUME AInv, IInv', NEW r \in Reqs, UpdateSave(r)
    PROVE  AInv'
<1>1. PICK a : a = req[r] /\ a.pc = "save"
  BY DEF UpdateSave, At
<1>2. req[r].pc \in Edits
  BY <1>1 DEF Edits
<1>3. PICK e \in Entries, row \in Row : a.entry = e /\ e # NoEntry /\ a.row = row
  BY <1>1, <1>2, Editor
<1>4. /\ entry[e] = a.before /\ a.expense = NoExpense /\ row.expense = entry[e].expense
      /\ row.loan = entry[e].loan /\ row.taken = entry[e].taken /\ row.status \in Status
      /\ KnowsLoan(a) /\ KnowsExpense(a)
  BY <1>1, <1>2, <1>3, Editor DEF KnowsExpense, KnowsLoan
<1>5. Savable(row)
  BY <1>4, Typed DEF Savable, OwnExpense, Linked
<1>6. entry' = [entry EXCEPT ![e] = row] /\ UNCHANGED <<loan, expense, broken, lock>>
  BY <1>1, <1>3, <1>5 DEF UpdateSave
<1>7. entry'[e] = row
  BY <1>6, Typed DEF TypeOK
<1>8. PICK next \in {"sync", "detach", "idle"} :
        /\ next = CASE ShouldExist(row) -> "sync"
                    [] ~ShouldExist(row) /\ Linked(row) -> "detach"
                    [] OTHER -> "idle"
        /\ next = "sync" => ShouldExist(row)
        /\ next = "detach" => ~ShouldExist(row) /\ Linked(row)
        /\ next = "idle" => ~ShouldExist(row) /\ ~Linked(row)
  <2>1. CASE ShouldExist(row)
    BY <2>1
  <2>2. CASE ~ShouldExist(row) /\ Linked(row)
    BY <2>2
  <2>3. CASE ~ShouldExist(row) /\ ~Linked(row)
    BY <2>3
  <2> QED
    BY <2>1, <2>2, <2>3
<1>9. PICK b : b = IF next = "idle" THEN Idle ELSE [req[r] EXCEPT !.pc = next]
  OBVIOUS
<1>10. req' = [req EXCEPT ![r] = b]
  BY <1>1, <1>3, <1>5, <1>8, <1>9 DEF UpdateSave, Finish, Goto, Become
<1>11. /\ b \in Request /\ b.pc \notin {"expense", "commit"} /\ KnowsLoan(b)' /\ KnowsExpense(b)' /\ b.expense = NoExpense
       /\ b.entry # e => next = "idle"
  <2>1. CASE next = "idle"
    BY <1>9, <2>1, IdleNext DEF KnowsLoan, KnowsExpense
  <2>2. CASE next # "idle"
    <3>1. next \in Edits
      BY <1>8, <2>2 DEF Edits
    <3>2. /\ b \in Request /\ b.pc = next /\ b.pc \notin {"expense", "commit"} /\ b.entry = e /\ b.row = row
          /\ b.before = a.before /\ b.expense = NoExpense
      BY <1>1, <1>2, <1>3, <1>4, <1>9, <2>2, <3>1, EditGoesOn
    <3>3. KnowsLoan(b)'
      BY <1>1, <1>3, <1>4, <1>7, <2>2, <3>1, <3>2 DEF KnowsLoan, Edits
    <3>4. /\ b.row.status \in Status /\ b.before.status \in Status /\ b.row.expense = b.before.expense
          /\ b.entry \notin broken' => (ShouldExist(b.before) <=> Linked(b.before))
      BY <1>1, <1>2, <1>3, <1>4, <1>6, <3>2 DEF KnowsExpense
    <3>5. KnowsExpense(b)'
      BY <1>7, <1>8, <2>2, <3>2, <3>4 DEF KnowsExpense, Edits, ShouldExist, Linked
    <3> QED
      BY <3>2, <3>3, <3>5
  <2> QED
    BY <2>1, <2>2
<1>12. OnlyInHands(b, e, row)
  BY <1>11, ConstantsAssumption DEF OnlyInHands
<1>13. NothingDropped(r, b, e, row)
  BY <1>1, <1>4, <1>6, ConstantsAssumption DEF NothingDropped
<1>14. b.entry # e /\ e \notin broken' => (ShouldExist(row) <=> Linked(row))
  BY <1>8, <1>11
<1>15. \A f \in Entries \ {e} : f \in broken => f \in broken'
  BY <1>6
<1>16. row.status # "none"
  BY <1>4 DEF Status
<1> QED
  BY <1>1, <1>2, <1>3, <1>4, <1>6, <1>10, <1>11, <1>12, <1>13, <1>14, <1>15, <1>16, EditStep

\* Its expense failed: the edition will save the payment as it was read.
LEMMA RevertLater ==
    ASSUME AInv, IInv', NEW r \in Reqs, req[r].pc \in {"sync", "link", "detach"}, Goto(r, "revert"),
           UNCHANGED <<loan, entry, broken>>, NothingAppears
    PROVE  AInv'
<1>1. PICK a : a = req[r]
  OBVIOUS
<1>2. req[r].pc \in Edits /\ "revert" \in Edits
  BY DEF Edits
<1>3. PICK e \in Entries : a.entry = e /\ e # NoEntry
  BY <1>1, <1>2, Editor
<1>4. entry[e] = a.row /\ KnowsLoan(a) /\ KnowsExpense(a)
  BY <1>1, <1>2, <1>3, Editor DEF KnowsExpense
<1>5. PICK b : b = [req[r] EXCEPT !.pc = "revert"]
  OBVIOUS
<1>6. req' = [req EXCEPT ![r] = b]
  BY <1>5 DEF Goto, Become
<1>7. /\ b \in Request /\ b.pc = "revert" /\ b.pc \notin {"expense", "commit"} /\ b.entry = a.entry /\ b.row = a.row
      /\ b.before = a.before /\ b.expense = a.expense
  BY <1>1, <1>2, <1>5, EditGoesOn
<1>8. KnowsLoan(b)'
  BY <1>1, <1>2, <1>4, <1>7 DEF KnowsLoan, Edits
<1>9. KnowsExpense(b)'
  BY <1>1, <1>4, <1>7 DEF KnowsExpense, Edits, Linked, ShouldExist
<1> QED
  BY <1>1, <1>2, <1>3, <1>6, <1>7, <1>8, <1>9, EditLeaves

LEMMA SyncExpenseAlone ==
    ASSUME AInv, IInv', NEW r \in Reqs, SyncExpense(r)
    PROVE  AInv'
<1>1. PICK a : a = req[r] /\ a.pc = "sync"
  BY DEF SyncExpense, At
<1>2. req[r].pc \in Edits
  BY <1>1 DEF Edits
<1>3. PICK e \in Entries : a.entry = e /\ e # NoEntry
  BY <1>1, <1>2, Editor
<1>4. entry[e] = a.row /\ KnowsLoan(a) /\ KnowsExpense(a) /\ ShouldExist(a.row) /\ a.expense = NoExpense
  BY <1>1, <1>2, <1>3, Editor DEF KnowsExpense
<1>5. UNCHANGED <<loan, entry, broken, lock>>
  BY DEF SyncExpense
<1>6. CASE Linked(a.row) /\ Finish(r) /\ UNCHANGED expense
  <2>1. PICK b : b = Idle
    OBVIOUS
  <2>2. req' = [req EXCEPT ![r] = b]
    BY <1>6, <2>1 DEF Finish, Become
  <2>3. b \in Request /\ b.pc \notin {"expense", "commit"} /\ b.expense = NoExpense /\ KnowsLoan(b)' /\ KnowsExpense(b)'
    BY <2>1, IdleNext DEF KnowsLoan, KnowsExpense
  <2> QED
    BY <1>1, <1>2, <1>3, <1>4, <1>5, <1>6, <2>2, <2>3, EditStay
<1>7. CASE Goto(r, "revert") /\ UNCHANGED expense
  <2>1. NothingAppears
    BY <1>7 DEF NothingAppears, Made
  <2> QED
    BY <1>1, <1>5, <1>7, <2>1, RevertLater
<1>9. ASSUME NEW y \in Expenses, expense[y] = "none", expense' = [expense EXCEPT ![y] = "lost"], Goto(r, "revert")
      PROVE  AInv'
  <2>1. NothingAppears
    BY <1>9, Typed DEF NothingAppears, Made, TypeOK
  <2> QED
    BY <1>1, <1>5, <1>9, <2>1, RevertLater
<1>8. ASSUME NEW y \in Expenses, ~Linked(a.row), expense[y] = "none", expense' = [expense EXCEPT ![y] = "there"],
             Become(r, [req[r] EXCEPT !.pc = "link", !.expense = y])
      PROVE  AInv'
  <2>1. PICK b : b = [req[r] EXCEPT !.pc = "link", !.expense = y]
    OBVIOUS
  <2>2. req' = [req EXCEPT ![r] = b]
    BY <1>8, <2>1 DEF Become
  <2>3. req[r] \in Request
    BY <1>2, Editor
  <2>4. /\ b \in Request /\ b.pc = "link" /\ b.pc \notin {"expense", "commit"} /\ b.entry = a.entry /\ b.row = a.row
        /\ b.before = a.before /\ b.expense = y
    BY <1>1, <2>1, <2>3 DEF Request
  <2>5. KnowsLoan(b)'
    BY <1>1, <1>2, <1>4, <1>5, <2>4 DEF KnowsLoan, Edits
  <2>6. /\ b.row.status \in Status /\ b.before.status \in Status /\ b.row.expense = b.before.expense
        /\ b.entry \notin broken' => (ShouldExist(b.before) <=> Linked(b.before))
    BY <1>1, <1>2, <1>4, <1>5, <2>4 DEF KnowsExpense
  <2>7. KnowsExpense(b)'
    BY <1>3, <1>4, <1>5, <1>8, <2>4, <2>6 DEF KnowsExpense, Edits, Linked, ShouldExist
  <2>8. PICK row \in Row : row = entry[e] /\ row.status # "none" /\ row = a.row
    BY <1>1, <1>2, <1>3, <1>4, Editor
  <2>9. entry' = [entry EXCEPT ![e] = row]
    BY <1>5, <2>8, Typed DEF TypeOK
  <2>10. expense'[y] = "there" /\ \A x \in Expenses \ {y} : expense'[x] = expense[x]
    BY <1>8, Typed DEF TypeOK
  <2>11. \A f \in Entries : entry[f].expense # y
    BY <1>8, InEntries DEF Made
  <2>12. OnlyInHands(b, e, row)
    BY <2>4, <2>8, <2>10, <2>11 DEF OnlyInHands
  <2>13. NothingDropped(r, b, e, row)
    BY <1>1, <1>4, <2>4, <2>8, <2>10, ConstantsAssumption DEF NothingDropped
  <2>14. b.entry = e
    BY <1>3, <2>4
  <2>15. \A f \in Entries \ {e} : f \in broken => f \in broken'
    BY <1>5
  <2>16. row.loan = entry[e].loan /\ row.taken = entry[e].taken
    BY <2>8
  <2> QED
    BY <1>1, <1>2, <1>3, <1>5, <2>2, <2>4, <2>5, <2>7, <2>8, <2>9, <2>12, <2>13, <2>14, <2>15, <2>16, EditStep
<1> QED
  BY <1>1, <1>6, <1>7, <1>8, <1>9 DEF SyncExpense

LEMMA LinkExpenseAlone ==
    ASSUME AInv, IInv', NEW r \in Reqs, LinkExpense(r)
    PROVE  AInv'
<1>1. PICK a : a = req[r] /\ a.pc = "link"
  BY DEF LinkExpense, At
<1>2. req[r].pc \in Edits
  BY <1>1 DEF Edits
<1>3. PICK e \in Entries : a.entry = e /\ e # NoEntry
  BY <1>1, <1>2, Editor
<1>4. PICK old \in Row : old = entry[e] /\ old = a.row /\ ShouldExist(old) /\ ~Linked(old) /\ old.status \in Status
  BY <1>1, <1>2, <1>3, Editor DEF KnowsExpense
<1>5. UNCHANGED <<loan, expense, broken, lock>>
  BY DEF LinkExpense
<1>6. CASE Goto(r, "revert") /\ UNCHANGED entry
  <2>1. NothingAppears
    BY <1>5 DEF NothingAppears, Made
  <2> QED
    BY <1>1, <1>5, <1>6, <2>1, RevertLater
<1>7. CASE /\ entry' = IF Exists(e) THEN [entry EXCEPT ![e].expense = a.expense] ELSE entry
           /\ There(a.expense) /\ Finish(r)
  <2>1. PICK x \in Expenses \cup {NoExpense} : x = a.expense
    BY <1>1, <1>2, Editor
  <2>2. x \in Expenses
    <3>1. PICK own : J(own)
      BY DEF AInv, IInv
    <3> QED
      BY <1>1, <2>1, <3>1 DEF J, Knows
  <2>3. PICK row : row = [old EXCEPT !.expense = x]
    OBVIOUS
  <2>4. /\ row \in Row /\ row.expense = x /\ row.loan = old.loan /\ row.taken = old.taken /\ row.status = old.status
        /\ row.key = old.key
    BY <2>2, <2>3 DEF Row
  <2>5. entry' = [entry EXCEPT ![e] = row]
    BY <1>4, <1>7, <2>1, <2>3 DEF Exists
  <2>6. PICK b : b = Idle
    OBVIOUS
  <2>7. req' = [req EXCEPT ![r] = b]
    BY <1>7, <2>6 DEF Finish, Become
  <2>8. b \in Request /\ b.pc \notin {"expense", "commit"} /\ b.expense = NoExpense /\ KnowsLoan(b)' /\ KnowsExpense(b)'
    BY <2>6, IdleNext DEF KnowsLoan, KnowsExpense
  <2>9. OnlyInHands(b, e, row)
    BY <2>8, ConstantsAssumption DEF OnlyInHands
  <2>10. NothingDropped(r, b, e, row)
    BY <1>1, <1>4, <1>5, <2>1, <2>4 DEF NothingDropped, Linked
  <2>11. ShouldExist(row) /\ Linked(row)
    BY <1>4, <2>2, <2>4 DEF ShouldExist, Linked
  <2>12. row.status # "none" /\ row.loan = entry[e].loan /\ row.taken = entry[e].taken
    BY <1>4, <2>4 DEF Status
  <2>13. \A f \in Entries \ {e} : f \in broken => f \in broken'
    BY <1>5
  <2> QED
    BY <1>1, <1>2, <1>3, <1>5, <2>4, <2>5, <2>7, <2>8, <2>9, <2>10, <2>11, <2>12, <2>13, EditStep
<1> QED
  BY <1>1, <1>3, <1>6, <1>7 DEF LinkExpense

LEMMA UpdateRevertAlone ==
    ASSUME AInv, IInv', NEW r \in Reqs, UpdateRevert(r)
    PROVE  AInv'
<1>1. PICK a : a = req[r] /\ a.pc = "revert"
  BY DEF UpdateRevert, At
<1>2. req[r].pc \in Edits
  BY <1>1 DEF Edits
<1>3. PICK e \in Entries : a.entry = e /\ e # NoEntry
  BY <1>1, <1>2, Editor
<1>4. PICK row \in Row, x \in Expenses \cup {NoExpense} :
         /\ row = a.before /\ x = a.expense /\ entry[e] = a.row /\ row.expense = entry[e].expense /\ row.status \in Status
         /\ row.loan = entry[e].loan /\ row.taken = entry[e].taken
         /\ e \notin broken => (ShouldExist(row) <=> Linked(row))
  BY <1>1, <1>2, <1>3, Editor DEF KnowsExpense, KnowsLoan
<1>5. PICK b : b = IF x = NoExpense THEN Idle ELSE [Idle EXCEPT !.pc = "discard", !.expense = x]
  OBVIOUS
<1>6. req' = [req EXCEPT ![r] = b] /\ UNCHANGED <<loan, expense, lock>>
  BY <1>1, <1>4, <1>5 DEF UpdateRevert, Finish, Become
<1>7. b \in Request /\ b.pc \notin {"expense", "commit"} /\ b.expense = x /\ KnowsLoan(b)' /\ KnowsExpense(b)'
  <2>1. CASE x = NoExpense
    BY <1>5, <2>1, IdleNext DEF KnowsLoan, KnowsExpense
  <2>2. CASE x # NoExpense
    BY <1>5, <2>2, DiscardNext
  <2> QED
    BY <2>1, <2>2
<1>8. CASE entry' = [entry EXCEPT ![e] = row] /\ UNCHANGED broken
  <2>1. OnlyInHands(b, e, row)
    <3> SUFFICES ASSUME NEW z \in Expenses, b.expense = z
                 PROVE  expense'[z] # "none" /\ row.expense # z /\ \A f \in Entries \ {e} : entry[f].expense # z
      BY DEF OnlyInHands
    <3>1. Made(z) /\ \A f \in Entries : entry[f].expense # z
      BY <1>1, <1>4, <1>7, InEntries
    <3> QED
      BY <1>4, <1>6, <3>1 DEF Made
  <2>2. NothingDropped(r, b, e, row)
    BY <1>1, <1>4, <1>6, <1>7 DEF NothingDropped
  <2>3. \A f \in Entries \ {e} : f \in broken => f \in broken'
    BY <1>8
  <2>4. row.status # "none"
    BY <1>4 DEF Status
  <2> QED
    BY <1>1, <1>2, <1>3, <1>4, <1>6, <1>7, <1>8, <2>1, <2>2, <2>3, <2>4, EditStep
<1>9. CASE broken' = broken \cup {e} /\ UNCHANGED entry
  <2>1. UNCHANGED <<loan, entry, expense>> /\ broken \subseteq broken' /\ e \in broken'
    BY <1>6, <1>9
  <2> QED
    BY <1>1, <1>2, <1>3, <1>4, <1>6, <1>7, <2>1, EditStay
<1> QED
  BY <1>1, <1>3, <1>4, <1>8, <1>9 DEF UpdateRevert

LEMMA DetachExpenseAlone ==
    ASSUME AInv, IInv', NEW r \in Reqs, DetachExpense(r)
    PROVE  AInv'
<1>1. PICK a : a = req[r] /\ a.pc = "detach"
  BY DEF DetachExpense, At
<1>2. req[r].pc \in Edits
  BY <1>1 DEF Edits
<1>3. PICK e \in Entries : a.entry = e /\ e # NoEntry
  BY <1>1, <1>2, Editor
<1>4. PICK old \in Row, x \in Expenses :
        old = entry[e] /\ old = a.row /\ x = old.expense /\ ~ShouldExist(old) /\ old.status \in Status /\ a.expense = NoExpense
  BY <1>1, <1>2, <1>3, Editor DEF KnowsExpense, Linked
<1>5. UNCHANGED <<loan, expense, broken, lock>>
  BY DEF DetachExpense
<1>6. CASE Goto(r, "revert") /\ UNCHANGED entry
  <2>1. NothingAppears
    BY <1>5 DEF NothingAppears, Made
  <2> QED
    BY <1>1, <1>5, <1>6, <2>1, RevertLater
<1>7. CASE /\ entry' = IF Exists(e) THEN [entry EXCEPT ![e].expense = NoExpense] ELSE entry
           /\ Become(r, [Idle EXCEPT !.pc = "discard", !.expense = x])
  <2>1. PICK row : row = [old EXCEPT !.expense = NoExpense]
    OBVIOUS
  <2>2. /\ row \in Row /\ row.expense = NoExpense /\ row.loan = old.loan /\ row.taken = old.taken /\ row.status = old.status
        /\ row.key = old.key
    BY <2>1 DEF Row
  <2>3. entry' = [entry EXCEPT ![e] = row]
    BY <1>4, <1>7, <2>1 DEF Exists
  <2>4. PICK b : b = [Idle EXCEPT !.pc = "discard", !.expense = x]
    OBVIOUS
  <2>5. req' = [req EXCEPT ![r] = b]
    BY <1>7, <2>4 DEF Become
  <2>6. b \in Request /\ b.pc \notin {"expense", "commit"} /\ b.expense = x /\ KnowsLoan(b)' /\ KnowsExpense(b)'
    BY <2>4, DiscardNext
  <2>7. Made(x) /\ \A f \in Entries \ {e} : entry[f].expense # x
    BY <1>4, InEntries
  <2>8. OnlyInHands(b, e, row)
    BY <1>5, <2>2, <2>6, <2>7, ConstantsAssumption DEF OnlyInHands, Made
  <2>9. NothingDropped(r, b, e, row)
    BY <1>1, <1>4, <1>5, <2>6, ConstantsAssumption DEF NothingDropped
  <2>10. ~ShouldExist(row) /\ ~Linked(row)
    BY <1>4, <2>2, ConstantsAssumption DEF ShouldExist, Linked
  <2>11. row.status # "none" /\ row.loan = entry[e].loan /\ row.taken = entry[e].taken
    BY <1>4, <2>2 DEF Status
  <2>12. \A f \in Entries \ {e} : f \in broken => f \in broken'
    BY <1>5
  <2> QED
    BY <1>1, <1>2, <1>3, <1>5, <2>2, <2>3, <2>5, <2>6, <2>8, <2>9, <2>10, <2>11, <2>12, EditStep
<1> QED
  BY <1>1, <1>3, <1>4, <1>6, <1>7 DEF DetachExpense

(***************************************************************************)
(* The start of an edition and the edition of a loan: nothing else runs.   *)
(***************************************************************************)
LEMMA QuietStep ==
    ASSUME AInv, IInv', NEW r \in Reqs, \A s \in Reqs \ {r} : req[s].pc = "idle",
           req[r].entry = NoEntry, req[r].expense = NoExpense,
           NEW b \in Request, req' = [req EXCEPT ![r] = b], b.pc \notin {"expense", "commit"}, b.expense = NoExpense,
           KnowsLoan(b)', KnowsExpense(b)', UNCHANGED <<entry, expense, broken>>,
           \A l \in Loans : /\ loan'[l].balance = loan[l].balance /\ loan'[l].amount = loan[l].amount
                            /\ loan[l].status # "none" => loan'[l].status # "none"
    PROVE  AInv'
<1>0. TypeOK /\ NoExpense \notin Expenses /\ NoEntry \notin Entries
  BY Typed, ConstantsAssumption
<1>1. req'[r] = b /\ \A s \in Reqs \ {r} : req'[s] = req[s]
  BY <1>0, OneChanges
<1>2. \A s \in Reqs \ {r} : req[s].pc = "idle" /\ req[s].entry = NoEntry /\ req[s].expense = NoExpense
  BY IdleHasNothing
<1>3. \A s \in Reqs : req[s].entry = NoEntry /\ req[s].expense = NoExpense /\ req'[s].expense = NoExpense
  BY <1>1, <1>2
<1>4. Alone' /\ LockHeld'
  BY <1>1, <1>2 DEF Alone, LockHeld, Busy, Edits
<1>5. FreeRows' /\ LoanRows'
  <2>1. FreeRows /\ LoanRows
    BY DEF AInv
  <2>2. FreeRows'
    BY <2>1 DEF FreeRows
  <2>3. \A e \in Entries : entry[e].loan # NoLoan => entry[e].loan \in Loans
    BY <1>0 DEF TypeOK, Row
  <2>4. LoanRows'
    BY <2>1, <2>3 DEF LoanRows
  <2> QED
    BY <2>2, <2>4
<1>6. Held'
  BY <1>0, <1>3 DEF Held
<1>7. \A s \in Reqs : KnowsLoan(req[s])' /\ KnowsExpense(req[s])'
  <2> SUFFICES ASSUME NEW s \in Reqs PROVE KnowsLoan(req[s])' /\ KnowsExpense(req[s])'
    OBVIOUS
  <2>1. CASE s = r
    BY <1>1, <2>1 DEF KnowsLoan, KnowsExpense
  <2>2. CASE s # r
    <3>1. PICK a : a = req'[s]
      OBVIOUS
    <3>2. a.pc = "idle" /\ a.entry = NoEntry /\ a.expense = NoExpense
      BY <1>1, <1>2, <2>2, <3>1
    <3>3. KnowsLoan(a)' /\ KnowsExpense(a)'
      BY <3>2, IdleKnowsAll
    <3> QED
      BY <3>1, <3>3 DEF KnowsLoan, KnowsExpense
  <2> QED
    BY <2>1, <2>2
<1>8. LoanConserved'
  <2>1. LoanConserved
    BY DEF AInv
  <2> QED
    BY <2>1 DEF LoanConserved
<1>9. PaidHasExpense'
  <2>1. \A f \in Entries : \A q \in Reqs : req[q].entry # f
    BY <1>0, <1>3
  <2>2. \A f \in Entries : Exists(f) /\ f \notin broken => (ShouldExist(entry[f]) <=> Linked(entry[f]))
    BY <2>1 DEF AInv, PaidHasExpense
  <2> QED
    BY <2>2 DEF PaidHasExpense, Exists, ShouldExist, Linked
<1>10. NoOrphan'
  <2>1. \A x \in Expenses : \A q \in Reqs : req[q].expense # x
    BY <1>0, <1>3
  <2>2. \A x \in Expenses : expense[x] = "there" => \E e \in Entries : entry[e].expense = x
    BY <2>1 DEF AInv, NoOrphan
  <2> QED
    BY <2>2 DEF NoOrphan
<1> QED
  BY <1>4, <1>5, <1>6, <1>7, <1>8, <1>9, <1>10 DEF AInv

LEMMA UpdateReadAlone ==
    ASSUME ~Overlap, AInv, IInv', NEW r \in Reqs, NEW e \in Entries, UpdateRead(r, e)
    PROVE  AInv'
<1>1. \A s \in Reqs : req[s].pc = "idle"
  BY DEF UpdateRead, BeginEdit, At
<1>2. \A s \in Reqs : req[s].entry = NoEntry /\ req[s].expense = NoExpense
  BY <1>1, IdleHasNothing
<1>3. TypeOK /\ NoEntry \notin Entries
  BY Typed, ConstantsAssumption
<1>4. PICK old \in Row : old = entry[e] /\ old.status \in Status
  BY <1>3 DEF UpdateRead, Exists, TypeOK
<1>5. PICK status \in Status, key \in Keys :
        Become(r, [Idle EXCEPT !.pc = IF key = entry[e].key THEN "save" ELSE "check", !.entry = e,
                               !.row = [entry[e] EXCEPT !.status = status, !.key = key],
                               !.before = entry[e]])
  BY DEF UpdateRead
<1>6. PICK row : row = [old EXCEPT !.status = status, !.key = key]
  OBVIOUS
<1>7. row \in Row /\ row.expense = old.expense /\ row.loan = old.loan /\ row.taken = old.taken /\ row.status \in Status
  BY <1>6 DEF Row
<1>8. PICK pc \in {"save", "check"} : pc = IF key = entry[e].key THEN "save" ELSE "check"
  OBVIOUS
<1>9. PICK b : b = [Idle EXCEPT !.pc = pc, !.entry = e, !.row = row, !.before = old]
  OBVIOUS
<1>10. req' = [req EXCEPT ![r] = b]
  BY <1>4, <1>5, <1>6, <1>8, <1>9 DEF Become
<1>11. b \in Request /\ b.pc = pc /\ b.entry = e /\ b.row = row /\ b.before = old /\ b.expense = NoExpense
  BY <1>7, <1>9, IdleTyped DEF Request
<1>12. UNCHANGED <<loan, entry, expense, broken>>
  BY DEF UpdateRead
<1>13. KnowsLoan(b)'
  BY <1>4, <1>7, <1>11, <1>12 DEF KnowsLoan, Edits
<1>14. e \notin broken => (ShouldExist(old) <=> Linked(old))
  BY <1>2, <1>3, <1>4 DEF AInv, PaidHasExpense, Exists
<1>15. KnowsExpense(b)'
  BY <1>4, <1>7, <1>11, <1>12, <1>14 DEF KnowsExpense, Edits, ShouldExist, Linked
<1>16. b.pc \notin {"expense", "commit"}
  BY <1>11
<1>17. \A l \in Loans : /\ loan'[l].balance = loan[l].balance /\ loan'[l].amount = loan[l].amount
                        /\ loan[l].status # "none" => loan'[l].status # "none"
  BY <1>12
<1> QED
  BY <1>1, <1>2, <1>10, <1>11, <1>12, <1>13, <1>15, <1>16, <1>17, QuietStep

LEMMA LoanReadAlone ==
    ASSUME ~Overlap, AInv, IInv', NEW r \in Reqs, NEW l \in Loans, LoanRead(r, l)
    PROVE  AInv'
<1>1. \A s \in Reqs : req[s].pc = "idle"
  BY DEF LoanRead, BeginEdit, At
<1>2. \A s \in Reqs : req[s].entry = NoEntry /\ req[s].expense = NoExpense
  BY <1>1, IdleHasNothing
<1>3. PICK old \in Loan : old = loan[l]
  BY Typed DEF TypeOK
<1>4. PICK status \in LoanStatus, installment \in 1..MaxAmount :
        Become(r, [Idle EXCEPT !.pc = "loan_save", !.loan = l,
                               !.saved = [loan[l] EXCEPT !.status = status, !.installment = installment]])
  BY DEF LoanRead
<1>5. PICK saved : saved = [old EXCEPT !.status = status, !.installment = installment]
  OBVIOUS
<1>6. saved \in Loan /\ saved.status \in LoanStatus /\ saved.balance = old.balance /\ saved.amount = old.amount
  <2>1. installment \in Nat
    BY ConstantsAssumption
  <2> QED
    BY <1>5, <2>1 DEF Loan
<1>7. PICK b : b = [Idle EXCEPT !.pc = "loan_save", !.loan = l, !.saved = saved]
  OBVIOUS
<1>8. req' = [req EXCEPT ![r] = b] /\ UNCHANGED <<loan, entry, expense, broken>>
  BY <1>3, <1>4, <1>5, <1>7 DEF Become, LoanRead
<1>9. b \in Request /\ b.pc = "loan_save" /\ b.loan = l /\ b.saved = saved /\ b.entry = NoEntry /\ b.expense = NoExpense
  BY <1>6, <1>7, IdleTyped DEF Request
<1>10. KnowsLoan(b)'
  BY <1>3, <1>6, <1>8, <1>9 DEF KnowsLoan, Edits
<1>11. KnowsExpense(b)'
  BY <1>9 DEF KnowsExpense, Edits
<1>12. b.pc \notin {"expense", "commit"}
  BY <1>9
<1>13. \A m \in Loans : /\ loan'[m].balance = loan[m].balance /\ loan'[m].amount = loan[m].amount
                        /\ loan[m].status # "none" => loan'[m].status # "none"
  BY <1>8
<1> QED
  BY <1>1, <1>2, <1>8, <1>9, <1>10, <1>11, <1>12, <1>13, QuietStep

\* What is saved is what was read, but for the status and the instalment.
LEMMA LoanSaveAlone ==
    ASSUME AInv, IInv', NEW r \in Reqs, LoanSave(r)
    PROVE  AInv'
<1>1. PICK a : a = req[r] /\ a.pc = "loan_save"
  BY DEF LoanSave, At
<1>2. \A s \in Reqs \ {r} : req[s].pc = "idle"
  BY <1>1, OthersIdle DEF Busy
<1>3. TypeOK /\ a \in Request /\ a.saved \in Loan /\ KnowsLoan(a) /\ KnowsExpense(a)
  BY <1>1, Typed DEF Request
<1>4. a.entry = NoEntry /\ a.expense = NoExpense
  BY <1>1, <1>3 DEF KnowsExpense, Edits
<1>5. PICK l \in Loans, saved \in Loan :
        /\ l = a.loan /\ saved = a.saved /\ saved.status \in LoanStatus
        /\ saved.balance = loan[l].balance /\ saved.amount = loan[l].amount
  BY <1>1, <1>3 DEF KnowsLoan
<1>6. loan' = [loan EXCEPT ![l] = saved] /\ UNCHANGED <<entry, expense, broken>>
  BY <1>1, <1>5 DEF LoanSave
<1>7. PICK b : b = Idle
  OBVIOUS
<1>8. req' = [req EXCEPT ![r] = b]
  BY <1>7 DEF LoanSave, Finish, Become
<1>9. b \in Request /\ b.pc \notin {"expense", "commit"} /\ b.expense = NoExpense /\ KnowsLoan(b)' /\ KnowsExpense(b)'
  BY <1>7, IdleNext DEF KnowsLoan, KnowsExpense
<1>10. \A m \in Loans : /\ loan'[m].balance = loan[m].balance /\ loan'[m].amount = loan[m].amount
                        /\ loan[m].status # "none" => loan'[m].status # "none"
  BY <1>3, <1>5, <1>6 DEF TypeOK, LoanStatus
<1> QED
  BY <1>1, <1>2, <1>4, <1>6, <1>8, <1>9, <1>10, QuietStep

(***************************************************************************)
(* The steps that may run together: no edition is at work.                 *)
(***************************************************************************)
\* No payment is half changed.
RowsPaid == \A e \in Entries : Exists(e) /\ e \notin broken => (ShouldExist(entry[e]) <=> Linked(entry[e]))

LEMMA NothingHalfChanged ==
    ASSUME AInv, \A s \in Reqs : req[s].pc \notin Busy
    PROVE  RowsPaid /\ \A s \in Reqs : req[s].entry = NoEntry
<1>1. \A s \in Reqs : req[s].entry = NoEntry
  BY Typed DEF KnowsExpense, Busy
<1>2. \A e \in Entries : \A s \in Reqs : req[s].entry # e
  BY <1>1, ConstantsAssumption
<1> QED
  BY <1>1, <1>2 DEF AInv, PaidHasExpense, RowsPaid

LEMMA FreeStep ==
    ASSUME IInv', \A s \in Reqs : req'[s].pc \notin Busy /\ KnowsLoan(req[s])' /\ KnowsExpense(req[s])',
           LockHeld', LoanRows', FreeRows', Held', LoanConserved', NoOrphan', RowsPaid'
    PROVE  AInv'
<1>1. Alone'
  BY DEF Alone
<1>2. PaidHasExpense'
  BY DEF PaidHasExpense, RowsPaid
<1> QED
  BY <1>1, <1>2 DEF AInv

\* The requests, when one of them takes a step.
LEMMA FreeRequests ==
    ASSUME AInv, NEW r \in Reqs, \A s \in Reqs : req[s].pc \notin Busy,
           NEW b, req' = [req EXCEPT ![r] = b], b.pc \notin Busy, KnowsLoan(b)', KnowsExpense(b)',
           \/ UNCHANGED loan
           \/ \A s \in Reqs \ {r} : req[s].pc \notin {"expense", "commit"}
    PROVE  \A s \in Reqs : req'[s].pc \notin Busy /\ KnowsLoan(req[s])' /\ KnowsExpense(req[s])'
<1>1. req'[r] = b /\ \A s \in Reqs \ {r} : req'[s] = req[s]
  BY Typed, OneChanges
<1> SUFFICES ASSUME NEW s \in Reqs
             PROVE  req'[s].pc \notin Busy /\ KnowsLoan(req[s])' /\ KnowsExpense(req[s])'
  OBVIOUS
<1>2. CASE s = r
  BY <1>1, <1>2 DEF KnowsLoan, KnowsExpense
<1>3. CASE s # r
  <2>1. PICK a : a = req[s]
    OBVIOUS
  <2>2. req'[s] = a /\ a.pc \notin Busy /\ KnowsLoan(a) /\ KnowsExpense(a)
    BY <1>1, <1>3, <2>1, Typed
  <2>3. a.pc \notin Edits /\ a.pc # "loan_save"
    BY <2>2 DEF Busy
  <2>4. KnowsExpense(a)'
    BY <2>2, <2>3, FreeKnows
  <2>5. KnowsLoan(a)'
    BY <1>3, <2>1, <2>2, <2>3 DEF KnowsLoan
  <2> QED
    BY <2>2, <2>4, <2>5 DEF KnowsLoan, KnowsExpense
<1> QED
  BY <1>2, <1>3

\* The lock: at most one transaction.
LEMMA OneTransaction ==
    ASSUME AInv, NEW r \in Reqs, req[r].pc \in {"expense", "commit"} \/ lock = NoReq
    PROVE  \A s \in Reqs \ {r} : req[s].pc \notin {"expense", "commit"}
BY ConstantsAssumption DEF AInv, LockHeld

LEMMA LockKept ==
    ASSUME AInv, NEW r \in Reqs, NEW b, req' = [req EXCEPT ![r] = b],
           \A s \in Reqs \ {r} : req[s].pc \notin {"expense", "commit"},
           b.pc \in {"expense", "commit"} => lock' = r
    PROVE  LockHeld'
BY Typed, OneChanges DEF LockHeld

\* What the requests have in their hands, when one of them takes a step.
NothingUnmade == \A x \in Expenses : Made(x) => expense'[x] # "none"
OnlyOwnLinked(r) == \A e \in Entries : entry'[e].expense \in {entry[e].expense, NoExpense, req[r].expense}
OnlyInHandsOf(r, b) ==
    \A x \in Expenses : b.expense = x =>
        expense'[x] # "none" /\ (\A e \in Entries : entry'[e].expense # x) /\ \A s \in Reqs \ {r} : req[s].expense # x

LEMMA HeldKept ==
    ASSUME AInv, NEW r \in Reqs, NEW b, req' = [req EXCEPT ![r] = b],
           NothingUnmade, OnlyOwnLinked(r), OnlyInHandsOf(r, b)
    PROVE  Held'
<1>1. req'[r] = b /\ \A s \in Reqs \ {r} : req'[s] = req[s]
  BY Typed, OneChanges
<1> SUFFICES ASSUME NEW q \in Reqs, NEW x \in Expenses, req'[q].expense = x
             PROVE  /\ expense'[x] # "none"
                    /\ \A e \in Entries : entry'[e].expense # x
                    /\ \A s \in Reqs : req'[s].expense = x => s = q
  BY DEF Held, Made
<1>2. CASE q = r
  <2>1. b.expense = x
    BY <1>1, <1>2
  <2>2. expense'[x] # "none" /\ (\A e \in Entries : entry'[e].expense # x) /\ \A s \in Reqs \ {r} : req[s].expense # x
    BY <2>1 DEF OnlyInHandsOf
  <2> QED
    BY <1>1, <1>2, <2>2
<1>3. CASE q # r
  <2>1. req[q].expense = x
    BY <1>1, <1>3
  <2>2. Made(x) /\ (\A e \in Entries : entry[e].expense # x) /\ \A s \in Reqs : req[s].expense = x => s = q
    BY <2>1 DEF AInv, Held
  <2>3. b.expense # x
    BY <1>3, <2>1 DEF OnlyInHandsOf
  <2>4. \A e \in Entries : entry'[e].expense # x
    BY <1>3, <2>2, ConstantsAssumption DEF OnlyOwnLinked
  <2> QED
    BY <1>1, <2>2, <2>3, <2>4 DEF NothingUnmade
<1> QED
  BY <1>2, <1>3

\* Nothing changes in the loans nor in the payments.
LEMMA SameTables ==
    ASSUME AInv, \A s \in Reqs : req[s].pc \notin Busy, UNCHANGED <<loan, entry, broken>>
    PROVE  LoanRows' /\ FreeRows' /\ LoanConserved' /\ RowsPaid'
<1>1. LoanRows /\ FreeRows /\ LoanConserved /\ RowsPaid
  BY NothingHalfChanged DEF AInv
<1>2. LoanRows' /\ FreeRows' /\ LoanConserved'
  BY <1>1 DEF LoanRows, FreeRows, LoanConserved
<1>3. RowsPaid'
  BY <1>1 DEF RowsPaid, Exists, ShouldExist, Linked
<1> QED
  BY <1>2, <1>3

\* An expense stays where it was, or the request has it in its hands.
NothingLetGo(r, b) ==
    \A x \in Expenses : expense'[x] = "there" => b.expense = x \/ (expense[x] = "there" /\ req[r].expense # x)

LEMMA OrphansKept ==
    ASSUME AInv, NEW r \in Reqs, NEW b, req' = [req EXCEPT ![r] = b], UNCHANGED entry,
           NothingLetGo(r, b)
    PROVE  NoOrphan'
<1>1. req'[r] = b /\ \A s \in Reqs \ {r} : req'[s] = req[s]
  BY Typed, OneChanges
<1> SUFFICES ASSUME NEW x \in Expenses, expense'[x] = "there"
             PROVE  (\E e \in Entries : entry'[e].expense = x) \/ (\E q \in Reqs : req'[q].expense = x)
  BY DEF NoOrphan
<1>2. CASE b.expense = x
  BY <1>1, <1>2
<1>3. CASE expense[x] = "there" /\ req[r].expense # x
  <2>1. (\E e \in Entries : entry[e].expense = x) \/ (\E q \in Reqs : req[q].expense = x)
    BY <1>3 DEF AInv, NoOrphan
  <2> QED
    BY <1>1, <1>3, <2>1
<1>4. b.expense = x \/ (expense[x] = "there" /\ req[r].expense # x)
  BY DEF NothingLetGo
<1> QED
  BY <1>2, <1>3, <1>4

(***************************************************************************)
(* create.                                                                 *)
(***************************************************************************)
\* The instalment of the first active loan fits in its balance.
LEMMA NewEntryFits ==
    ASSUME TypeOK, NEW status \in Status, NEW key \in Keys
    PROVE  LET row == NewEntry(status, key)
           IN  /\ row \in Row /\ row.status = status /\ row.key = key /\ row.expense = NoExpense
               /\ row.loan # NoLoan => loan[row.loan].status # "none" /\ row.taken <= loan[row.loan].balance
<1>1. PICK row \in Row : row = NewEntry(status, key)
  BY NewEntryTyped
<1>2. PICK l : l = FirstActive
  OBVIOUS
<1>3. PICK taken : taken = Installment(l)
  OBVIOUS
<1>4. row = [status |-> status, key |-> key, loan |-> l, taken |-> taken, expense |-> NoExpense]
  BY <1>1, <1>2, <1>3 DEF NewEntry
<1>5. row.status = status /\ row.key = key /\ row.expense = NoExpense /\ row.loan = l /\ row.taken = taken
  BY <1>4
<1>6. ASSUME l # NoLoan
      PROVE  loan[l].status # "none" /\ taken <= loan[l].balance
  <2>1. Active \in SUBSET Nat /\ Active \subseteq Loans
    BY ConstantsAssumption DEF Active
  <2>2. l \in Active
    BY <1>2, <1>6, <2>1, MinOfNat DEF FirstActive
  <2>3. loan[l].balance \in Nat /\ loan[l].installment \in Nat
    BY <2>1, <2>2 DEF TypeOK, Loan
  <2>4. PICK S \in SUBSET Nat : S = {loan[l].balance, loan[l].installment}
    BY <2>3
  <2>5. loan[l].balance \in S
    BY <2>4
  <2>6. Min(S) <= loan[l].balance
    BY <2>4, <2>5, MinOfNat
  <2> QED
    BY <1>3, <1>6, <2>2, <2>4, <2>6 DEF Active, Installment
<1> QED
  BY <1>1, <1>5, <1>6

LEMMA CreateLockAlone ==
    ASSUME ~Overlap, AInv, IInv', NEW r \in Reqs, CreateLock(r)
    PROVE  AInv'
<1>1. TypeOK
  BY Typed
<1>2. Begin(r) /\ req[r].pc = "idle" /\ lock = NoReq /\ lock' = r /\ UNCHANGED <<loan, entry, expense, broken>>
  BY DEF CreateLock, Begin, At
<1>3. \A s \in Reqs : req[s].pc \notin Busy
  BY <1>2, NotEditing
<1>4. PICK status \in Status, key \in Keys :
        Become(r, [Idle EXCEPT !.pc = IF ShouldExist(NewEntry(status, key)) THEN "expense" ELSE "commit",
                               !.row = NewEntry(status, key)])
  BY DEF CreateLock
<1>5. PICK row \in Row :
        /\ row = NewEntry(status, key) /\ row.status = status /\ row.expense = NoExpense
        /\ row.loan # NoLoan => loan[row.loan].status # "none" /\ row.taken <= loan[row.loan].balance
  BY <1>1, NewEntryFits
<1>6. PICK pc \in {"expense", "commit"} :
        /\ pc = IF ShouldExist(row) THEN "expense" ELSE "commit"
        /\ pc = "expense" <=> ShouldExist(row)
  <2>1. CASE ShouldExist(row)
    BY <2>1
  <2>2. CASE ~ShouldExist(row)
    BY <2>2
  <2> QED
    BY <2>1, <2>2
<1>7. PICK b : b = [Idle EXCEPT !.pc = pc, !.row = row]
  OBVIOUS
<1>8. req' = [req EXCEPT ![r] = b]
  BY <1>4, <1>5, <1>6, <1>7 DEF Become
<1>9. b.pc = pc /\ b.row = row /\ b.entry = NoEntry /\ b.expense = NoExpense
  BY <1>7, IdleTyped DEF Request
<1>10. KnowsLoan(b)'
  BY <1>2, <1>5, <1>6, <1>9 DEF KnowsLoan, Edits
<1>11. KnowsExpense(b)'
  <2>1. ~Linked(row) /\ row.status # "none"
    BY <1>5, ConstantsAssumption DEF Linked, Status
  <2> QED
    BY <1>5, <1>6, <1>9, <2>1 DEF KnowsExpense, Edits, Linked, ShouldExist
<1>12. b.pc \notin Busy
  BY <1>6, <1>9 DEF Busy, Edits
<1>13. \A s \in Reqs : req'[s].pc \notin Busy /\ KnowsLoan(req[s])' /\ KnowsExpense(req[s])'
  BY <1>2, <1>3, <1>8, <1>10, <1>11, <1>12, FreeRequests
<1>14. LockHeld'
  BY <1>2, <1>8, OneTransaction, LockKept
<1>15. req[r].expense = NoExpense
  BY <1>2, IdleHasNothing
<1>16. Held'
  <2>1. NothingUnmade
    BY <1>2 DEF Made, NothingUnmade
  <2>2. OnlyOwnLinked(r)
    BY <1>2 DEF OnlyOwnLinked
  <2>3. OnlyInHandsOf(r, b)
    BY <1>9, ConstantsAssumption DEF OnlyInHandsOf
  <2> QED
    BY <1>8, <2>1, <2>2, <2>3, HeldKept
<1>17. NoOrphan'
  <2>1. NothingLetGo(r, b)
    BY <1>2, <1>15, ConstantsAssumption DEF NothingLetGo
  <2> QED
    BY <1>2, <1>8, <2>1, OrphansKept
<1>18. LoanRows' /\ FreeRows' /\ LoanConserved' /\ RowsPaid'
  BY <1>2, <1>3, SameTables
<1> QED
  BY <1>13, <1>14, <1>16, <1>17, <1>18, FreeStep

\* A transaction and the requests beside it.
LEMMA InTransaction ==
    ASSUME AInv, NEW r \in Reqs, req[r].pc \in {"expense", "commit", "discard"}
    PROVE  /\ \A s \in Reqs : req[s].pc \notin Busy
           /\ req[r] \in Request /\ req[r].row \in Row /\ KnowsLoan(req[r]) /\ KnowsExpense(req[r]) /\ TypeOK
           /\ req[r].expense \in Expenses \cup {NoExpense} /\ req[r].entry = NoEntry
           /\ req[r].pc = "expense" => req[r].expense = NoExpense
<1>1. \A s \in Reqs : req[s].pc \notin Busy
  BY NobodyBusy DEF Busy, Edits
<1>2. PICK a \in Request : a = req[r] /\ KnowsLoan(a) /\ KnowsExpense(a) /\ TypeOK
  BY Typed
<1>3. a.row \in Row /\ a.expense \in Expenses \cup {NoExpense}
  BY DEF Request
<1>4. a.entry = NoEntry
  BY <1>2 DEF KnowsExpense, Edits
<1>5. a.pc = "expense" => a.expense = NoExpense
  BY <1>2 DEF KnowsExpense
<1> QED
  BY <1>1, <1>2, <1>3, <1>4, <1>5

LEMMA ExpenseForCommitAlone ==
    ASSUME AInv, IInv', NEW r \in Reqs, NEW x \in Expenses, At(r, "expense"), expense[x] = "none",
           expense' = [expense EXCEPT ![x] = "there"],
           Become(r, [req[r] EXCEPT !.pc = "commit", !.expense = x, !.row.expense = x]),
           UNCHANGED <<loan, entry, broken, lock>>
    PROVE  AInv'
<1>1. PICK a : a = req[r] /\ a.pc = "expense"
  BY DEF At
<1>2. /\ \A s \in Reqs : req[s].pc \notin Busy
      /\ a \in Request /\ a.row \in Row /\ KnowsLoan(a) /\ KnowsExpense(a) /\ TypeOK
      /\ a.expense = NoExpense /\ a.entry = NoEntry
  BY <1>1, InTransaction
<1>3. expense[x] = "none" /\ expense' = [expense EXCEPT ![x] = "there"] /\ UNCHANGED <<loan, entry, broken, lock>>
  OBVIOUS
<1>4. expense'[x] = "there" /\ \A y \in Expenses \ {x} : expense'[y] = expense[y]
  BY <1>2, <1>3 DEF TypeOK
<1>5. PICK row : row = [a.row EXCEPT !.expense = x]
  OBVIOUS
<1>6. row \in Row /\ row.expense = x /\ row.status = a.row.status /\ row.key = a.row.key /\ row.loan = a.row.loan /\ row.taken = a.row.taken
  BY <1>2, <1>5 DEF Row
<1>7. PICK b : b = [a EXCEPT !.pc = "commit", !.expense = x, !.row = row]
  OBVIOUS
<1>8. req' = [req EXCEPT ![r] = b]
  BY <1>1, <1>5, <1>7 DEF Become
<1>9. b.pc = "commit" /\ b.expense = x /\ b.row = row /\ b.entry = NoEntry
  BY <1>2, <1>7 DEF Request
<1>10. ShouldExist(a.row) /\ lock = r
  BY <1>1, <1>2 DEF KnowsExpense, AInv, LockHeld
<1>11. KnowsLoan(b)'
  BY <1>1, <1>2, <1>3, <1>6, <1>9 DEF KnowsLoan, Edits
<1>12. KnowsExpense(b)'
  <2>1. ShouldExist(row) /\ Linked(row) /\ row.status # "none"
    BY <1>6, <1>10 DEF ShouldExist, Linked
  <2> QED
    BY <1>6, <1>9, <2>1 DEF KnowsExpense, Edits, Linked, ShouldExist
<1>13. b.pc \notin Busy
  BY <1>9 DEF Busy, Edits
<1>14. \A s \in Reqs : req'[s].pc \notin Busy /\ KnowsLoan(req[s])' /\ KnowsExpense(req[s])'
  BY <1>2, <1>3, <1>8, <1>11, <1>12, <1>13, FreeRequests
<1>15. LockHeld'
  <2>1. \A s \in Reqs \ {r} : req[s].pc \notin {"expense", "commit"}
    BY <1>1, OneTransaction
  <2> QED
    BY <1>3, <1>8, <1>10, <2>1, LockKept
<1>16. Held'
  <2>1. NothingUnmade
    BY <1>4 DEF Made, NothingUnmade
  <2>2. OnlyOwnLinked(r)
    BY <1>3 DEF OnlyOwnLinked
  <2>3. (\A e \in Entries : entry[e].expense # x) /\ \A s \in Reqs : req[s].expense # x
    BY <1>3, InEntries DEF Made
  <2>4. OnlyInHandsOf(r, b)
    BY <1>3, <1>4, <1>9, <2>3 DEF OnlyInHandsOf
  <2> QED
    BY <1>8, <2>1, <2>2, <2>4, HeldKept
<1>17. NoOrphan'
  <2>1. NothingLetGo(r, b)
    BY <1>1, <1>2, <1>4, <1>9, ConstantsAssumption DEF NothingLetGo
  <2> QED
    BY <1>3, <1>8, <2>1, OrphansKept
<1>18. LoanRows' /\ FreeRows' /\ LoanConserved' /\ RowsPaid'
  BY <1>2, <1>3, SameTables
<1> QED
  BY <1>14, <1>15, <1>16, <1>17, <1>18, FreeStep

\* An expense is saved and its creation fails: the transaction ends with nothing.
LEMMA ExpenseLostAlone ==
    ASSUME AInv, IInv', NEW r \in Reqs, NEW x \in Expenses, At(r, "expense"), expense[x] = "none",
           expense' = [expense EXCEPT ![x] = "lost"], Finish(r), UNCHANGED <<loan, entry, broken>>
    PROVE  AInv'
<1>1. PICK a : a = req[r] /\ a.pc = "expense"
  BY DEF At
<1>2. (\A s \in Reqs : req[s].pc \notin Busy) /\ TypeOK /\ a.expense = NoExpense
  BY <1>1, InTransaction
<1>3. expense'[x] = "lost" /\ \A y \in Expenses \ {x} : expense'[y] = expense[y]
  BY <1>2 DEF TypeOK
<1>4. PICK b : b = Idle
  OBVIOUS
<1>5. req' = [req EXCEPT ![r] = b] /\ b.pc = "idle" /\ b.entry = NoEntry /\ b.expense = NoExpense
  BY <1>4, IdleTyped DEF Finish, Become
<1>6. KnowsLoan(b)' /\ KnowsExpense(b)' /\ b.pc \notin Busy /\ b.pc \notin {"expense", "commit"}
  BY <1>5, IdleKnowsAll DEF Busy, Edits
<1>7. \A s \in Reqs : req'[s].pc \notin Busy /\ KnowsLoan(req[s])' /\ KnowsExpense(req[s])'
  BY <1>2, <1>5, <1>6, FreeRequests
<1>8. LockHeld'
  <2>1. \A s \in Reqs \ {r} : req[s].pc \notin {"expense", "commit"}
    BY <1>1, OneTransaction
  <2> QED
    BY <1>5, <1>6, <2>1, LockKept
<1>9. Held'
  <2>1. NothingUnmade
    BY <1>3 DEF Made, NothingUnmade
  <2>2. OnlyOwnLinked(r)
    BY DEF OnlyOwnLinked
  <2>3. OnlyInHandsOf(r, b)
    BY <1>5, ConstantsAssumption DEF OnlyInHandsOf
  <2> QED
    BY <1>5, <2>1, <2>2, <2>3, HeldKept
<1>10. NoOrphan'
  <2>1. NothingLetGo(r, b)
    BY <1>1, <1>2, <1>3, ConstantsAssumption DEF NothingLetGo
  <2> QED
    BY <1>5, <2>1, OrphansKept
<1>11. LoanRows' /\ FreeRows' /\ LoanConserved' /\ RowsPaid'
  BY <1>2, SameTables
<1> QED
  BY <1>7, <1>8, <1>9, <1>10, <1>11, FreeStep

LEMMA CreateExpenseAlone ==
    ASSUME AInv, IInv', NEW r \in Reqs, NEW x \in Expenses, CreateExpense(r, x)
    PROVE  AInv'
<1>1. At(r, "expense") /\ expense[x] = "none" /\ UNCHANGED <<loan, entry, broken>>
  BY DEF CreateExpense
<1>2. CASE /\ expense' = [expense EXCEPT ![x] = "there"]
           /\ Become(r, [req[r] EXCEPT !.pc = "commit", !.expense = x, !.row.expense = x])
           /\ UNCHANGED lock
  BY <1>1, <1>2, ExpenseForCommitAlone
<1>3. CASE expense' = [expense EXCEPT ![x] = "lost"] /\ Finish(r)
  BY <1>1, <1>3, ExpenseLostAlone
<1> QED
  BY <1>2, <1>3 DEF CreateExpense

\* The transaction has the lock, so the balance is the one it read.
LEMMA CreateCommitAlone ==
    ASSUME AInv, IInv', NEW r \in Reqs, NEW e \in Entries, CreateCommit(r, e)
    PROVE  AInv'
<1>1. PICK a : a = req[r] /\ a.pc = "commit"
  BY DEF CreateCommit, At
<1>2. /\ \A s \in Reqs : req[s].pc \notin Busy
      /\ a.row \in Row /\ KnowsLoan(a) /\ KnowsExpense(a) /\ TypeOK
  BY <1>1, InTransaction
<1>3. PICK row \in Row :
        /\ row = a.row /\ row.expense = a.expense /\ row.status # "none" /\ (ShouldExist(row) <=> Linked(row))
        /\ row.loan # NoLoan => loan[row.loan].status # "none" /\ row.taken <= loan[row.loan].balance
  BY <1>1, <1>2 DEF KnowsExpense, KnowsLoan
<1>4. entry[e].status = "none" /\ entry' = [entry EXCEPT ![e] = row] /\ loan' = Discounted(row) /\ UNCHANGED <<expense, broken>>
  BY <1>1, <1>3 DEF CreateCommit
<1>5. entry'[e] = row /\ \A f \in Entries \ {e} : entry'[f] = entry[f]
  BY <1>2, <1>4 DEF TypeOK
<1>6. LoanRows /\ FreeRows /\ LoanConserved /\ RowsPaid
  BY <1>2, NothingHalfChanged DEF AInv
<1>7. entry[e].loan = NoLoan /\ entry[e].expense = NoExpense
  BY <1>4, <1>6 DEF LoanRows, FreeRows
<1>8. PICK b : b = Idle
  OBVIOUS
<1>9. req' = [req EXCEPT ![r] = b] /\ b.pc = "idle" /\ b.entry = NoEntry /\ b.expense = NoExpense
  BY <1>8, IdleTyped DEF CreateCommit, Finish, Become
<1>10. \A s \in Reqs \ {r} : req[s].pc \notin {"expense", "commit"}
  BY <1>1, OneTransaction
<1>11. \A s \in Reqs : req'[s].pc \notin Busy /\ KnowsLoan(req[s])' /\ KnowsExpense(req[s])'
  <2>1. KnowsLoan(b)' /\ KnowsExpense(b)' /\ b.pc \notin Busy
    BY <1>9, IdleKnowsAll DEF Busy, Edits
  <2> QED
    BY <1>2, <1>9, <1>10, <2>1, FreeRequests
<1>12. LockHeld'
  BY <1>9, <1>10, LockKept
<1>13. Held'
  <2>1. NothingUnmade
    BY <1>4 DEF Made, NothingUnmade
  <2>2. OnlyOwnLinked(r)
    BY <1>1, <1>3, <1>5 DEF OnlyOwnLinked
  <2>3. OnlyInHandsOf(r, b)
    BY <1>9, ConstantsAssumption DEF OnlyInHandsOf
  <2> QED
    BY <1>9, <2>1, <2>2, <2>3, HeldKept
<1>14. NoOrphan'
  <2> SUFFICES ASSUME NEW x \in Expenses, expense'[x] = "there"
               PROVE  (\E f \in Entries : entry'[f].expense = x) \/ (\E q \in Reqs : req'[q].expense = x)
    BY DEF NoOrphan
  <2>1. (\E f \in Entries : entry[f].expense = x) \/ (\E q \in Reqs : req[q].expense = x)
    BY <1>4 DEF AInv, NoOrphan
  <2>2. \A s \in Reqs \ {r} : req'[s] = req[s]
    BY <1>2, <1>9, OneChanges
  <2>3. CASE req[r].expense = x
    BY <1>1, <1>3, <1>5, <2>3
  <2>4. CASE req[r].expense # x
    BY <1>5, <1>7, <2>1, <2>2, <2>4, ConstantsAssumption
  <2> QED
    BY <2>3, <2>4
<1>15. ASSUME NEW l \in Loans
       PROVE  /\ loan'[l].balance = loan[l].balance - Share(row, l) /\ loan'[l].amount = loan[l].amount
              /\ loan[l].status # "none" => loan'[l].status # "none"
  BY <1>2, <1>3, <1>4, DiscountedShare
<1>16. LoanRows'
  <2>1. \A f \in Entries : entry[f].loan # NoLoan => entry[f].loan \in Loans
    BY <1>2 DEF TypeOK, Row
  <2>2. row.loan # NoLoan => row.loan \in Loans
    BY DEF Row
  <2> QED
    BY <1>3, <1>5, <1>6, <1>15, <2>1, <2>2 DEF LoanRows
<1>17. FreeRows'
  BY <1>3, <1>5, <1>6 DEF FreeRows
<1>18. LoanConserved'
  <2>1. PICK t \in [Entries -> Row] : t = entry
    BY <1>2 DEF TypeOK
  <2>2. PICK u \in [Entries -> Row] : u = entry'
    BY <1>4, <2>1
  <2>3. \A f \in Entries \ {e} : u[f].loan = t[f].loan /\ u[f].taken = t[f].taken
    BY <1>5, <2>1, <2>2
  <2>4. ASSUME NEW l \in Loans
        PROVE  loan'[l].balance + TakenIn(u, l) = loan'[l].amount
    <3>1. TakenIn(u, l) = TakenIn(t, l) + Share(u[e], l) - Share(t[e], l)
      BY <2>3, TakenMoves
    <3>2. Share(u[e], l) = Share(row, l) /\ Share(t[e], l) = 0
      BY <1>5, <1>7, <2>1, <2>2, ConstantsAssumption DEF Share
    <3>3. loan[l].balance + TakenIn(t, l) = loan[l].amount
      BY <1>6, <2>1, TakenOfTable
    <3>4. TakenIn(t, l) \in Int /\ Share(row, l) \in Int /\ loan[l].balance \in Int
      BY <1>2, TakenTyped DEF Share, Row, TypeOK, Loan
    <3> QED
      BY <1>15, <3>1, <3>2, <3>3, <3>4
  <2> QED
    BY <2>2, <2>4, TakenOfTableNext
<1>19. RowsPaid'
  <2> SUFFICES ASSUME NEW f \in Entries, entry'[f].status \in Status, f \notin broken'
               PROVE  ShouldExist(entry'[f]) <=> Linked(entry'[f])
    BY DEF RowsPaid, Exists, ShouldExist, Linked
  <2>1. CASE f = e
    BY <1>3, <1>5, <2>1
  <2>2. CASE f # e
    BY <1>4, <1>5, <1>6, <2>2 DEF RowsPaid, Exists
  <2> QED
    BY <2>1, <2>2
<1> QED
  BY <1>11, <1>12, <1>13, <1>14, <1>16, <1>17, <1>18, <1>19, FreeStep

LEMMA CreateFailAlone ==
    ASSUME AInv, IInv', NEW r \in Reqs, CreateFail(r)
    PROVE  AInv'
<1>1. PICK a : a = req[r] /\ a.pc \in {"expense", "commit"}
  BY DEF CreateFail
<1>2. (\A s \in Reqs : req[s].pc \notin Busy) /\ TypeOK
  BY <1>1, InTransaction
<1>3. PICK x \in Expenses \cup {NoExpense} : x = a.expense
  BY <1>1, InTransaction
<1>4. PICK b : b = IF x = NoExpense THEN Idle ELSE [Idle EXCEPT !.pc = "discard", !.expense = x]
  OBVIOUS
<1>5. req' = [req EXCEPT ![r] = b] /\ UNCHANGED <<loan, entry, expense, broken>>
  BY <1>1, <1>3, <1>4 DEF CreateFail, Finish, Become
<1>6. b.pc \in {"idle", "discard"} /\ b.expense = x /\ KnowsLoan(b)' /\ KnowsExpense(b)'
  <2>1. CASE x = NoExpense
    BY <1>4, <2>1, IdleTyped, IdleNext DEF KnowsLoan, KnowsExpense
  <2>2. CASE x # NoExpense
    BY <1>4, <2>2, DiscardNext
  <2> QED
    BY <2>1, <2>2
<1>7. b.pc \notin Busy /\ b.pc \notin {"expense", "commit"}
  BY <1>6 DEF Busy, Edits
<1>8. \A s \in Reqs : req'[s].pc \notin Busy /\ KnowsLoan(req[s])' /\ KnowsExpense(req[s])'
  BY <1>2, <1>5, <1>6, <1>7, FreeRequests
<1>9. LockHeld'
  <2>1. \A s \in Reqs \ {r} : req[s].pc \notin {"expense", "commit"}
    BY <1>1, OneTransaction
  <2> QED
    BY <1>5, <1>7, <2>1, LockKept
<1>10. Held'
  <2>1. NothingUnmade
    BY <1>5 DEF Made, NothingUnmade
  <2>2. OnlyOwnLinked(r)
    BY <1>5 DEF OnlyOwnLinked
  <2>3. OnlyInHandsOf(r, b)
    BY <1>1, <1>3, <1>5, <1>6 DEF AInv, Held, Made, OnlyInHandsOf
  <2> QED
    BY <1>5, <2>1, <2>2, <2>3, HeldKept
<1>11. NoOrphan'
  <2>1. NothingLetGo(r, b)
    BY <1>1, <1>3, <1>5, <1>6 DEF NothingLetGo
  <2> QED
    BY <1>5, <2>1, OrphansKept
<1>12. LoanRows' /\ FreeRows' /\ LoanConserved' /\ RowsPaid'
  BY <1>2, <1>5, SameTables
<1> QED
  BY <1>8, <1>9, <1>10, <1>11, <1>12, FreeStep

(***************************************************************************)
(* The deletion of an expense, remove and what no request does.            *)
(***************************************************************************)
\* No payment has the expense in the hands of a request: deleting it leaves them
\* as they are.
LEMMA ClearedNothing ==
    ASSUME AInv, NEW x \in Expenses \cup {NoExpense}, \A e \in Entries : entry[e].expense = x => x = NoExpense
    PROVE  Cleared(x) = entry
<1>1. ASSUME NEW e \in Entries
      PROVE  (IF entry[e].expense = x THEN [entry[e] EXCEPT !.expense = NoExpense] ELSE entry[e]) = entry[e]
  <2>1. PICK row \in Row : row = entry[e]
    BY Typed DEF TypeOK
  <2>2. row.expense = x => [row EXCEPT !.expense = NoExpense] = row
    BY <2>1 DEF Row
  <2> QED
    BY <2>1, <2>2
<1> QED
  BY <1>1, Typed DEF Cleared, TypeOK

LEMMA DiscardAlone ==
    ASSUME AInv, IInv', NEW r \in Reqs, Discard(r)
    PROVE  AInv'
<1>1. PICK a : a = req[r] /\ a.pc = "discard"
  BY DEF Discard, At
<1>2. (\A s \in Reqs : req[s].pc \notin Busy) /\ TypeOK
  BY <1>1, InTransaction
<1>3. PICK x \in Expenses \cup {NoExpense} : x = a.expense
  BY <1>1, InTransaction
<1>4. \A e \in Entries : entry[e].expense = x => x = NoExpense
  BY <1>1, <1>3, InEntries
<1>5. Cleared(x) = entry
  BY <1>4, ClearedNothing
<1>6. UNCHANGED <<loan, entry, broken, lock>>
  BY <1>1, <1>3, <1>5 DEF Discard
<1>7. PICK b : b = Idle
  OBVIOUS
<1>8. req' = [req EXCEPT ![r] = b] /\ b.pc = "idle" /\ b.entry = NoEntry /\ b.expense = NoExpense
  BY <1>7, IdleTyped DEF Discard, Finish, Become
<1>9. \A y \in Expenses : /\ y # x => expense'[y] = expense[y]
                          /\ y = x => expense'[y] # "there"
                          /\ expense[y] # "none" => expense'[y] # "none"
  BY <1>1, <1>2, <1>3 DEF Discard, There, TypeOK
<1>10. \A s \in Reqs : req'[s].pc \notin Busy /\ KnowsLoan(req[s])' /\ KnowsExpense(req[s])'
  <2>1. KnowsLoan(b)' /\ KnowsExpense(b)' /\ b.pc \notin Busy
    BY <1>8, IdleKnowsAll DEF Busy, Edits
  <2> QED
    BY <1>2, <1>6, <1>8, <2>1, FreeRequests
<1>11. LockHeld'
  <2>1. req'[r] = b /\ \A s \in Reqs \ {r} : req'[s] = req[s]
    BY <1>2, <1>8, OneChanges
  <2> QED
    BY <1>6, <1>8, <2>1 DEF AInv, LockHeld
<1>12. Held'
  <2>1. NothingUnmade
    BY <1>9 DEF Made, NothingUnmade
  <2>2. OnlyOwnLinked(r)
    BY <1>6 DEF OnlyOwnLinked
  <2>3. OnlyInHandsOf(r, b)
    BY <1>8, ConstantsAssumption DEF OnlyInHandsOf
  <2> QED
    BY <1>8, <2>1, <2>2, <2>3, HeldKept
<1>13. NoOrphan'
  <2>1. NothingLetGo(r, b)
    BY <1>1, <1>3, <1>9 DEF NothingLetGo
  <2> QED
    BY <1>6, <1>8, <2>1, OrphansKept
<1>14. LoanRows' /\ FreeRows' /\ LoanConserved' /\ RowsPaid'
  BY <1>2, <1>6, SameTables
<1> QED
  BY <1>10, <1>11, <1>12, <1>13, <1>14, FreeStep

\* remove gives the loan back what the payment took from it.
LEMMA RemoveAlone ==
    ASSUME ~Overlap, AInv, IInv', NEW r \in Reqs, NEW e \in Entries, RemoveTransaction(r, e)
    PROVE  AInv'
<1>1. TypeOK
  BY Typed
<1>2. Begin(r) /\ req[r].pc = "idle" /\ lock = NoReq /\ UNCHANGED <<expense, broken, lock>>
  BY DEF RemoveTransaction, Begin, At
<1>3. \A s \in Reqs : req[s].pc \notin Busy
  BY <1>2, NotEditing
<1>4. \A s \in Reqs \ {r} : req[s].pc \notin {"expense", "commit"}
  BY <1>2, OneTransaction
<1>5. PICK old \in Row, x \in Expenses \cup {NoExpense} : old = entry[e] /\ x = old.expense /\ old.status # "none"
  BY <1>1 DEF RemoveTransaction, Exists, TypeOK, Row, Status
<1>6. PICK row : row = [NoRow EXCEPT !.status = "deleted"]
  OBVIOUS
<1>7. row.loan = NoLoan /\ row.taken = 0 /\ row.expense = NoExpense /\ row.status = "deleted"
  BY <1>6 DEF NoRow
<1>8. entry' = [entry EXCEPT ![e] = row] /\ loan' = Refunded(old)
  BY <1>5, <1>6 DEF RemoveTransaction
<1>9. entry'[e] = row /\ \A f \in Entries \ {e} : entry'[f] = entry[f]
  BY <1>1, <1>8 DEF TypeOK
<1>10. PICK b : b = IF x = NoExpense THEN Idle ELSE [Idle EXCEPT !.pc = "discard", !.expense = x]
  OBVIOUS
<1>11. req' = [req EXCEPT ![r] = b]
  BY <1>5, <1>10, ConstantsAssumption DEF RemoveTransaction, Become, Linked
<1>12. b.pc \in {"idle", "discard"} /\ b.expense = x /\ KnowsLoan(b)' /\ KnowsExpense(b)'
  <2>1. CASE x = NoExpense
    BY <1>10, <2>1, IdleTyped, IdleNext DEF KnowsLoan, KnowsExpense
  <2>2. CASE x # NoExpense
    BY <1>10, <2>2, DiscardNext
  <2> QED
    BY <2>1, <2>2
<1>13. b.pc \notin Busy /\ b.pc \notin {"expense", "commit"}
  BY <1>12 DEF Busy, Edits
<1>14. \A s \in Reqs : req'[s].pc \notin Busy /\ KnowsLoan(req[s])' /\ KnowsExpense(req[s])'
  BY <1>3, <1>4, <1>11, <1>12, <1>13, FreeRequests
<1>15. LockHeld'
  BY <1>4, <1>11, <1>13, LockKept
<1>16. ASSUME NEW y \in Expenses, y = x
       PROVE  Made(y) /\ (\A f \in Entries \ {e} : entry[f].expense # y) /\ \A s \in Reqs : req[s].expense # y
  BY <1>5, <1>16, InEntries
<1>17. Held'
  <2>1. NothingUnmade
    BY <1>2 DEF Made, NothingUnmade
  <2>2. OnlyOwnLinked(r)
    BY <1>7, <1>9 DEF OnlyOwnLinked
  <2>3. OnlyInHandsOf(r, b)
    BY <1>2, <1>7, <1>9, <1>12, <1>16, ConstantsAssumption DEF OnlyInHandsOf, Made
  <2> QED
    BY <1>11, <2>1, <2>2, <2>3, HeldKept
<1>18. NoOrphan'
  <2> SUFFICES ASSUME NEW y \in Expenses, expense'[y] = "there"
               PROVE  (\E f \in Entries : entry'[f].expense = y) \/ (\E q \in Reqs : req'[q].expense = y)
    BY DEF NoOrphan
  <2>1. (\E f \in Entries : entry[f].expense = y) \/ (\E q \in Reqs : req[q].expense = y)
    BY <1>2 DEF AInv, NoOrphan
  <2>2. req'[r] = b /\ \A s \in Reqs \ {r} : req'[s] = req[s]
    BY <1>1, <1>11, OneChanges
  <2>3. req[r].expense # y
    BY <1>2, IdleHasNothing, ConstantsAssumption
  <2>4. CASE x = y
    BY <1>12, <2>2, <2>4
  <2>5. CASE x # y
    BY <1>5, <1>9, <2>1, <2>2, <2>3, <2>5
  <2> QED
    BY <2>4, <2>5
<1>19. ASSUME NEW l \in Loans
       PROVE  /\ loan'[l].balance = loan[l].balance + Share(old, l) /\ loan'[l].amount = loan[l].amount
              /\ loan[l].status # "none" => loan'[l].status # "none"
  BY <1>1, <1>8, RefundedShare
<1>20. LoanRows /\ FreeRows /\ LoanConserved /\ RowsPaid
  BY <1>3, NothingHalfChanged DEF AInv
<1>21. LoanRows'
  <2>1. \A f \in Entries : entry[f].loan # NoLoan => entry[f].loan \in Loans
    BY <1>1 DEF TypeOK, Row
  <2> QED
    BY <1>7, <1>9, <1>19, <1>20, <2>1 DEF LoanRows
<1>22. FreeRows'
  BY <1>7, <1>9, <1>20 DEF FreeRows
<1>23. LoanConserved'
  <2>1. PICK t \in [Entries -> Row] : t = entry
    BY <1>1 DEF TypeOK
  <2>2. PICK u \in [Entries -> Row] : u = entry'
    BY TypedNext DEF TypeOK
  <2>3. \A f \in Entries \ {e} : u[f].loan = t[f].loan /\ u[f].taken = t[f].taken
    BY <1>9, <2>1, <2>2
  <2>4. ASSUME NEW l \in Loans
        PROVE  loan'[l].balance + TakenIn(u, l) = loan'[l].amount
    <3>1. TakenIn(u, l) = TakenIn(t, l) + Share(u[e], l) - Share(t[e], l)
      BY <2>3, TakenMoves
    <3>2. Share(u[e], l) = 0 /\ Share(t[e], l) = Share(old, l)
      BY <1>5, <1>7, <1>9, <2>1, <2>2, ConstantsAssumption DEF Share
    <3>3. loan[l].balance + TakenIn(t, l) = loan[l].amount
      BY <1>20, <2>1, TakenOfTable
    <3>4. TakenIn(t, l) \in Int /\ Share(old, l) \in Int /\ loan[l].balance \in Int
      BY <1>1, TakenTyped DEF Share, Row, TypeOK, Loan
    <3> QED
      BY <1>19, <3>1, <3>2, <3>3, <3>4
  <2> QED
    BY <2>2, <2>4, TakenOfTableNext
<1>24. RowsPaid'
  <2> SUFFICES ASSUME NEW f \in Entries, entry'[f].status \in Status, f \notin broken'
               PROVE  ShouldExist(entry'[f]) <=> Linked(entry'[f])
    BY DEF RowsPaid, Exists, ShouldExist, Linked
  <2>1. f # e
    BY <1>7, <1>9 DEF Status
  <2> QED
    BY <1>2, <1>9, <1>20, <2>1 DEF RowsPaid, Exists
<1> QED
  BY <1>14, <1>15, <1>17, <1>18, <1>21, <1>22, <1>23, <1>24, FreeStep

\* No request takes a step.
LEMMA SameRequests ==
    ASSUME AInv, \A s \in Reqs : req[s].pc \notin Busy, UNCHANGED req,
           \A l \in Loans : loan[l].status # "none" => loan'[l] = loan[l]
    PROVE  \A s \in Reqs : req'[s].pc \notin Busy /\ KnowsLoan(req[s])' /\ KnowsExpense(req[s])'
<1> SUFFICES ASSUME NEW s \in Reqs
             PROVE  req'[s].pc \notin Busy /\ KnowsLoan(req[s])' /\ KnowsExpense(req[s])'
  OBVIOUS
<1>1. PICK a \in Request : a = req[s] /\ KnowsLoan(a) /\ KnowsExpense(a)
  BY Typed
<1>2. req'[s] = a /\ a.pc \notin Busy /\ a.pc \notin Edits /\ a.pc # "loan_save"
  BY <1>1 DEF Busy
<1>3. a.row.loan # NoLoan => a.row.loan \in Loans
  BY DEF Request, Row
<1>4. KnowsExpense(a)'
  BY <1>1, <1>2, FreeKnows
<1>5. KnowsLoan(a)'
  BY <1>1, <1>2, <1>3 DEF KnowsLoan
<1> QED
  BY <1>2, <1>4, <1>5 DEF KnowsLoan, KnowsExpense

\* No payment has a loan that is not there yet.
LEMMA LoanCreateAlone ==
    ASSUME ~Overlap, AInv, IInv', NEW l \in Loans, LoanCreate(l)
    PROVE  AInv'
<1>1. TypeOK
  BY Typed
<1>2. \A s \in Reqs : req[s].pc \notin Busy
  BY DEF LoanCreate, Editing, Busy, Edits
<1>3. UNCHANGED <<entry, expense, broken, lock, req>> /\ loan[l].status = "none"
  BY DEF LoanCreate
<1>4. PICK amount \in Nat, new \in Loan :
        /\ new.status = "active" /\ new.amount = amount /\ new.balance = amount
        /\ loan' = [loan EXCEPT ![l] = new]
  <2>1. PICK amount \in 1..MaxAmount, installment \in 1..MaxAmount :
          loan' = [loan EXCEPT ![l] = [status |-> "active", amount |-> amount, balance |-> amount,
                                       installment |-> installment]]
    BY DEF LoanCreate
  <2>2. amount \in Nat /\ installment \in Nat
    BY ConstantsAssumption
  <2>3. PICK new : new = [status |-> "active", amount |-> amount, balance |-> amount, installment |-> installment]
    OBVIOUS
  <2>4. new \in Loan /\ new.status = "active" /\ new.amount = amount /\ new.balance = amount
    BY <2>2, <2>3 DEF Loan, LoanStatus
  <2> QED
    BY <2>1, <2>2, <2>3, <2>4
<1>5. loan'[l] = new /\ \A m \in Loans \ {l} : loan'[m] = loan[m]
  BY <1>1, <1>4 DEF TypeOK
<1>6. \A s \in Reqs : req'[s].pc \notin Busy /\ KnowsLoan(req[s])' /\ KnowsExpense(req[s])'
  <2>1. \A m \in Loans : loan[m].status # "none" => loan'[m] = loan[m]
    BY <1>3, <1>5
  <2> QED
    BY <1>2, <1>3, <2>1, SameRequests
<1>7. LoanRows /\ FreeRows /\ LoanConserved /\ RowsPaid /\ LockHeld /\ Held /\ NoOrphan
  BY <1>2, NothingHalfChanged DEF AInv
<1>8. LockHeld' /\ FreeRows' /\ NoOrphan'
  BY <1>3, <1>7 DEF LockHeld, FreeRows, NoOrphan
<1>9. Held'
  BY <1>3, <1>7 DEF Held, Made
<1>10. RowsPaid'
  BY <1>3, <1>7 DEF RowsPaid, Exists, ShouldExist, Linked
<1>11. LoanRows'
  <2>1. \A f \in Entries : entry[f].loan # NoLoan => entry[f].loan \in Loans
    BY <1>1 DEF TypeOK, Row
  <2> QED
    BY <1>3, <1>4, <1>5, <1>7, <2>1 DEF LoanRows
<1>12. LoanConserved'
  <2>1. PICK t \in [Entries -> Row] : t = entry /\ t = entry'
    BY <1>1, <1>3 DEF TypeOK
  <2>2. ASSUME NEW m \in Loans
        PROVE  loan'[m].balance + TakenIn(t, m) = loan'[m].amount
    <3>1. CASE m = l
      <4>1. \A e \in Entries : t[e].loan # l
        BY <1>3, <1>7, <2>1, ConstantsAssumption DEF LoanRows
      <4>2. TakenIn(t, l) = 0
        BY <4>1, TakenNone
      <4> QED
        BY <1>4, <1>5, <3>1, <4>2, ConstantsAssumption
    <3>2. CASE m # l
      BY <1>5, <1>7, <2>1, <3>2, TakenOfTable
    <3> QED
      BY <3>1, <3>2
  <2> QED
    BY <2>1, <2>2, TakenOfTableNext
<1> QED
  BY <1>6, <1>7, <1>8, <1>9, <1>10, <1>11, <1>12, FreeStep

\* The payments that had it are marked.
LEMMA DeleteByHandAlone ==
    ASSUME ~Overlap, AInv, IInv', NEW x \in Expenses, DeleteByHand(x)
    PROVE  AInv'
<1>1. TypeOK /\ x # NoExpense
  BY Typed, ConstantsAssumption
<1>2. \A s \in Reqs : req[s].pc \notin Busy
  BY DEF DeleteByHand, Editing, Busy, Edits
<1>3. /\ UNCHANGED <<loan, lock, req>> /\ entry' = Cleared(x) /\ expense' = [expense EXCEPT ![x] = "gone"]
      /\ broken' = broken \cup {e \in Entries : entry[e].expense = x}
  BY DEF DeleteByHand
<1>4. expense'[x] = "gone" /\ \A y \in Expenses \ {x} : expense'[y] = expense[y]
  BY <1>1, <1>3 DEF TypeOK
<1>5. ASSUME NEW e \in Entries
      PROVE  /\ entry'[e].loan = entry[e].loan /\ entry'[e].taken = entry[e].taken /\ entry'[e].status = entry[e].status
             /\ entry[e].expense = x => entry'[e].expense = NoExpense
             /\ entry[e].expense # x => entry'[e] = entry[e]
  <2>1. PICK row \in Row : row = entry[e]
    BY <1>1 DEF TypeOK
  <2>2. entry'[e] = IF row.expense = x THEN [row EXCEPT !.expense = NoExpense] ELSE row
    BY <1>3, <2>1 DEF Cleared
  <2>3. PICK new : new = [row EXCEPT !.expense = NoExpense]
    OBVIOUS
  <2>4. new.loan = row.loan /\ new.taken = row.taken /\ new.status = row.status /\ new.expense = NoExpense
    BY <2>3 DEF Row
  <2> QED
    BY <2>1, <2>2, <2>3, <2>4
<1>6. \A s \in Reqs : req'[s].pc \notin Busy /\ KnowsLoan(req[s])' /\ KnowsExpense(req[s])'
  BY <1>2, <1>3, SameRequests
<1>7. LoanRows /\ FreeRows /\ LoanConserved /\ RowsPaid /\ LockHeld /\ Held /\ NoOrphan
  BY <1>2, NothingHalfChanged DEF AInv
<1>8. LockHeld'
  BY <1>3, <1>7 DEF LockHeld
<1>9. LoanRows' /\ FreeRows'
  <2>1. LoanRows'
    BY <1>3, <1>5, <1>7 DEF LoanRows
  <2>2. FreeRows'
    BY <1>5, <1>7 DEF FreeRows
  <2> QED
    BY <2>1, <2>2
<1>10. Held'
  <2>1. \A y \in Expenses : Made(y) => expense'[y] # "none"
    BY <1>4 DEF Made
  <2>2. \A y \in Expenses : \A e \in Entries : entry[e].expense # y => entry'[e].expense # y
    BY <1>1, <1>5, ConstantsAssumption
  <2> QED
    BY <1>3, <1>7, <2>1, <2>2 DEF Held, Made
<1>11. NoOrphan'
  <2> SUFFICES ASSUME NEW y \in Expenses, expense'[y] = "there"
               PROVE  (\E f \in Entries : entry'[f].expense = y) \/ (\E q \in Reqs : req'[q].expense = y)
    BY DEF NoOrphan
  <2>1. y # x /\ expense[y] = "there"
    BY <1>4
  <2>2. (\E f \in Entries : entry[f].expense = y) \/ (\E q \in Reqs : req[q].expense = y)
    BY <1>7, <2>1 DEF NoOrphan
  <2> QED
    BY <1>3, <1>5, <2>1, <2>2
<1>12. LoanConserved'
  <2>1. PICK t \in [Entries -> Row] : t = entry
    BY <1>1 DEF TypeOK
  <2>2. PICK u \in [Entries -> Row] : u = entry'
    BY TypedNext DEF TypeOK
  <2>3. \A f \in Entries : u[f].loan = t[f].loan /\ u[f].taken = t[f].taken
    BY <1>5, <2>1, <2>2
  <2>4. \A l : TakenIn(u, l) = TakenIn(t, l)
    BY <2>3, TakenSame
  <2> QED
    BY <1>3, <1>7, <2>1, <2>2, <2>4, TakenOfTable, TakenOfTableNext
<1>13. RowsPaid'
  <2> SUFFICES ASSUME NEW f \in Entries, entry'[f].status \in Status, f \notin broken'
               PROVE  ShouldExist(entry'[f]) <=> Linked(entry'[f])
    BY DEF RowsPaid, Exists, ShouldExist, Linked
  <2>1. f \notin broken /\ entry[f].expense # x
    BY <1>3
  <2>2. entry'[f] = entry[f]
    BY <1>5, <2>1
  <2> QED
    BY <1>7, <2>1, <2>2 DEF RowsPaid, Exists
<1> QED
  BY <1>6, <1>8, <1>9, <1>10, <1>11, <1>12, <1>13, FreeStep

(***************************************************************************)
(* The theorems.                                                           *)
(***************************************************************************)
LEMMA InitAInv == Init => AInv
<1> SUFFICES ASSUME Init PROVE AInv
  OBVIOUS
<1>1. IInv
  BY InitIInv
<1>2. \A r \in Reqs : req[r].pc = "idle" /\ req[r].entry = NoEntry /\ req[r].expense = NoExpense
  BY IdleTyped DEF Init
<1>3. \A e \in Entries :
        entry[e].status = "none" /\ entry[e].loan = NoLoan /\ entry[e].expense = NoExpense /\ entry[e].key = NoKey
  BY DEF Init, NoRow
<1>4. Alone /\ LockHeld
  BY <1>2 DEF Alone, LockHeld, Busy, Edits
<1>5. LoanRows /\ FreeRows
  BY <1>3 DEF LoanRows, FreeRows
<1>6. Held
  BY <1>2, ConstantsAssumption DEF Held
<1>7. \A r \in Reqs : KnowsLoan(req[r]) /\ KnowsExpense(req[r])
  BY <1>2 DEF KnowsLoan, KnowsExpense, Edits
<1>8. LoanConserved
  <2>1. TypeOK
    BY <1>1, IInvOwnExpense
  <2>2. PICK t \in [Entries -> Row] : t = entry
    BY <2>1 DEF TypeOK
  <2>3. ASSUME NEW l \in Loans
        PROVE  loan[l].balance + TakenIn(t, l) = loan[l].amount
    <3>1. TakenIn(t, l) = 0
      <4>1. \A e \in Entries : t[e].loan # l
        BY <1>3, <2>2, ConstantsAssumption
      <4> QED
        BY <4>1, TakenNone
    <3>2. loan[l].balance = 0 /\ loan[l].amount = 0
      BY DEF Init, NoLoanRow
    <3> QED
      BY <3>1, <3>2
  <2> QED
    BY <2>2, <2>3, TakenOfTable
<1>9. PaidHasExpense
  BY <1>3 DEF PaidHasExpense, Exists, Status
<1>10. NoOrphan
  BY DEF NoOrphan, Init
<1> QED
  BY <1>1, <1>4, <1>5, <1>6, <1>7, <1>8, <1>9, <1>10 DEF AInv

LEMMA NextAInv ==
    ASSUME ~Overlap
    PROVE  AInv /\ [Next]_vars => AInv'
<1> SUFFICES ASSUME AInv, [Next]_vars
             PROVE  AInv'
  OBVIOUS
<1>1. IInv'
  BY NextIInv DEF AInv
<1>2. CASE UNCHANGED vars
  <2>1. UNCHANGED <<loan, entry, expense, broken, lock, req>>
    BY <1>2 DEF vars
  <2>2. /\ Alone /\ LockHeld /\ LoanRows /\ FreeRows /\ Held /\ LoanConserved /\ PaidHasExpense /\ NoOrphan
        /\ \A r \in Reqs : KnowsLoan(req[r]) /\ KnowsExpense(req[r])
    BY DEF AInv
  <2>3. Alone' /\ LockHeld' /\ LoanRows' /\ FreeRows'
    BY <2>1, <2>2 DEF Alone, LockHeld, LoanRows, FreeRows
  <2>4. Held' /\ NoOrphan'
    BY <2>1, <2>2 DEF Held, Made, NoOrphan
  <2>5. LoanConserved'
    BY <2>1, <2>2 DEF LoanConserved
  <2>6. PaidHasExpense'
    BY <2>1, <2>2 DEF PaidHasExpense, Exists, ShouldExist, Linked
  <2>7. \A r \in Reqs : KnowsLoan(req[r])' /\ KnowsExpense(req[r])'
    BY <2>1, <2>2 DEF KnowsLoan, KnowsExpense, ShouldExist, Linked
  <2> QED
    BY <1>1, <2>3, <2>4, <2>5, <2>6, <2>7 DEF AInv
<1>3. ASSUME NEW r \in Reqs, Create(r)
      PROVE  AInv'
  BY <1>1, <1>3, CreateLockAlone, CreateExpenseAlone, CreateCommitAlone, CreateFailAlone DEF Create
<1>4. ASSUME NEW r \in Reqs, Update(r)
      PROVE  AInv'
  BY <1>1, <1>4, UpdateReadAlone, UpdateCheckAlone, UpdateSaveAlone, SyncExpenseAlone, LinkExpenseAlone,
     UpdateRevertAlone, DetachExpenseAlone DEF Update
<1>5. ASSUME NEW r \in Reqs, Discard(r) \/ LoanSave(r)
      PROVE  AInv'
  BY <1>1, <1>5, DiscardAlone, LoanSaveAlone
<1>6. ASSUME NEW r \in Reqs, NEW e \in Entries, RemoveTransaction(r, e)
      PROVE  AInv'
  BY <1>1, <1>6, RemoveAlone
<1>7. ASSUME NEW r \in Reqs, NEW l \in Loans, LoanRead(r, l)
      PROVE  AInv'
  BY <1>1, <1>7, LoanReadAlone
<1>8. ASSUME NEW l \in Loans, LoanCreate(l)
      PROVE  AInv'
  BY <1>1, <1>8, LoanCreateAlone
<1>9. ASSUME NEW x \in Expenses, DeleteByHand(x)
      PROVE  AInv'
  BY <1>1, <1>9, DeleteByHandAlone
<1> QED
  BY <1>2, <1>3, <1>4, <1>5, <1>6, <1>7, <1>8, <1>9 DEF Next

\* Without editions that overlap with other requests, what was discounted from a
\* loan in the payments there are and what is left of it is what was lent, for any
\* number of loans and payments, created and removed at the same time in any order.
THEOREM SpecLoanConserved ==
    ASSUME ~Overlap
    PROVE  Spec => []LoanConserved
<1>1. AInv => LoanConserved
  BY DEF AInv
<1>2. AInv /\ [Next]_vars => AInv'
  BY NextAInv
<1> QED
  BY <1>1, <1>2, InitAInv, PTL DEF Spec

\* A payment that no request edits has an expense exactly when it is paid and has
\* a project, unless somebody deleted the expense or undoing an edition failed.
THEOREM SpecPaidHasExpense ==
    ASSUME ~Overlap
    PROVE  Spec => []PaidHasExpense
<1>1. AInv => PaidHasExpense
  BY DEF AInv
<1>2. AInv /\ [Next]_vars => AInv'
  BY NextAInv
<1> QED
  BY <1>1, <1>2, InitAInv, PTL DEF Spec

\* Whatever fails, every expense of the payroll is in a payment or in the hands of
\* the request that will put it there or delete it, but one whose deletion failed
\* and one whose creation failed after saving it.
THEOREM SpecNoOrphan ==
    ASSUME ~Overlap
    PROVE  Spec => []NoOrphan
<1>1. AInv => NoOrphan
  BY DEF AInv
<1>2. AInv /\ [Next]_vars => AInv'
  BY NextAInv
<1> QED
  BY <1>1, <1>2, InitAInv, PTL DEF Spec
=============================================================================
