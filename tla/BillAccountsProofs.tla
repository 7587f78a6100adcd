------------------------- MODULE BillAccountsProofs -------------------------
(***************************************************************************)
(* The books of BillPayments, for every number of workers, residents, bills *)
(* and keys.  First the sums: that SumFunctionOnSet of a finite set is what *)
(* one expects is shown by the least counterexample, since subsets of a     *)
(* finite set are well-founded.  Then that no interleaving invents money:   *)
(* what a worker's copies show is backed by completed payments, but for the *)
(* one it is about to complete (CopiesBacked).  Last, that the ledger loses *)
(* nothing, nor therefore does a worker that is alone and implements it.    *)
(***************************************************************************)
EXTENDS BillAccounts, BillPaymentsProofs, FiniteSetTheorems

-----------------------------------------------------------------------------
(* The element a sum takes next, the step it then does, and the functions   *)
(* that satisfy its equation on the subsets of S.                           *)
Pick(s) == CHOOSE x \in s : TRUE
Step(f, g, s) == IF s = {} THEN 0 ELSE f[Pick(s)] + g[s \ {Pick(s)}]
Sums(f, S, g) == g = [s \in SUBSET S |-> Step(f, g, s)]

(* Subsets of a finite set that are bad have a smallest among them.         *)
LEMMA SmallestBad ==
  ASSUME NEW S, IsFiniteSet(S), NEW Bad \in SUBSET SUBSET S, Bad # {}
  PROVE  \E T \in Bad : \A U \in SUBSET T : U # T => U \notin Bad
<1>1. IsWellFoundedOn(StrictSubsetOrdering(S), FiniteSubsetsOf(S))
  BY FS_StrictSubsetOrderingWellFounded
<1>2. FiniteSubsetsOf(S) = SUBSET S
  BY FS_FiniteSubsetsOfFinite
<1>3. PICK T \in Bad : \A U \in Bad : <<U, T>> \notin StrictSubsetOrdering(S)
  BY <1>1, <1>2, WFMin
<1>4. \A U \in SUBSET T : U # T => U \notin Bad
  BY <1>3 DEF StrictSubsetOrdering
<1> QED
  BY <1>4

LEMMA PickIn == ASSUME NEW s, s # {} PROVE Pick(s) \in s
  BY DEF Pick

LEMMA SumUnfold ==
  ASSUME NEW f, NEW S
  PROVE  SumFunctionOnSet(f, S) = (CHOOSE g : Sums(f, S, g))[S]
  BY DEF SumFunctionOnSet, FoldFunctionOnSet, MapThenFoldSet, Sums, Step, Pick

(* The equation determines the sums, whatever set contains them.            *)
LEMMA SumsAgree ==
  ASSUME NEW f, NEW S, IsFiniteSet(S), NEW T \in SUBSET S,
         NEW g, Sums(f, S, g), NEW h, Sums(f, T, h)
  PROVE  \A s \in SUBSET T : g[s] = h[s]
<1> DEFINE Bad == {s \in SUBSET T : g[s] # h[s]}
<1> SUFFICES ASSUME Bad # {} PROVE FALSE
  OBVIOUS
<1>1. IsFiniteSet(T)
  BY FS_Subset
<1>0. Bad \in SUBSET SUBSET T
  OBVIOUS
<1>2. PICK s \in Bad : \A u \in SUBSET s : u # s => u \notin Bad
  <2> HIDE DEF Bad
  <2> QED BY <1>0, <1>1, SmallestBad
<1>3. g[s] = Step(f, g, s) /\ h[s] = Step(f, h, s)
  BY DEF Sums
<1>4. s # {} => g[s \ {Pick(s)}] = h[s \ {Pick(s)}]
  BY <1>2, PickIn
<1> QED
  BY <1>3, <1>4 DEF Step

(* A smallest set without sums would have them from its subsets.            *)
LEMMA SumExists ==
  ASSUME NEW f, NEW S, IsFiniteSet(S)
  PROVE  \E g : Sums(f, S, g)
<1> DEFINE Bad == {T \in SUBSET S : ~ \E g : Sums(f, T, g)}
<1> SUFFICES ASSUME Bad # {} PROVE FALSE
  BY DEF Bad
<1>0. Bad \in SUBSET SUBSET S
  OBVIOUS
<1>1. PICK T \in Bad : \A U \in SUBSET T : U # T => U \notin Bad
  <2> HIDE DEF Bad
  <2> QED BY <1>0, SmallestBad
<1> DEFINE F(U) == SumFunctionOnSet(f, U)
<1>2. \A U \in SUBSET T : U # T => \E g : Sums(f, U, g) /\ F(U) = g[U]
  <2> TAKE U \in SUBSET T
  <2> HAVE U # T
  <2>1. \E g : Sums(f, U, g)
    BY <1>1
  <2>2. Sums(f, U, CHOOSE g : Sums(f, U, g))
    BY <2>1
  <2> QED
    BY <2>2, SumUnfold
<1> HIDE DEF F
<1> DEFINE g == [s \in SUBSET T |-> IF s # T THEN F(s)
                  ELSE IF T = {} THEN 0 ELSE f[Pick(T)] + F(T \ {Pick(T)})]
<1>3. \A s \in SUBSET T : g[s] = Step(f, g, s)
  <2> TAKE s \in SUBSET T
  <2>1. CASE s = T
    BY <2>1, PickIn DEF Step
  <2>2. CASE s # T
    <3>1. PICK h : Sums(f, s, h) /\ F(s) = h[s]
      BY <2>2, <1>2
    <3>2. h[s] = Step(f, h, s)
      BY <3>1 DEF Sums
    <3>3. ASSUME s # {} PROVE h[s \ {Pick(s)}] = g[s \ {Pick(s)}]
      <4> DEFINE u == s \ {Pick(s)}
      <4>1. u \in SUBSET s /\ u # T /\ u \in SUBSET T
        BY <3>3, PickIn
      <4>2. PICK k : Sums(f, u, k) /\ F(u) = k[u]
        BY <4>1, <1>2
      <4>3. IsFiniteSet(s)
        BY FS_Subset
      <4>4. h[u] = k[u]
        BY <4>1, <4>2, <4>3, <3>1, SumsAgree
      <4> QED
        BY <4>1, <4>2, <4>4
    <3> QED
      BY <2>2, <3>1, <3>2, <3>3 DEF Step
  <2> QED
    BY <2>1, <2>2
<1>4. Sums(f, T, g)
  BY <1>3 DEF Sums
<1> QED
  BY <1>4

(* The equation of the sum.                                                 *)
LEMMA SumStep ==
  ASSUME NEW f, NEW S, IsFiniteSet(S)
  PROVE  SumFunctionOnSet(f, S) =
           IF S = {} THEN 0 ELSE f[Pick(S)] + SumFunctionOnSet(f, S \ {Pick(S)})
<1> DEFINE g == CHOOSE g : Sums(f, S, g)
           T == S \ {Pick(S)}
           h == CHOOSE h : Sums(f, T, h)
<1>1. Sums(f, S, g)
  BY SumExists
<1>2. IsFiniteSet(T)
  BY FS_Subset
<1>3. Sums(f, T, h)
  BY <1>2, SumExists
<1>4. SumFunctionOnSet(f, S) = g[S] /\ SumFunctionOnSet(f, T) = h[T]
  BY SumUnfold
<1>5. g[T] = h[T]
  <2>1. T \in SUBSET S /\ T \in SUBSET T
    OBVIOUS
  <2> HIDE DEF g, h, T
  <2> QED BY <2>1, <1>1, <1>3, SumsAgree
<1>6. g[S] = Step(f, g, S)
  <2> HIDE DEF g
  <2> QED BY <1>1 DEF Sums
<1> QED
  BY <1>4, <1>5, <1>6 DEF Step

LEMMA SumType ==
  ASSUME NEW f, NEW S, IsFiniteSet(S), \A x \in S : f[x] \in Int
  PROVE  SumFunctionOnSet(f, S) \in Int
<1> DEFINE Bad == {T \in SUBSET S : SumFunctionOnSet(f, T) \notin Int}
<1> SUFFICES ASSUME Bad # {} PROVE FALSE
  OBVIOUS
<1>0. Bad \in SUBSET SUBSET S
  OBVIOUS
<1>1. PICK T \in Bad : \A U \in SUBSET T : U # T => U \notin Bad
  <2> HIDE DEF Bad
  <2> QED BY <1>0, SmallestBad
<1>2. IsFiniteSet(T)
  BY FS_Subset
<1>3. T # {} => SumFunctionOnSet(f, T \ {Pick(T)}) \in Int /\ f[Pick(T)] \in Int
  BY <1>1, PickIn
<1> QED
  BY <1>2, <1>3, SumStep

(* The order in which a sum takes its elements does not matter.             *)
LEMMA SumAny ==
  ASSUME NEW f, NEW S, IsFiniteSet(S), \A x \in S : f[x] \in Int
  PROVE  \A x \in S : SumFunctionOnSet(f, S) = f[x] + SumFunctionOnSet(f, S \ {x})
<1> DEFINE F(T) == SumFunctionOnSet(f, T)
           Bad == {T \in SUBSET S : \E x \in T : F(T) # f[x] + F(T \ {x})}
<1> SUFFICES ASSUME Bad # {} PROVE FALSE
  OBVIOUS
<1>0. Bad \in SUBSET SUBSET S
  OBVIOUS
<1>1. PICK T \in Bad : \A U \in SUBSET T : U # T => U \notin Bad
  <2> HIDE DEF Bad
  <2> QED BY <1>0, SmallestBad
<1>2. \A U \in SUBSET S : IsFiniteSet(U) /\ F(U) \in Int
  BY FS_Subset, SumType
<1>3. PICK x \in T : F(T) # f[x] + F(T \ {x})
  BY <1>1
<1> DEFINE y == Pick(T)
<1>4. y \in T
  BY <1>3, PickIn
<1>5. F(T) = f[y] + F(T \ {y})
  BY <1>2, <1>3, SumStep
<1>6. y # x
  BY <1>3, <1>5
<1>7. F(T \ {y}) = f[x] + F((T \ {y}) \ {x})
  BY <1>1, <1>3, <1>4, <1>6
<1>8. F(T \ {x}) = f[y] + F((T \ {x}) \ {y})
  BY <1>1, <1>3, <1>4, <1>6
<1>9. (T \ {y}) \ {x} = (T \ {x}) \ {y}
  OBVIOUS
<1>10. F(T \ {x}) \in Int /\ F((T \ {x}) \ {y}) \in Int /\ f[x] \in Int /\ f[y] \in Int
  BY <1>2, <1>4
<1> HIDE DEF F, y
<1>11. F(T) = f[y] + (f[x] + F((T \ {x}) \ {y}))
  BY <1>5, <1>7, <1>9
<1>12. F(T) = f[x] + (f[y] + F((T \ {x}) \ {y}))
  BY <1>10, <1>11
<1> QED
  BY <1>3, <1>8, <1>12

LEMMA SumSame ==
  ASSUME NEW f, NEW h, NEW S, IsFiniteSet(S), \A x \in S : f[x] = h[x]
  PROVE  SumFunctionOnSet(f, S) = SumFunctionOnSet(h, S)
<1> DEFINE Bad == {T \in SUBSET S : SumFunctionOnSet(f, T) # SumFunctionOnSet(h, T)}
<1> SUFFICES ASSUME Bad # {} PROVE FALSE
  OBVIOUS
<1>0. Bad \in SUBSET SUBSET S
  OBVIOUS
<1>1. PICK T \in Bad : \A U \in SUBSET T : U # T => U \notin Bad
  <2> HIDE DEF Bad
  <2> QED BY <1>0, SmallestBad
<1>2. IsFiniteSet(T)
  BY FS_Subset
<1>3. T # {} => Pick(T) \in T
  BY PickIn
<1>4. T # {} => SumFunctionOnSet(f, T \ {Pick(T)}) = SumFunctionOnSet(h, T \ {Pick(T)})
  BY <1>1, <1>3
<1> QED
  BY <1>2, <1>3, <1>4, SumStep

(* One more element adds its value.                                         *)
LEMMA SumAdd ==
  ASSUME NEW f, NEW g, NEW S, IsFiniteSet(S), NEW x, x \notin S, g[x] \in Int,
         \A y \in S : f[y] \in Int /\ g[y] = f[y]
  PROVE  SumFunctionOnSet(g, S \cup {x}) = g[x] + SumFunctionOnSet(f, S)
<1>1. IsFiniteSet(S \cup {x})
  BY FS_AddElement
<1>2. \A y \in S \cup {x} : g[y] \in Int
  OBVIOUS
<1>3. SumFunctionOnSet(g, S \cup {x}) = g[x] + SumFunctionOnSet(g, (S \cup {x}) \ {x})
  BY <1>1, <1>2, SumAny
<1>4. (S \cup {x}) \ {x} = S
  OBVIOUS
<1>5. SumFunctionOnSet(g, S) = SumFunctionOnSet(f, S)
  BY SumSame
<1> QED
  BY <1>3, <1>4, <1>5

-----------------------------------------------------------------------------
RowsTyped == payments \in [Keys -> PaymentRow \cup {None}]

LEMMA BooksTyped ==
  ASSUME RowsTyped, IsFiniteSet(Completed)
  PROVE  /\ \A b \in Bills : PaidFor(b) \in Int
         /\ \A u \in Residents : PaidFrom(u) \in Int
<1>1. \A k \in Completed : Charge[k] \in Int
  BY ConstantsAssumption DEF RowsTyped, Completed, Charge, PaymentRow
<1>2. ASSUME NEW S \in SUBSET Completed PROVE SumFunctionOnSet(Charge, S) \in Int
  BY <1>1, FS_Subset, SumType
<1> QED
  BY <1>2 DEF PaidFor, PaidFrom

(* Nothing is booked on a bill that no payment refers to.                   *)
LEMMA NothingBooked ==
  ASSUME NEW b, \A k \in Completed : payments[k].bill # b
  PROVE  PaidFor(b) = 0
<1>1. SumFunctionOnSet(Charge, {}) = 0
  BY FS_EmptySet, SumStep
<1>2. {k \in Completed : payments[k].bill = b} = {}
  OBVIOUS
<1> QED
  BY <1>1, <1>2 DEF PaidFor

(* A completed payment is booked for its bill and its payer, for no other.  *)
LEMMA Booked ==
  ASSUME RowsTyped, IsFiniteSet(Completed),
         NEW k \in Keys, payments[k] = None, NEW row \in PaymentRow,
         payments' = [payments EXCEPT ![k] = row]
  PROVE  /\ IsFiniteSet(Completed')
         /\ \A c \in Bills :
              PaidFor(c)' = PaidFor(c) + (IF c = row.bill THEN row.amount ELSE 0)
         /\ \A u \in Residents :
              PaidFrom(u)' = PaidFrom(u) + (IF u = row.payer THEN row.amount ELSE 0)
<1> USE ConstantsAssumption
<1> DEFINE a == row.amount
           b == row.bill
           p == row.payer
<1>1. a \in Nat
  BY DEF PaymentRow
<1>2. Completed' = Completed \cup {k} /\ k \notin Completed
  BY DEF Completed, RowsTyped
<1>3. \A j \in Completed : Charge[j] \in Int /\ Charge'[j] = Charge[j]
  BY <1>2 DEF Charge, Completed, RowsTyped, PaymentRow
<1>4. Charge'[k] = a
  BY <1>2 DEF Charge, RowsTyped
<1>5. ASSUME NEW S \in SUBSET Completed
      PROVE  /\ IsFiniteSet(S \cup {k})
             /\ SumFunctionOnSet(Charge', S \cup {k}) = SumFunctionOnSet(Charge, S) + a
             /\ SumFunctionOnSet(Charge', S) = SumFunctionOnSet(Charge, S)
             /\ SumFunctionOnSet(Charge, S) \in Int
  <2>1. IsFiniteSet(S)
    BY FS_Subset
  <2>2. k \notin S
    BY <1>2
  <2> DEFINE f == Charge
             g == Charge'
  <2>3. \A y \in S : f[y] \in Int /\ g[y] = f[y]
    BY <1>3
  <2>4. g[k] = a /\ a \in Int
    BY <1>1, <1>4
  <2> HIDE DEF f, g
  <2>5. g[k] \in Int
    BY <2>4
  <2>6. IsFiniteSet(S \cup {k})
    BY <2>1, FS_AddElement
  <2>8. SumFunctionOnSet(g, S \cup {k}) = g[k] + SumFunctionOnSet(f, S)
    BY <2>1, <2>2, <2>3, <2>5, SumAdd
  <2>7. SumFunctionOnSet(g, S) = SumFunctionOnSet(f, S) /\ SumFunctionOnSet(f, S) \in Int
    BY <2>1, <2>3, SumSame, SumType
  <2> QED
    BY <2>4, <2>6, <2>7, <2>8 DEF f, g
<1>6. ASSUME NEW c \in Bills
      PROVE  PaidFor(c)' = PaidFor(c) + (IF c = b THEN a ELSE 0)
  <2> DEFINE S == {j \in Completed : payments[j].bill = c}
  <2>1. {j \in Completed' : payments'[j].bill = c} = IF c = b THEN S \cup {k} ELSE S
    BY <1>2 DEF RowsTyped, Completed
  <2>2. PaidFor(c)' = SumFunctionOnSet(Charge', {j \in Completed' : payments'[j].bill = c})
    BY DEF PaidFor
  <2>3. S \in SUBSET Completed /\ PaidFor(c) = SumFunctionOnSet(Charge, S)
    BY DEF PaidFor
  <2> HIDE DEF S
  <2>4. /\ SumFunctionOnSet(Charge', S \cup {k}) = PaidFor(c) + a
        /\ SumFunctionOnSet(Charge', S) = PaidFor(c)
        /\ PaidFor(c) \in Int
    BY <1>5, <2>3
  <2> QED
    <3>1. CASE c = b
      <4>1. PaidFor(c)' = SumFunctionOnSet(Charge', S \cup {k})
        BY <2>1, <2>2, <3>1
      <4> QED
        BY <2>4, <3>1, <4>1
    <3>2. CASE ~ (c = b)
      <4>1. PaidFor(c)' = SumFunctionOnSet(Charge', S)
        BY <2>1, <2>2, <3>2
      <4>2. PaidFor(c) + 0 = PaidFor(c)
        BY <2>4
      <4> QED
        BY <2>4, <3>2, <4>1, <4>2
    <3> QED
      BY <3>1, <3>2
<1>7. ASSUME NEW u \in Residents
      PROVE  PaidFrom(u)' = PaidFrom(u) + (IF u = p THEN a ELSE 0)
  <2> DEFINE S == {j \in Completed : payments[j].payer = u}
  <2>1. {j \in Completed' : payments'[j].payer = u} = IF u = p THEN S \cup {k} ELSE S
    BY <1>2 DEF RowsTyped, Completed
  <2>2. PaidFrom(u)' = SumFunctionOnSet(Charge', {j \in Completed' : payments'[j].payer = u})
    BY DEF PaidFrom
  <2>3. S \in SUBSET Completed /\ PaidFrom(u) = SumFunctionOnSet(Charge, S)
    BY DEF PaidFrom
  <2> HIDE DEF S
  <2>4. /\ SumFunctionOnSet(Charge', S \cup {k}) = PaidFrom(u) + a
        /\ SumFunctionOnSet(Charge', S) = PaidFrom(u)
        /\ PaidFrom(u) \in Int
    BY <1>5, <2>3
  <2> QED
    <3>1. CASE u = p
      <4>1. PaidFrom(u)' = SumFunctionOnSet(Charge', S \cup {k})
        BY <2>1, <2>2, <3>1
      <4> QED
        BY <2>4, <3>1, <4>1
    <3>2. CASE ~ (u = p)
      <4>1. PaidFrom(u)' = SumFunctionOnSet(Charge', S)
        BY <2>1, <2>2, <3>2
      <4>2. PaidFrom(u) + 0 = PaidFrom(u)
        BY <2>4
      <4> QED
        BY <2>4, <3>2, <4>1, <4>2
    <3> QED
      BY <3>1, <3>2
<1> QED
  BY <1>2, <1>5, <1>6, <1>7

LEMMA BooksKept ==
  ASSUME UNCHANGED payments
  PROVE  /\ Completed' = Completed
         /\ \A b : PaidFor(b)' = PaidFor(b)
         /\ \A u : PaidFrom(u)' = PaidFrom(u)
  BY DEF Completed, Charge, PaidFor, PaidFrom

-----------------------------------------------------------------------------
(* What the copies of a worker show is backed by completed payments, but    *)
(* for the one that the worker is about to complete.                        *)
BackedFor(w) ==
    LET b == job[w].bill
        u == job[w].user
    IN  /\ pc[w] \in Paying \cup {"save"} => mem[w].paid <= PaidFor(b)
        /\ Added(w) => mem[w].paid <= PaidFor(b) + mem[w].amount
        /\ pc[w] \in {"validate", "insert", "debit"} =>
             mem[w].own.balance >= Opening[u] - PaidFrom(u)
        /\ pc[w] = "bill" \/ Added(w) =>
             mem[w].own.balance + mem[w].amount >= Opening[u] - PaidFrom(u)

Backing ==
    /\ IsFiniteSet(Completed)
    /\ NothingInvented
    /\ \A w \in Workers : BackedFor(w)

LEMMA InitBacking == Init => Backing
<1> SUFFICES ASSUME Init PROVE Backing
  OBVIOUS
<1>1. Completed = {}
  BY DEF Init, Completed
<1>2. IsFiniteSet(Completed)
  BY <1>1, FS_EmptySet
<1>3. SumFunctionOnSet(Charge, {}) = 0
  BY FS_EmptySet, SumStep
<1>4. (\A b : PaidFor(b) = 0) /\ \A u : PaidFrom(u) = 0
  <2>1. \A b : {k \in Completed : payments[k].bill = b} = {}
    BY <1>1
  <2>2. \A u : {k \in Completed : payments[k].payer = u} = {}
    BY <1>1
  <2> QED
    BY <1>3, <2>1, <2>2 DEF PaidFor, PaidFrom
<1>5. NothingInvented
  BY <1>4, ConstantsAssumption DEF Init, NothingInvented, Wallets
<1>6. \A w \in Workers : BackedFor(w)
  BY DEF Init, BackedFor, Added, Paying, Closing
<1> QED
  BY <1>2, <1>5, <1>6 DEF Backing

(* What the books and the rows of residents are, for arithmetic.            *)
LEMMA BackingTypes ==
  ASSUME IInv, Backing
  PROVE  /\ RowsTyped /\ IsFiniteSet(Completed)
         /\ \A b \in Bills : PaidFor(b) \in Int /\ paid[b] \in Int
                            /\ 0 <= paid[b] /\ paid[b] <= PaidFor(b)
         /\ \A u \in Residents :
              /\ PaidFrom(u) \in Int /\ Opening[u] \in Int /\ wallet[u].balance \in Int
              /\ wallet[u].balance >= Opening[u] - PaidFrom(u)
<1>1. RowsTyped /\ IsFiniteSet(Completed)
  BY DEF IInv, TypeOK, RowsTyped, Backing
<1> QED
  BY <1>1, BooksTyped, ConstantsAssumption
  DEF IInv, TypeOK, RowsOK, NeverOverpaid, Backing, NothingInvented, Wallets, WalletRow

(* A worker that does not move stays backed: the books only grow.           *)
LEMMA OthersBacked ==
  ASSUME IInv, Backing, NEW v \in Workers,
         pc'[v] = pc[v], job'[v] = job[v], mem'[v] = mem[v],
         \A b \in Bills : PaidFor(b)' \in Int /\ PaidFor(b) <= PaidFor(b)',
         \A u \in Residents : PaidFrom(u)' \in Int /\ PaidFrom(u) <= PaidFrom(u)'
  PROVE  BackedFor(v)'
<1>1. mem[v].amount \in Int /\ mem[v].paid \in Int /\ mem[v].own.balance \in Int
  BY MemTypes DEF WalletRow
<1>2. JobOK(v) /\ BackedFor(v)
  BY DEF IInv, WorkerOK, Backing
<1>3. pc[v] \in Paying \/ Added(v) =>
        job[v].bill \in Bills /\ job[v].user \in Residents
  BY <1>2, PayTypes, ConstantsAssumption DEF JobOK, Added, ClusterJob
<1>4. pc[v] = "save" => job[v].bill \in Bills
  BY <1>2 DEF JobOK, EditJob
<1>5. Added(v)' <=> Added(v)
  BY DEF Added
<1> QED
  BY <1>1, <1>2, <1>3, <1>4, <1>5, BackingTypes DEF BackedFor, Paying

(* While no payment completes, the books stand, and only a worker that      *)
(* moves can come to hold a copy that is not backed.                        *)
LEMMA BackingKept ==
  ASSUME IInv, Backing, UNCHANGED payments,
         \A b \in Bills : paid'[b] <= PaidFor(b),
         \A u \in Residents : wallet'[u] = wallet[u],
         \A v \in Workers : \/ pc'[v] = pc[v] /\ job'[v] = job[v] /\ mem'[v] = mem[v]
                            \/ BackedFor(v)'
  PROVE  Backing'
<1>1. /\ Completed' = Completed
      /\ \A b : PaidFor(b)' = PaidFor(b)
      /\ \A u : PaidFrom(u)' = PaidFrom(u)
  BY BooksKept
<1>2. NothingInvented'
  BY <1>1 DEF Backing, NothingInvented
<1>3. ASSUME NEW v \in Workers PROVE BackedFor(v)'
  <2>1. \A b \in Bills : PaidFor(b)' \in Int /\ PaidFor(b) <= PaidFor(b)'
    BY <1>1, BackingTypes
  <2>2. \A u \in Residents : PaidFrom(u)' \in Int /\ PaidFrom(u) <= PaidFrom(u)'
    BY <1>1, BackingTypes
  <2> QED
    BY <2>1, <2>2, OthersBacked
<1> QED
  BY <1>1, <1>2, <1>3 DEF Backing

(* A worker that has become idle shows nothing.                             *)
LEMMA IdleBacked == ASSUME NEW w \in Workers, pc'[w] = "idle" PROVE BackedFor(w)'
  BY DEF BackedFor, Added, Paying, Closing

(* The copy a request starts with shows what the bill does.                 *)
LEMMA ReceiveBacking ==
  ASSUME IInv, Backing, NEW w \in Workers, Receive(w)
  PROVE  Backing'
<1> USE ConstantsAssumption
<1>1. \A b : PaidFor(b)' = PaidFor(b)
  BY BooksKept DEF Receive, db
<1>2. ASSUME NEW j \in ClusterJob, job' = [job EXCEPT ![w] = j], Goto(w, "load_cluster")
      PROVE  BackedFor(w)'
  <2>1. pc'[w] = "load_cluster" /\ job'[w] = j /\ j.op # "pay"
    BY <1>2 DEF Goto, IInv, TypeOK, ClusterJob
  <2> QED
    BY <2>1 DEF BackedFor, Added, Paying, Closing
<1>3. ASSUME NEW j \in BillJob, NEW t, job' = [job EXCEPT ![w] = j],
             mem' = [mem EXCEPT ![w].terms = t, ![w].paid = paid[j.bill]],
             Goto(w, FirstStep(j.op))
      PROVE  BackedFor(w)'
  <2>1. pc'[w] = FirstStep(j.op) /\ job'[w] = j /\ mem'[w].paid = paid[j.bill]
    BY <1>3 DEF Goto, IInv, TypeOK, Mem
  <2>2. FirstStep(j.op) \in {"load_wallet", "ack", "save"} /\ j.bill \in Bills
    BY DEF BillJob, PayJob, AckJob, EditJob, FirstStep
  <2> QED
    BY <1>1, <2>1, <2>2, BackingTypes DEF BackedFor, Added, Paying, Closing
<1>4. BackedFor(w)'
  BY <1>2, <1>3 DEF Receive
<1>5. UNCHANGED db
  BY DEF Receive
<1>6. ASSUME NEW v \in Workers \ {w}
      PROVE  pc'[v] = pc[v] /\ job'[v] = job[v] /\ mem'[v] = mem[v]
  <2>1. \E step, j, m : /\ pc' = [pc EXCEPT ![w] = step]
                         /\ job' = [job EXCEPT ![w] = j] /\ mem' = [mem EXCEPT ![w] = m]
    BY DEF Receive, Goto
  <2> QED
    BY <2>1 DEF IInv, TypeOK
<1> QED
  BY <1>4, <1>5, <1>6, BackingTypes, BackingKept DEF db

(* The steps of a request up to its commit.                                 *)
LEMMA StepBacking ==
  ASSUME IInv, Backing, NEW w \in Workers, UNCHANGED db,
         \/ LoadWallet(w) \/ Validate(w) \/ InsertTransaction(w) \/ DebitWallet(w)
         \/ UpdateBill(w) \/ LoadCluster(w) \/ WriteCluster(w) \/ Crash(w)
  PROVE  Backing'
<1> USE ConstantsAssumption
<1>1. \A v \in Workers \ {w} : pc'[v] = pc[v] /\ job'[v] = job[v] /\ mem'[v] = mem[v]
  BY DEF IInv, TypeOK, Crash, LoadWallet, Validate, InsertTransaction,
     DebitWallet, UpdateBill, LoadCluster, WriteCluster, Rollback, Done, Goto
<1> SUFFICES BackedFor(w)'
  BY <1>1, BackingTypes, BackingKept DEF db
<1>2. pc \in [Workers -> Steps] /\ mem \in [Workers -> Mem]
      /\ mem[w].own \in WalletRow /\ mem[w].own.balance \in Int
      /\ mem[w].amount \in Int /\ mem[w].paid \in Int
  BY MemTypes DEF IInv, TypeOK, WalletRow
<1>3. CASE Done(w)
  BY <1>3, DoneTypes, IdleBacked
<1>4. (\A b : PaidFor(b)' = PaidFor(b)) /\ \A u : PaidFrom(u)' = PaidFrom(u)
  BY BooksKept DEF db
<1>5. BackedFor(w) /\ JobOK(w)
  BY DEF Backing, IInv, WorkerOK
<1>6. pc[w] \in Paying \/ Added(w) =>
        job[w].op = "pay" /\ job[w].bill \in Bills /\ job[w].user \in Residents
  BY <1>5, PayTypes DEF JobOK, Added, ClusterJob
<1>7. pc[w] \in Paying \/ Added(w) =>
        /\ PaidFor(job[w].bill) \in Int /\ PaidFrom(job[w].user) \in Int
        /\ Opening[job[w].user] \in Int /\ wallet[job[w].user].balance \in Int
        /\ wallet[job[w].user].balance >= Opening[job[w].user] - PaidFrom(job[w].user)
  BY <1>6, BackingTypes
<1> USE DEF Goto, BackedFor, Added, Paying, Closing
<1>8. CASE LoadWallet(w)
  BY <1>2, <1>4, <1>5, <1>6, <1>7, <1>8 DEF LoadWallet, Mem
<1>9. CASE Validate(w) /\ ~ Done(w)
  BY <1>2, <1>4, <1>5, <1>6, <1>9 DEF Validate, Rollback, Mem
<1>10. CASE InsertTransaction(w) /\ ~ Done(w)
  BY <1>2, <1>4, <1>5, <1>6, <1>10 DEF InsertTransaction, Rollback
<1>11. CASE DebitWallet(w)
  BY <1>2, <1>4, <1>5, <1>6, <1>7, <1>11 DEF DebitWallet, Debited, Mem
<1>12. CASE UpdateBill(w) /\ ~ Done(w)
  BY <1>2, <1>4, <1>5, <1>6, <1>7, <1>12 DEF UpdateBill, Rollback, Mem
<1>13. CASE LoadCluster(w) /\ ~ Done(w)
  BY <1>2, <1>4, <1>5, <1>6, <1>13 DEF LoadCluster, Rollback, Mem
<1>14. CASE WriteCluster(w) /\ ~ Done(w)
  BY <1>2, <1>4, <1>5, <1>6, <1>14 DEF WriteCluster, Rollback, Mem
<1> QED
  BY <1>3, <1>8, <1>9, <1>10, <1>11, <1>12, <1>13, <1>14 DEF Crash, Rollback

(* A payment that completes brings in what its copies showed in advance, or *)
(* more than any row shows when it moved no money.                          *)
LEMMA CompleteBacking ==
  ASSUME IInv, Backing, NEW w \in Workers, Done(w), job[w] \in PayJob, Complete(w),
         HoldsKey(w, job[w].key), mem[w].amount > 0,
         \A c \in Bills : \/ paid'[c] = paid[c]
                          \/ c = job[w].bill /\ paid'[c] <= PaidFor(c) + mem[w].amount,
         \A u \in Residents :
           \/ wallet'[u] = wallet[u]
           \/ /\ u = job[w].user /\ wallet'[u].balance \in Int
              /\ wallet'[u].balance + mem[w].amount >= Opening[u] - PaidFrom(u)
  PROVE  Backing'
<1> DEFINE b == job[w].bill
           a == mem[w].amount
           k == job[w].key
           p == job[w].user
<1>1. b \in Bills /\ k \in Keys /\ p \in Residents /\ a \in Nat
  BY PayTypes, MemTypes
<1>2. payments[k] = None
  BY <1>1 DEF IInv, WorkerOK, KeysOK
<1>3. /\ IsFiniteSet(Completed')
      /\ \A c \in Bills : PaidFor(c)' = PaidFor(c) + (IF c = b THEN a ELSE 0)
      /\ \A u \in Residents : PaidFrom(u)' = PaidFrom(u) + (IF u = p THEN a ELSE 0)
  <2> DEFINE row == [bill |-> b, payer |-> p, amount |-> a]
  <2>1. payments' = [payments EXCEPT ![k] = row]
    BY DEF Complete
  <2>2. RowsTyped /\ IsFiniteSet(Completed)
    BY BackingTypes
  <2> HIDE DEF a, b, k, p
  <2>3. row \in PaymentRow /\ row.bill = b /\ row.payer = p /\ row.amount = a
    BY <1>1 DEF PaymentRow
  <2> HIDE DEF row
  <2> QED
    BY <1>1, <1>2, <2>1, <2>2, <2>3, Booked
<1>4. \A c \in Bills : paid'[c] = paid[c] \/ (c = b /\ paid'[c] <= PaidFor(c) + a)
  OBVIOUS
<1>5. \A u \in Residents :
           \/ wallet'[u] = wallet[u]
           \/ /\ u = p /\ wallet'[u].balance \in Int
              /\ wallet'[u].balance + a >= Opening[u] - PaidFrom(u)
  OBVIOUS
<1>6. \A v \in Workers \ {w} : pc'[v] = pc[v] /\ job'[v] = job[v] /\ mem'[v] = mem[v]
  BY DoneTypes
<1>7. BackedFor(w)'
  BY DoneTypes, IdleBacked
<1> HIDE DEF a, b, k, p
<1>8. \A c \in Bills : PaidFor(c)' \in Int /\ PaidFor(c) <= PaidFor(c)' /\ paid'[c] <= PaidFor(c)'
  BY <1>1, <1>3, <1>4, BackingTypes
<1>9. \A u \in Residents :
        /\ PaidFrom(u)' \in Int /\ PaidFrom(u) <= PaidFrom(u)'
        /\ wallet'[u].balance >= Opening[u] - PaidFrom(u)'
  BY <1>1, <1>3, <1>5, BackingTypes
<1>10. \A v \in Workers \ {w} : BackedFor(v)'
  BY <1>6, <1>8, <1>9, OthersBacked
<1> QED
  BY <1>3, <1>7, <1>8, <1>9, <1>10 DEF Backing, NothingInvented

LEMMA CommitBacking ==
  ASSUME IInv, Backing, NEW w \in Workers, Commit(w)
  PROVE  Backing'
<1> USE ConstantsAssumption
<1>1. /\ pc[w] = "commit" /\ Done(w) /\ WorkerOK(w) /\ BackedFor(w)
      /\ wallet \in [Wallets -> WalletRow \cup {None}] /\ paid \in [Bills -> Int]
  BY DEF Commit, IInv, TypeOK, Backing
<1>2. job[w] \in PayJob \cup ClusterJob
  BY <1>1 DEF WorkerOK, JobOK, Closing
<1>3. CASE job[w].op = "pay"
  <2>1. job[w] \in PayJob /\ Added(w) /\ Complete(w)
    BY <1>1, <1>2, <1>3 DEF ClusterJob, Added, Closing, Commit
  <2>2. job[w].user \in Residents /\ job[w].bill \in Bills /\ HoldsKey(w, job[w].key)
    BY <1>1, <2>1, PayTypes DEF HoldsKey
  <2>3. /\ mem[w].amount > 0 /\ mem[w].paid <= PaidFor(job[w].bill) + mem[w].amount
        /\ mem[w].own.balance \in Int
        /\ mem[w].own.balance + mem[w].amount >= Opening[job[w].user] - PaidFrom(job[w].user)
    BY <1>1, <2>1, MemTypes DEF WorkerOK, CopiesOK, BackedFor, WalletRow
  <2>4. \A c \in Bills : paid'[c] = IF c = job[w].bill THEN mem[w].paid ELSE paid[c]
    BY <1>1, <1>3 DEF Commit
  <2>5. \A u \in Residents : wallet'[u] = IF u = job[w].user THEN mem[w].own ELSE wallet[u]
    BY <1>1, <1>3, <2>2 DEF Commit, Wallets
  <2>6. \A c \in Bills : \/ paid'[c] = paid[c]
                         \/ c = job[w].bill /\ paid'[c] <= PaidFor(c) + mem[w].amount
    BY <2>3, <2>4
  <2>7. \A u \in Residents :
           \/ wallet'[u] = wallet[u]
           \/ /\ u = job[w].user /\ wallet'[u].balance \in Int
              /\ wallet'[u].balance + mem[w].amount >= Opening[u] - PaidFrom(u)
    BY <2>3, <2>5
  <2>8. Done(w) /\ mem[w].amount > 0
    BY <1>1, <2>3
  <2> QED
    BY <2>1, <2>2, <2>6, <2>7, <2>8, CompleteBacking
<1>4. CASE job[w].op # "pay"
  <2>1. UNCHANGED <<paid, payments>> /\ \A u \in Residents : wallet'[u] = wallet[u]
    BY <1>1, <1>4 DEF Commit, Wallets
  <2>2. \A v \in Workers : \/ pc'[v] = pc[v] /\ job'[v] = job[v] /\ mem'[v] = mem[v]
                           \/ BackedFor(v)'
    BY <1>1, DoneTypes, IdleBacked
  <2> QED
    BY <2>1, <2>2, BackingTypes, BackingKept
<1> QED
  BY <1>3, <1>4

(* The other ends of requests: an account that is gone, an acknowledgement, *)
(* an edit that writes back what its copy shows.                            *)
LEMMA EndBacking ==
  ASSUME IInv, Backing, NEW w \in Workers, Finish(w) \/ Acknowledge(w) \/ Save(w)
  PROVE  Backing'
<1>1. WorkerOK(w) /\ BackedFor(w) /\ paid \in [Bills -> Int]
  BY DEF IInv, TypeOK, Backing
<1>2. CASE Finish(w)
  <2>1. job[w] \in PayJob /\ HoldsKey(w, job[w].key) /\ mem[w].amount > 0
    BY <1>1, <1>2, PayTypes DEF Finish, WorkerOK, JobOK, CopiesOK, HoldsKey
  <2>2. Done(w) /\ Complete(w) /\ UNCHANGED <<wallet, paid>>
    BY <1>2 DEF Finish
  <2>3. (\A c \in Bills : paid'[c] = paid[c]) /\ \A u \in Residents : wallet'[u] = wallet[u]
    BY <2>2
  <2> QED
    BY <2>1, <2>2, <2>3, CompleteBacking
<1>3. CASE Acknowledge(w) \/ Save(w)
  <2>1. Done(w) /\ UNCHANGED <<wallet, payments>>
    BY <1>3 DEF Acknowledge, Save
  <2>2. \A b \in Bills : paid'[b] = paid[b] \/ paid'[b] <= PaidFor(b)
    BY <1>1, <1>3 DEF Acknowledge, Save, BackedFor
  <2>3. \A v \in Workers : \/ pc'[v] = pc[v] /\ job'[v] = job[v] /\ mem'[v] = mem[v]
                           \/ BackedFor(v)'
    BY <2>1, DoneTypes, IdleBacked
  <2>4. \A b \in Bills : paid'[b] <= PaidFor(b)
    BY <2>2, BackingTypes
  <2> QED
    BY <2>1, <2>3, <2>4, BackingKept
<1> QED
  BY <1>2, <1>3

(* A bill that is deleted shows nothing, and nobody's books are negative.   *)
LEMMA DeskBacking ==
  ASSUME IInv, Backing, (\E w \in Workers : Desk(w)) \/ Tick \/ UNCHANGED vars
  PROVE  Backing'
<1>1. UNCHANGED <<wallet, payments, pc, job, mem>>
  BY DEF Desk, Create, Delete, Leave, Tick, vars, db
<1>2. \A b \in Bills : paid'[b] = paid[b] \/ paid'[b] = 0
  BY DEF Desk, Create, Delete, Leave, Tick, vars, db, IInv, TypeOK
<1>3. \A b \in Bills : paid'[b] <= PaidFor(b)
  BY <1>2, BackingTypes
<1> QED
  BY <1>1, <1>3, BackingKept

LEMMA NextBacking == IInv /\ Backing /\ [Next]_vars => Backing'
<1> SUFFICES ASSUME IInv, Backing, [Next]_vars PROVE Backing'
  OBVIOUS
<1>1. ASSUME NEW w \in Workers, Serve(w) \/ Crash(w) PROVE Backing'
  <2>1. UNCHANGED db \/ Commit(w) \/ Finish(w) \/ Acknowledge(w) \/ Save(w)
    BY <1>1 DEF Serve, Crash, LoadWallet, Validate, InsertTransaction, DebitWallet,
                UpdateBill, LoadCluster, WriteCluster, Rollback
  <2> QED
    BY <1>1, <2>1, StepBacking, CommitBacking, EndBacking DEF Serve
<1> QED
  BY <1>1, ReceiveBacking, DeskBacking DEF Next

(* No interleaving of payments and edits that save stale copies makes a     *)
(* bill show money that no completed transaction brought in, nor takes more *)
(* from a wallet than the completed payments: for any number of workers,    *)
(* bills and keys, the anomalies of BillPayments only ever forget money.    *)
THEOREM MoneyIsNotInvented == Spec => []NothingInvented
<1>1. IInv /\ Backing /\ [Next]_vars => Backing'
  BY NextBacking
<1>2. Backing => NothingInvented
  BY DEF Backing
<1> QED
  BY <1>1, <1>2, InitBacking, Invariance, PTL DEF Spec

-----------------------------------------------------------------------------
(* The ledger books a payment in one step: to the bill, to the transactions *)
(* and against the wallet.  What becomes of the terms of a bill touches no  *)
(* book, and a bill is posted with clean ones.                              *)
LedgerTyped ==
    /\ wallet \in [Wallets -> WalletRow \cup {None}]
    /\ \A u \in Residents : wallet[u] # None
    /\ terms \in [Bills -> Terms \cup {None}]
    /\ paid \in [Bills -> Int]
    /\ RowsTyped

LedgerInv ==
    /\ LedgerTyped /\ IsFiniteSet(Completed) /\ BooksAgree
    /\ \A b \in Bills : terms[b] = None => paid[b] = 0

LEMMA InitLedgerInv == Ledger!Init => LedgerInv
<1> SUFFICES ASSUME Ledger!Init PROVE LedgerInv
  OBVIOUS
<1> USE ConstantsAssumption DEF Ledger!Init, Ledger!Wallets
<1>1. LedgerTyped
  BY DEF LedgerTyped, RowsTyped, Wallets, WalletRow
<1>2. Completed = {}
  BY DEF Completed
<1>3. IsFiniteSet(Completed)
  BY <1>2, FS_EmptySet
<1>4. \A u : PaidFrom(u) = 0
  <2>1. SumFunctionOnSet(Charge, {}) = 0
    BY FS_EmptySet, SumStep
  <2>2. \A u : {k \in Completed : payments[k].payer = u} = {}
    BY <1>2
  <2> QED
    BY <2>1, <2>2 DEF PaidFrom
<1>5. BooksAgree
  BY <1>4 DEF BooksAgree, NoLostPayment, Wallets
<1> QED
  BY <1>1, <1>3, <1>5 DEF LedgerInv

LEMMA PayLedgerInv ==
  ASSUME LedgerInv, NEW k \in Keys, NEW b \in Bills, NEW p \in Residents, Ledger!Pay(k, b, p)
  PROVE  LedgerInv'
<1> USE ConstantsAssumption
<1>1. PICK a \in 1 .. terms[b].amount - paid[b] :
        /\ wallet' = [wallet EXCEPT ![p] = Ledger!Shift(@, -a),
                                    ![Cluster] = Ledger!Shift(Ledger!ClusterRow, a)]
        /\ paid' = [paid EXCEPT ![b] = @ + a]
        /\ payments' = [payments EXCEPT ![k] = [bill |-> b, payer |-> p, amount |-> a]]
  BY DEF Ledger!Pay
<1>2. a \in Nat /\ payments[k] = None /\ terms[b] # None /\ UNCHANGED terms
  BY DEF Ledger!Pay
<1>3. /\ wallet \in [Wallets -> WalletRow \cup {None}] /\ paid \in [Bills -> Int]
      /\ payments \in [Keys -> PaymentRow \cup {None}] /\ RowsTyped
      /\ None \notin WalletRow
      /\ \A u \in Residents : u \in Wallets /\ u # Cluster /\ wallet[u] \in WalletRow
      /\ wallet[Cluster] # None => wallet[Cluster] \in WalletRow
  BY DEF LedgerInv, LedgerTyped, RowsTyped, Wallets
<1>4. /\ Ledger!ClusterRow \in WalletRow
      /\ \A row \in WalletRow, x \in Int : Ledger!Shift(row, x) \in WalletRow
  BY <1>3 DEF Ledger!ClusterRow, Ledger!Shift, WalletRow
<1>5. /\ IsFiniteSet(Completed')
      /\ \A c \in Bills : PaidFor(c)' = PaidFor(c) + (IF c = b THEN a ELSE 0)
      /\ \A u \in Residents : PaidFrom(u)' = PaidFrom(u) + (IF u = p THEN a ELSE 0)
  <2>1. RowsTyped /\ IsFiniteSet(Completed) /\ payments[k] = None /\ a \in Nat
    BY <1>2, <1>3 DEF LedgerInv
  <2> DEFINE row == [bill |-> b, payer |-> p, amount |-> a]
  <2>2. payments' = [payments EXCEPT ![k] = row]
    BY <1>1
  <2>3. row \in PaymentRow /\ row.bill = b /\ row.payer = p /\ row.amount = a
    BY <2>1 DEF PaymentRow
  <2> HIDE DEF row
  <2> QED
    BY <2>1, <2>2, <2>3, Booked
<1>6. LedgerTyped'
  <2>1. wallet' \in [Wallets -> WalletRow \cup {None}] /\ \A u \in Residents : wallet'[u] # None
    <3>1. wallet'[p] \in WalletRow /\ wallet'[Cluster] \in WalletRow
      BY <1>1, <1>3, <1>4 DEF Wallets
    <3> QED
      BY <1>1, <1>3, <3>1 DEF Wallets
  <2>2. paid' \in [Bills -> Int] /\ terms' \in [Bills -> Terms \cup {None}]
    BY <1>1, <1>2, <1>3 DEF LedgerInv, LedgerTyped
  <2>3. RowsTyped'
    BY <1>1, <1>2, <1>3 DEF RowsTyped, PaymentRow
  <2> QED
    BY <2>1, <2>2, <2>3 DEF LedgerTyped
<1>7. NoLostPayment' /\ \A c \in Bills : (terms[c] = None => paid[c] = 0)'
  BY <1>1, <1>2, <1>3, <1>5, BooksTyped DEF LedgerInv, BooksAgree, NoLostPayment
<1>8. ASSUME NEW u \in Residents PROVE wallet'[u].balance = Opening[u] - PaidFrom(u)'
  <2>1. wallet[u].balance \in Int /\ Opening[u] \in Int /\ PaidFrom(u) \in Int
    BY <1>3, BooksTyped DEF LedgerInv, WalletRow
  <2>2. wallet[u].balance = Opening[u] - PaidFrom(u)
    BY DEF LedgerInv, BooksAgree
  <2>3. wallet'[u].balance = IF u = p THEN wallet[u].balance + (-a) ELSE wallet[u].balance
    BY <1>1, <1>3 DEF Ledger!Shift
  <2> QED
    BY <1>5, <2>1, <2>2, <2>3
<1> QED
  BY <1>5, <1>6, <1>7, <1>8 DEF LedgerInv, BooksAgree

(* Posting, editing and withdrawing a bill.                                 *)
LEMMA TermsLedgerInv ==
  ASSUME LedgerInv, NEW b \in Bills, Ledger!Post(b) \/ Ledger!Revise(b) \/ Ledger!Withdraw(b)
  PROVE  LedgerInv'
<1> USE ConstantsAssumption
<1>1. /\ UNCHANGED <<wallet, payments>>
      /\ \E t \in Asked \cup {None} : terms' = [terms EXCEPT ![b] = t]
      /\ Asked \subseteq Terms
  BY DEF Ledger!Post, Ledger!Revise, Ledger!Withdraw
<1>2. paid' = [paid EXCEPT ![b] = paid'[b]] /\ paid'[b] \in Int
      /\ (terms'[b] = None => paid'[b] = 0)
      /\ (terms'[b] # None => paid'[b] = PaidFor(b))
  <2>1. CASE Ledger!Post(b)
    BY <2>1, NothingBooked
    DEF Ledger!Post, LedgerInv, LedgerTyped, Completed
  <2>2. CASE Ledger!Revise(b)
    BY <2>2 DEF Ledger!Revise, LedgerInv, LedgerTyped, BooksAgree, NoLostPayment
  <2>3. CASE Ledger!Withdraw(b)
    BY <2>3 DEF Ledger!Withdraw, LedgerInv, LedgerTyped
  <2> QED
    BY <2>1, <2>2, <2>3
<1>3. LedgerTyped'
  BY <1>1, <1>2 DEF LedgerInv, LedgerTyped, RowsTyped
<1>4. \A c \in Bills \ {b} : terms'[c] = terms[c] /\ paid'[c] = paid[c]
  BY <1>1, <1>2 DEF LedgerInv, LedgerTyped
<1>5. /\ Completed' = Completed
      /\ \A c : PaidFor(c)' = PaidFor(c)
      /\ \A u : PaidFrom(u)' = PaidFrom(u)
  BY <1>1, BooksKept
<1>6. NoLostPayment' /\ \A c \in Bills : (terms[c] = None => paid[c] = 0)'
  BY <1>2, <1>4, <1>5 DEF LedgerInv, BooksAgree, NoLostPayment
<1> QED
  BY <1>1, <1>3, <1>5, <1>6 DEF LedgerInv, BooksAgree

(* The ledger's own books agree: bills and wallets show every completed     *)
(* payment, once and in full, whatever becomes of the terms of the bills.   *)
THEOREM LedgerKeepsBooks == Ledger!Spec => []BooksAgree
<1>1. LedgerInv /\ [Ledger!Next]_(Ledger!vars) => LedgerInv'
  <2> SUFFICES ASSUME LedgerInv, [Ledger!Next]_(Ledger!vars) PROVE LedgerInv'
    OBVIOUS
  <2>1. CASE \/ Ledger!Credit \/ Ledger!Transfer \/ UNCHANGED Ledger!vars
             \/ \E b \in Bills : Ledger!Acknowledge(b)
             \/ \E u \in Residents : Ledger!Leave(u)
    <3>1. /\ UNCHANGED <<terms, paid, payments>>
          /\ \A u \in Residents : wallet'[u] = wallet[u]
          /\ wallet' \in [Wallets -> WalletRow \cup {None}]
      BY <2>1, ConstantsAssumption DEF LedgerInv, LedgerTyped, Wallets, WalletRow,
         Ledger!Credit, Ledger!Transfer, Ledger!Acknowledge, Ledger!Leave,
         Ledger!vars, Ledger!Shift, Ledger!ClusterRow
    <3> QED
      BY <3>1, BooksKept DEF LedgerInv, LedgerTyped, RowsTyped, BooksAgree, NoLostPayment
  <2> QED
    BY <2>1, PayLedgerInv, TermsLedgerInv DEF Ledger!Next
<1>2. LedgerInv => BooksAgree
  BY DEF LedgerInv
<1> QED
  BY <1>1, <1>2, InitLedgerInv, PTL DEF Ledger!Spec

(* A worker that is alone keeps them too, wherever it dies and whatever     *)
(* request is sent again: it implements the ledger.                         *)
THEOREM OneWorkerKeepsBooks == ASSUME OneWorker PROVE Spec => []BooksAgree
  BY OneWorkerImplementsLedger, LedgerKeepsBooks, PTL DEF ImplementsLedger
=============================================================================
