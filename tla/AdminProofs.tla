------------------------------ MODULE AdminProofs ------------------------------
(***************************************************************************)
(* AdminAccess for any gateways with any guards and clocks, any links and  *)
(* any number of commands and keys: that a signed link dies (LinksDie) and *)
(* opens what was signed (LinksTrue); its types (TypeCorrect); that what a *)
(* command says of a key is so (RevocationsReported); and that a listing   *)
(* is whole (ListingsHonest).                                              *)
(***************************************************************************)
EXTENDS AdminAccess, FiniteSetTheorems, WellFoundedInduction, TLAPS

-----------------------------------------------------------------------------
(* Links.                                                                  *)

\* The part of AdminNext that is a step of the links: none.
LEMMA AdminLeavesLinks ==
  ASSUME AdminNext PROVE UNCHANGED links
BY DEF AdminNext, Type, Response, Lost, Hears, NoRoute, Denied, Answers, ListStarts, ListLooksUp,
       ListThrows, ListEnds, RevokeLooksUp, RevokeDeletes, RevokeThrows, Proceeds, Issue, Sweep, links

\* A set of numbers has a least one.
LEMMA Least ==
  ASSUME NEW T \in SUBSET Nat, T # {}
  PROVE  \E m \in T : \A n \in T : m <= n
<1>1. PICK x \in T : \A y \in T : ~ (<<y, x>> \in OpToRel(<, Nat))
  BY NatLessThanWellFounded, WFMin
<1>2. ASSUME NEW y \in T PROVE ~ (y < x)
  <2>1. <<y, x>> \in OpToRel(<, Nat) <=> y < x
    BY DEF OpToRel
  <2> QED
    BY <1>1, <2>1, Zenon
<1> QED
  BY <1>2

\* Induction, for a set of numbers.
LEMMA Induction ==
  ASSUME NEW T \in SUBSET Nat, 0 \in T, \A n \in T : n + 1 \in T
  PROVE  T = Nat
<1>1. SUFFICES ASSUME Nat \ T # {} PROVE FALSE
  OBVIOUS
<1>2. PICK m \in Nat \ T : \A n \in Nat \ T : m <= n
  BY <1>1, Least
<1>3. m # 0 /\ m - 1 \in Nat
  BY <1>2
<1>4. m - 1 \in T
  BY <1>2, <1>3
<1> QED
  BY <1>2, <1>4

-----------------------------------------------------------------------------
(* The text that is signed.                                                *)

\* A sequence that has every parameter once has no others.
LEMMA RangeOfQuery ==
  ASSUME NEW params, IsFiniteSet(params), NEW query \in SetToSeqs(params)
  PROVE  Range(query) = params /\ query \in Seq(params)
<1> DEFINE D == 1..Cardinality(params)
<1>1. Cardinality(params) \in Nat
  BY FS_CardinalityType
<1>2. query \in [D -> params] /\ \A i, j \in D : i # j => query[i] # query[j]
  BY DEF SetToSeqs
<1>3. query \in Injection(D, params)
  BY <1>2 DEF Injection, IsInjective
<1>4. Cardinality(D) = Cardinality(params)
  BY <1>1, FS_Interval
<1>5. query \in Surjection(D, params)
  BY <1>3, <1>4, FS_Injection
<1>6. Range(query) = params
  BY <1>5 DEF Surjection, Range
<1> QED
  BY <1>1, <1>2, <1>6

LEMMA SetToSeqIsQuery ==
  ASSUME NEW params, IsFiniteSet(params)
  PROVE  SetToSeq(params) \in SetToSeqs(params)
<1> DEFINE D == 1..Cardinality(params)
<1>1. PICK f \in Bijection(D, params) : TRUE
  BY FS_CardinalityType DEF ExistsBijection
<1>2. f \in [D -> params] /\ IsInjective(f)
  BY <1>1 DEF Bijection, Injection
<1>3. SetToSeq(params) \in [D -> params] /\ IsInjective(SetToSeq(params))
  BY <1>2 DEF SetToSeq
<1> QED
  BY <1>3 DEF SetToSeqs, IsInjective

\* Parameters of different names.
Apart(params) ==
  /\ IsFiniteSet(params)
  /\ \A p \in params : p[1] \in Nat
  /\ \A p, q \in params : p[1] = q[1] => p = q

Ordered(s) == \A i, j \in DOMAIN s : i < j => s[i][1] < s[j][1]

\* The parameter of the least name goes before the others, sorted.
LEMMA SortOneMore ==
  ASSUME NEW n \in Nat, NEW params, Apart(params), Cardinality(params) = n + 1,
         \A others : Apart(others) /\ Cardinality(others) = n =>
           \E s \in SetToSeqs(others) : Ordered(s)
  PROVE  \E s \in SetToSeqs(params) : Ordered(s)
<1>1. IsFiniteSet(params) /\ params # {}
  BY FS_EmptySet DEF Apart
<1>2. PICK p \in params : \A q \in params : p[1] <= q[1]
  <2> DEFINE names == {q[1] : q \in params}
  <2>1. names \in SUBSET Nat /\ names # {}
    BY <1>1 DEF Apart
  <2>2. PICK m \in names : \A k \in names : m <= k
    BY <2>1, Least
  <2> QED
    BY <2>2
<1> DEFINE others == params \ {p}
<1>3. IsFiniteSet(others) /\ Cardinality(others) = n
  BY <1>1, FS_RemoveElement
<1>4. Apart(others)
  BY <1>3 DEF Apart
<1>5. PICK s \in SetToSeqs(others) : Ordered(s)
  BY <1>3, <1>4
<1>6. s \in [1..n -> others] /\ \A i, j \in 1..n : i # j => s[i] # s[j]
  BY <1>3, <1>5 DEF SetToSeqs
<1> DEFINE t == [i \in 1..n + 1 |-> IF i = 1 THEN p ELSE s[i - 1]]
<1>7. \A i \in 1..n + 1 : i # 1 => i - 1 \in 1..n
  OBVIOUS
<1>8. t[1] = p /\ \A i \in 1..n + 1 : i # 1 => t[i] = s[i - 1] /\ s[i - 1] \in others
  BY <1>6, <1>7
<1>9. \A q \in others : q # p /\ q \in params
  OBVIOUS
<1>10. t \in [1..n + 1 -> params]
  BY <1>8, <1>9
<1>11. ASSUME NEW i \in 1..n + 1, NEW j \in 1..n + 1, i < j
       PROVE  t[i] # t[j] /\ t[i][1] < t[j][1]
  <2>1. j # 1 /\ t[j] = s[j - 1] /\ t[j] \in others /\ j - 1 \in 1..n
    BY <1>7, <1>8, <1>11
  <2>2. CASE i = 1
    <3>1. t[i] = p /\ t[j] # p /\ t[j] \in params
      BY <1>8, <1>9, <2>1, <2>2
    <3>2. p[1] # t[j][1] /\ p[1] <= t[j][1] /\ p[1] \in Nat /\ t[j][1] \in Nat
      BY <1>2, <3>1 DEF Apart
    <3> HIDE DEF t
    <3> QED
      BY <3>1, <3>2
  <2>3. CASE i # 1
    <3>1. t[i] = s[i - 1] /\ i - 1 \in 1..n /\ i - 1 < j - 1
      BY <1>7, <1>8, <1>11, <2>3
    <3>2. s[i - 1] # s[j - 1]
      BY <1>6, <2>1, <3>1
    <3>3. DOMAIN s = 1..n
      BY <1>6
    <3>4. s[i - 1][1] < s[j - 1][1]
      BY <1>5, <2>1, <3>1, <3>3 DEF Ordered
    <3> HIDE DEF t
    <3> QED
      BY <2>1, <3>1, <3>2, <3>4
  <2> QED
    BY <2>2, <2>3
<1>12. DOMAIN t = 1..n + 1
  OBVIOUS
<1> HIDE DEF t
<1>13. \A i, j \in 1..n + 1 : i # j => t[i] # t[j]
  <2> SUFFICES ASSUME NEW i \in 1..n + 1, NEW j \in 1..n + 1, i # j
               PROVE  t[i] # t[j]
    OBVIOUS
  <2>1. i < j \/ j < i
    OBVIOUS
  <2> QED
    BY <1>11, <2>1
<1>14. t \in SetToSeqs(params)
  BY <1>10, <1>13 DEF SetToSeqs
<1>15. Ordered(t)
  BY <1>11, <1>12 DEF Ordered
<1> QED
  BY <1>14, <1>15

\* Parameters of different names can be sorted, however many there are.
LEMMA SortedIsQuery ==
  ASSUME NEW params, Apart(params)
  PROVE  Sorted(params) \in SetToSeqs(params)
<1> DEFINE Sortable(n) ==
             \A some : Apart(some) /\ Cardinality(some) = n =>
               \E s \in SetToSeqs(some) : Ordered(s)
           T == {n \in Nat : Sortable(n)}
<1>1. Sortable(0)
  <2> SUFFICES ASSUME NEW some, Apart(some), Cardinality(some) = 0
               PROVE  \E s \in SetToSeqs(some) : Ordered(s)
    OBVIOUS
  <2>1. << >> \in [1..Cardinality(some) -> some]
    OBVIOUS
  <2>2. << >> \in SetToSeqs(some)
    BY <2>1 DEF SetToSeqs
  <2>3. Ordered(<< >>)
    BY DEF Ordered
  <2> QED
    BY <2>2, <2>3
<1>2. ASSUME NEW n \in Nat, Sortable(n) PROVE Sortable(n + 1)
  BY <1>2, SortOneMore
<1>3. T \in SUBSET Nat /\ 0 \in T /\ \A n \in T : n + 1 \in T
  <2> HIDE DEF Sortable
  <2> QED
    BY <1>1, <1>2
<1>4. T = Nat
  <2> HIDE DEF T
  <2> QED
    BY <1>3, Induction
<1>5. Cardinality(params) \in T
  BY <1>4, FS_CardinalityType DEF Apart
<1>6. \E s \in SetToSeqs(params) : Ordered(s)
  BY <1>5
<1> QED
  BY <1>6 DEF Sorted, Ordered

\* f is the first of the places where n is given, and its value is read.
FirstAt(query, n, f) ==
  /\ query[f][1] = n
  /\ \A j \in DOMAIN query : query[j][1] = n => f <= j
  /\ Parameter(query, n) = IF query[f][2] = Nested THEN None ELSE query[f][2]

LEMMA FirstPlace ==
  ASSUME NEW V, NEW query \in Seq(Nat \X V), NEW n, NEW i \in DOMAIN query, query[i][1] = n
  PROVE  \E f \in DOMAIN query : FirstAt(query, n, f)
<1> DEFINE at == {j \in DOMAIN query : query[j][1] = n}
           f == CHOOSE k \in at : \A j \in at : k <= j
<1>1. DOMAIN query \subseteq Nat
  OBVIOUS
<1>2. at \in SUBSET Nat /\ at # {}
  BY <1>1
<1>3. \E k \in at : \A j \in at : k <= j
  BY <1>2, Least
<1>4. f \in at /\ \A j \in at : f <= j
  BY <1>3
<1>5. Parameter(query, n) = IF query[f][2] = Nested THEN None ELSE query[f][2]
  BY <1>2 DEF Parameter
<1> QED
  BY <1>4, <1>5 DEF FirstAt

\* What a gateway reads of a query are the values that are given first, and it can
\* sort them.
LEMMA ReadableIsFirst ==
  ASSUME NEW V, None \notin V, NEW query \in Seq(Nat \X V)
  PROVE  Readable(query) = FirstGiven(query) /\ Apart(Readable(query))
<1> DEFINE names == {p[1] : p \in Range(query)}
<1>1. \A i \in DOMAIN query : query[i][1] \in Nat /\ query[i][2] \in V
                              /\ query[i] = <<query[i][1], query[i][2]>>
  OBVIOUS
<1>2. DOMAIN query = 1..Len(query) /\ Len(query) \in Nat
  OBVIOUS
<1>3. ASSUME NEW p \in Readable(query) PROVE p \in FirstGiven(query)
  <2>1. PICK n \in names : Parameter(query, n) # None /\ p = <<n, Parameter(query, n)>>
    BY <1>3 DEF Readable
  <2>2. PICK i \in DOMAIN query : query[i][1] = n
    BY <2>1 DEF Range
  <2>3. PICK f \in DOMAIN query : FirstAt(query, n, f)
    BY <2>2, FirstPlace
  <2>4. query[f][2] # Nested /\ p = query[f]
    BY <1>1, <2>1, <2>3 DEF FirstAt
  <2>5. \A k \in 1..f - 1 : query[k][1] # query[f][1]
    BY <1>2, <2>3 DEF FirstAt
  <2> QED
    BY <2>4, <2>5 DEF FirstGiven
<1>4. ASSUME NEW p \in FirstGiven(query) PROVE p \in Readable(query)
  <2>1. PICK i \in DOMAIN query : /\ p = query[i] /\ query[i][2] # Nested
                                  /\ \A k \in 1..i - 1 : query[k][1] # query[i][1]
    BY <1>4 DEF FirstGiven
  <2> DEFINE n == query[i][1]
  <2>2. PICK f \in DOMAIN query : FirstAt(query, n, f)
    BY FirstPlace
  <2>3. f = i
    <3>1. f <= i /\ f \notin 1..i - 1
      BY <2>1, <2>2 DEF FirstAt
    <3> QED
      BY <1>2, <3>1
  <2>4. Parameter(query, n) = query[i][2] /\ query[i][2] \in V
    BY <1>1, <2>1, <2>2, <2>3 DEF FirstAt
  <2>5. n \in names
    BY DEF Range
  <2>6. p = <<n, Parameter(query, n)>>
    BY <1>1, <2>1, <2>4
  <2> QED
    BY <2>4, <2>5, <2>6 DEF Readable
<1>5. \A p \in Readable(query) : p[1] \in names /\ p = <<p[1], Parameter(query, p[1])>>
  <2> SUFFICES ASSUME NEW p \in Readable(query)
               PROVE  p[1] \in names /\ p = <<p[1], Parameter(query, p[1])>>
    OBVIOUS
  <2>1. PICK n \in names : p = <<n, Parameter(query, n)>>
    BY DEF Readable
  <2>2. p[1] = n
    BY <2>1
  <2> QED
    BY <2>1, <2>2
<1>6. \A p \in Readable(query) : p[1] \in Nat
  BY <1>1, <1>5 DEF Range
<1>7. \A p, q \in Readable(query) : p[1] = q[1] => p = q
  <2> HIDE DEF names
  <2> QED
    BY <1>5
<1>8. IsFiniteSet(Readable(query))
  <2>1. IsFiniteSet(DOMAIN query)
    BY <1>2, FS_Interval
  <2>2. query \in Surjection(DOMAIN query, Range(query))
    BY DEF Surjection, Range
  <2>3. IsFiniteSet(Range(query))
    BY <2>1, <2>2, FS_Surjection
  <2>4. Readable(query) \subseteq Range(query)
    BY <1>3 DEF FirstGiven, Range
  <2> QED
    BY <2>3, <2>4, FS_Subset
<1> QED
  BY <1>3, <1>4, <1>6, <1>7, <1>8 DEF Apart

\* The text of a query tells its path and what is read of it, and no more.
LEMMA TextOfQuery ==
  ASSUME NEW V, None \notin V, NEW query \in Seq(Nat \X V), NEW path
  PROVE  /\ Canonical(path, query) = <<path, Sorted(Readable(query))>>
         /\ Range(Sorted(Readable(query))) = Readable(query)
<1>1. Apart(Readable(query))
  BY ReadableIsFirst
<1>2. Range(Sorted(Readable(query))) = Readable(query)
  BY <1>1, SortedIsQuery, RangeOfQuery DEF Apart
<1> QED
  BY <1>2 DEF Canonical

\* The parameters of a link.
LEMMA Parameters ==
  ASSUME NEW t \in Int, NEW params \in ParameterSets(t)
  PROVE  /\ params \subseteq Names \X (Values \cup Int)
         /\ <<Ts, t>> \in params
         /\ \A p \in params : p[1] = Ts => p[2] = t
         /\ Apart(params)
<1>1. PICK others \in Remainders : params = {<<Ts, t>>} \cup others
  BY DEF ParameterSets
<1>2. /\ others \subseteq (Names \ {Ts}) \X Values
      /\ IsFiniteSet(others) /\ \A p, q \in others : p[1] = q[1] => p = q
  BY DEF Remainders
<1>3. \A p \in others : p[1] \in Names /\ p[1] # Ts /\ p \in Names \X (Values \cup Int)
  BY <1>2
<1>4. <<Ts, t>> \in Names \X (Values \cup Int)
  BY AuthAssumption
<1>5. IsFiniteSet(params)
  <2>1. params = others \cup {<<Ts, t>>}
    BY <1>1
  <2> QED
    BY <1>2, <2>1, FS_AddElement
<1>6. \A p, q \in params : p[1] = q[1] => p = q
  BY <1>1, <1>2, <1>3
<1>7. \A p \in params : p[1] \in Nat
  <2>1. Names \subseteq Nat
    BY AuthAssumption
  <2>2. \A p \in params : p[1] \in Names
    BY <1>1, <1>3, <1>4
  <2> QED
    BY <2>1, <2>2
<1> QED
  BY <1>1, <1>3, <1>4, <1>5, <1>6, <1>7 DEF Apart

LEMMA QueriesAreQueries ==
  ASSUME NEW t \in Int, NEW query \in Queries(t)
  PROVE  query \in Seq(Nat \X (Values \cup Int \cup {Nested}))
<1> DEFINE W == ((Names \ {Ts}) \X (Values \cup {Nested})) \cup ({Ts} \X {t, t + 1, Nested})
<1>1. W \subseteq Nat \X (Values \cup Int \cup {Nested})
  <2>1. Names \subseteq Nat /\ Ts \in Nat /\ t + 1 \in Int
    BY AuthAssumption
  <2>2. \A n \in Names \ {Ts}, v \in Values \cup {Nested} :
          <<n, v>> \in Nat \X (Values \cup Int \cup {Nested})
    BY <2>1
  <2>3. \A v \in {t, t + 1, Nested} : <<Ts, v>> \in Nat \X (Values \cup Int \cup {Nested})
    BY <2>1
  <2>4. \A p \in W : (\E n \in Names \ {Ts}, v \in Values \cup {Nested} : p = <<n, v>>)
                     \/ \E v \in {t, t + 1, Nested} : p = <<Ts, v>>
    OBVIOUS
  <2> QED
    BY <2>2, <2>3, <2>4
<1>2. PICK m \in 0..MaxGiven : query \in [1..m -> W]
  BY DEF Queries, BoundedSeq, SeqOf
<1> HIDE DEF W
<1>3. query \in [1..m -> Nat \X (Values \cup Int \cup {Nested})]
  BY <1>1, <1>2
<1> QED
  BY <1>3, AuthAssumption

\* A link is signed as its path and its parameters, which is never the absence of a
\* signature.
LEMMA SignatureIsText ==
  ASSUME NEW link, link.path \in Paths, link.ts \in Int, link.params \in ParameterSets(link.ts)
  PROVE  /\ Signature(link) = <<link.path, Sorted(link.params)>>
         /\ Range(Sorted(link.params)) = link.params
         /\ Signature(link) # None
<1> DEFINE params == link.params
           query == SetToSeq(params)
<1>1. params \subseteq Names \X (Values \cup Int) /\ Apart(params)
  BY Parameters
<1>2. IsFiniteSet(params)
  BY <1>1 DEF Apart
<1>3. query \in SetToSeqs(params)
  BY <1>2, SetToSeqIsQuery
<1>4. Range(query) = params /\ query \in Seq(params)
  BY <1>2, <1>3, RangeOfQuery
<1>5. Sorted(params) \in SetToSeqs(params)
  BY <1>1, SortedIsQuery
<1>6. Range(Sorted(params)) = params /\ Sorted(params) \in Seq(params)
  BY <1>2, <1>5, RangeOfQuery
<1>7. Readable(query) = params
  <2>1. query \in Seq(Nat \X (Values \cup Int)) /\ None \notin Values \cup Int
    <3>1. Names \X (Values \cup Int) \subseteq Nat \X (Values \cup Int)
      BY AuthAssumption
    <3>2. params \subseteq Nat \X (Values \cup Int)
      BY <1>1, <3>1
    <3> QED
      BY <1>4, <3>2, AuthAssumption
  <2>2. Readable(query) = FirstGiven(query)
    BY <2>1, ReadableIsFirst
  <2>3. DOMAIN query = 1..Cardinality(params)
        /\ \A i, j \in DOMAIN query : i # j => query[i] # query[j]
    BY <1>3 DEF SetToSeqs
  <2>4. \A p \in params : p[2] # Nested
    BY <1>1, AuthAssumption
  <2>5. \A i \in DOMAIN query : query[i] \in params
    BY <1>4 DEF Range
  <2>6. Cardinality(params) \in Nat
    BY <1>2, FS_CardinalityType
  <2>7. \A i, j \in DOMAIN query : i # j => query[i][1] # query[j][1]
    BY <1>1, <2>3, <2>5 DEF Apart
  <2>8. ASSUME NEW i \in DOMAIN query
        PROVE  query[i][2] # Nested /\ \A k \in 1..i - 1 : query[k][1] # query[i][1]
    <3>1. \A k \in 1..i - 1 : k \in DOMAIN query /\ k # i
      BY <2>3, <2>6
    <3> QED
      BY <2>4, <2>5, <2>7, <3>1
  <2>9. FirstGiven(query) = {query[i] : i \in DOMAIN query}
    BY <2>8 DEF FirstGiven
  <2> QED
    BY <1>4, <2>2, <2>9 DEF Range
<1>8. Signature(link) = <<link.path, Sorted(params)>>
  BY <1>7 DEF Signature, Canonical
<1>9. Sorted(params) \in Seq(Names \X (Values \cup Int))
  BY <1>1, <1>6
<1> QED
  BY <1>6, <1>8, <1>9, AbsenceAssumption

\* A signature is that of a query when the path is its own, and what is given first
\* are its parameters.
LEMMA SignatureOf ==
  ASSUME NEW link, link.path \in Paths, link.ts \in Int, link.params \in ParameterSets(link.ts),
         NEW path, NEW query \in Queries(link.ts)
  PROVE  /\ Signature(link) = Canonical(path, query)
              <=> path = link.path /\ FirstGiven(query) = link.params
         /\ FirstGiven(query) = link.params => Parameter(query, Ts) = link.ts
<1> DEFINE V == Values \cup Int \cup {Nested}
<1>1. None \notin V
  BY AuthAssumption
<1>2. query \in Seq(Nat \X V)
  BY QueriesAreQueries
<1>3. /\ Canonical(path, query) = <<path, Sorted(Readable(query))>>
      /\ Range(Sorted(Readable(query))) = Readable(query)
      /\ Readable(query) = FirstGiven(query)
  <2> HIDE DEF V
  <2> QED
    BY <1>1, <1>2, TextOfQuery, ReadableIsFirst
<1>4. /\ Signature(link) = <<link.path, Sorted(link.params)>>
      /\ Range(Sorted(link.params)) = link.params
  BY SignatureIsText
<1>5. ASSUME FirstGiven(query) = link.params
      PROVE  Parameter(query, Ts) = link.ts
  <2>1. <<Ts, link.ts>> \in Readable(query)
    BY <1>3, <1>5, Parameters
  <2> QED
    BY <2>1 DEF Readable
<1> QED
  BY <1>3, <1>4, <1>5

\* A gateway that asks for nothing but a signature lets in whom a signature lets in.
LEMMA PassesByLink ==
  ASSUME NEW g \in ByLink, NEW r
  PROVE  Passes(g, r) <=> SignedQuery(Clock(g), r)
<1>1. DOMAIN Guard[g] # {} /\ \A i \in DOMAIN Guard[g] : Guard[g][i].type = "signed"
  BY DEF ByLink
<1>2. \A i \in DOMAIN Guard[g] : Admits(Guard[g][i], g, r) <=> SignedQuery(Clock(g), r)
  BY <1>1 DEF Admits
<1> QED
  BY <1>1, <1>2 DEF Passes

\* What a link opens, and when.
LEMMA Opens ==
  ASSUME NEW link, link.path \in Paths, link.ts \in Int, link.params \in ParameterSets(link.ts),
         NEW g \in ByLink, NEW path, NEW query \in Queries(link.ts)
  PROVE  Passes(g, Visit(path, query, Signature(link)))
           <=> /\ path = link.path /\ FirstGiven(query) = link.params
               /\ Timely(link.ts, Clock(g))
<1> DEFINE r == Visit(path, query, Signature(link))
<1>1. r.path = path /\ r.query = query /\ r.sig = Signature(link)
  BY DEF Visit
<1>2. Signature(link) # None /\ link.ts # None
  BY SignatureIsText, AuthAssumption
<1>3. /\ Signature(link) = Canonical(path, query)
           <=> path = link.path /\ FirstGiven(query) = link.params
      /\ FirstGiven(query) = link.params => Parameter(query, Ts) = link.ts
  BY SignatureOf
<1>4. SignedQuery(Clock(g), r)
        <=> /\ path = link.path /\ FirstGiven(query) = link.params
            /\ Timely(link.ts, Clock(g))
  BY <1>1, <1>2, <1>3 DEF SignedQuery
<1> QED
  BY <1>4, PassesByLink

-----------------------------------------------------------------------------
(* The life of links.                                                      *)

LinksTyped ==
  /\ now \in 0..MaxNow
  /\ \A l \in minted : l.path \in Paths /\ l.ts \in Int /\ l.params \in ParameterSets(l.ts)
  /\ opened \subseteq [link : minted, at : Gateways, time : 0..now]

\* A link that was let in was not older than its timestamp and the tolerance.
LetInInTime ==
  \A o \in opened : o.at \in ByLink => o.link.ts <= o.time - Lag[o.at] + Tolerance

LinksInv == LinksTyped /\ LetInInTime

LEMMA Bounds ==
  /\ MaxNow \in Nat /\ Ttl \in Int /\ Tolerance \in Int /\ Leads \subseteq Int
  /\ \A g \in Gateways : Lag[g] \in Int
BY AuthAssumption

LEMMA InitLinks == Init => LinksInv
BY AuthAssumption DEF Init, LinksInit, LinksInv, LinksTyped, LetInInTime

LEMMA NextLinks ==
  ASSUME LinksInv, [Next]_vars
  PROVE  LinksInv'
<1> USE AuthAssumption DEF LinksInv, LinksTyped
<1>1. CASE UNCHANGED links
  BY <1>1 DEF LetInInTime, links
<1>2. ASSUME NEW path \in Paths, NEW lead \in Leads, Mint(path, lead)
      PROVE  LinksInv'
  <2>1. PICK params \in ParameterSets(now + lead) :
          minted' = minted \cup {[path |-> path, params |-> params, ts |-> now + lead]}
    BY <1>2 DEF Mint
  <2>2. now + lead \in Int
    BY Bounds
  <2>3. \A l \in minted' :
          l.path \in Paths /\ l.ts \in Int /\ l.params \in ParameterSets(l.ts)
    <3> SUFFICES ASSUME NEW l \in minted', l \notin minted
                 PROVE  /\ l.path \in Paths /\ l.ts = now + lead
                        /\ l.params \in ParameterSets(l.ts)
      BY <2>2
    <3>1. l = [path |-> path, params |-> params, ts |-> now + lead]
      BY <2>1
    <3> QED
      BY <3>1
  <2>4. now' = now /\ opened' = opened
    BY <1>2 DEF Mint
  <2>5. opened' \subseteq [link : minted', at : Gateways, time : 0..now']
    BY <2>1, <2>4
  <2> QED
    BY <2>3, <2>4, <2>5 DEF LetInInTime
<1>3. ASSUME NEW link \in minted, NEW g \in Gateways, Open(link, g)
      PROVE  LinksInv'
  <2>1. PICK query \in Queries(link.ts) : Passes(g, Visit(link.path, query, Signature(link)))
    BY <1>3 DEF Open
  <2>2. /\ now' = now /\ minted' = minted
        /\ opened' = opened \cup {[link |-> link, at |-> g, time |-> now]}
    BY <1>3 DEF Open
  <2>3. g \in ByLink => Timely(link.ts, Clock(g))
    BY <2>1, Opens
  <2>4. g \in ByLink => link.ts <= now - Lag[g] + Tolerance
    BY <2>3 DEF Timely, Clock
  <2>5. LetInInTime'
    BY <2>2, <2>4 DEF LetInInTime
  <2>6. opened' \subseteq [link : minted', at : Gateways, time : 0..now']
    BY <2>2
  <2> QED
    BY <2>2, <2>5, <2>6
<1>4. CASE Tick
  <2>1. now' \in 0..MaxNow /\ now < now' /\ minted' = minted /\ opened' = opened
    BY <1>4 DEF Tick
  <2>2. opened' \subseteq [link : minted', at : Gateways, time : 0..now']
    BY <2>1
  <2> QED
    BY <2>1, <2>2 DEF LetInInTime
<1> QED
  BY <1>1, <1>2, <1>3, <1>4, AdminLeavesLinks DEF Next, LinksNext, vars

LEMMA AlwaysLinks == Spec => []LinksInv
BY InitLinks, NextLinks, PTL DEF Spec

\* A signed link dies Ttl and Tolerance after it was first let in, for every number
\* of gateways, whatever their clocks and those of the minters, and whatever query it
\* comes with.
THEOREM LinksDie == Spec => []LinksExpire
<1>1. LinksInv => LinksExpire
  <2> SUFFICES ASSUME LinksInv, NEW o \in opened, NEW g \in ByLink, o.at \in ByLink,
                      now > o.time + Ttl + Tolerance + Lag[g] - Lag[o.at],
                      NEW query \in Queries(o.link.ts),
                      Passes(g, Visit(o.link.path, query, Signature(o.link)))
               PROVE  FALSE
    BY DEF LinksExpire
  <2> USE AuthAssumption DEF LinksInv, LinksTyped
  <2>5. o.link \in minted /\ o.at \in Gateways /\ o.time \in 0..now /\ g \in Gateways
    BY DEF ByLink
  <2>1. /\ o.link.path \in Paths
        /\ o.link.ts \in Int /\ o.link.params \in ParameterSets(o.link.ts)
        /\ now \in Int /\ o.time \in Int /\ Lag[g] \in Int /\ Lag[o.at] \in Int
        /\ Ttl \in Int /\ Tolerance \in Int
    BY <2>5, Bounds
  <2>2. Timely(o.link.ts, Clock(g))
    BY <2>1, Opens
  <2>3. o.link.ts <= o.time - Lag[o.at] + Tolerance
    BY DEF LetInInTime
  <2>4. now - Lag[g] - o.link.ts <= Ttl
    BY <2>2 DEF Timely, Clock
  <2> QED
    BY <2>1, <2>3, <2>4
<1> QED
  BY AlwaysLinks, <1>1, PTL

\* Links open the path they were signed for, with any query whose first values are the
\* parameters they were signed for, just in their time: for any gateways, clocks, paths,
\* names and values, and for queries of any length, in whatever order and however often
\* they give them.
THEOREM LinksTrue == Spec => []LinksGenuine
<1>1. LinksInv => LinksGenuine
  <2> SUFFICES ASSUME LinksInv, NEW link \in minted, NEW g \in ByLink, NEW path \in Paths,
                      NEW query \in Queries(link.ts)
               PROVE  Passes(g, Visit(path, query, Signature(link)))
                        <=> /\ path = link.path /\ FirstGiven(query) = link.params
                            /\ Clock(g) \in link.ts - Tolerance..link.ts + Ttl
    BY DEF LinksGenuine
  <2>1. /\ link.path \in Paths /\ link.ts \in Int /\ link.params \in ParameterSets(link.ts)
        /\ now \in Int /\ g \in Gateways
    BY Bounds DEF LinksInv, LinksTyped, ByLink
  <2>2. Clock(g) \in Int /\ Ttl \in Int /\ Tolerance \in Int
    BY <2>1, Bounds DEF Clock
  <2>3. Timely(link.ts, Clock(g)) <=> Clock(g) \in link.ts - Tolerance..link.ts + Ttl
    BY <2>1, <2>2 DEF Timely
  <2> QED
    BY <2>1, <2>3, Opens
<1> QED
  BY AlwaysLinks, <1>1, PTL

-----------------------------------------------------------------------------
(* Commands as they are typed.                                             *)

LEMMA FirstIs ==
  ASSUME NEW args, NEW i \in Nat, Len(args) \in Nat, NEW url \in BOOLEAN, NEW j \in i..Len(args),
         (args[j] \in Gateways) <=> url,
         \A k \in i..Len(args) : k < j => ~((args[k] \in Gateways) <=> url)
  PROVE  FirstFrom(args, i, url) = args[j]
<1> DEFINE found == {k \in i..Len(args) : (args[k] \in Gateways) <=> url}
<1>1. j \in found /\ \A k \in found : j <= k
  OBVIOUS
<1>2. \A l \in found : (\A k \in found : l <= k) => l = j
  <2> SUFFICES ASSUME NEW l \in found, \A k \in found : l <= k
               PROVE  l = j
    OBVIOUS
  <2>1. l <= j /\ j <= l /\ l \in Int /\ j \in Int
    BY <1>1
  <2> QED
    BY <2>1
<1>3. (CHOOSE l \in found : \A k \in found : l <= k) = j
  BY <1>1, <1>2
<1> QED
  BY <1>1, <1>3 DEF FirstFrom

LEMMA FirstOfTwo ==
  ASSUME NEW args, NEW i \in Nat, Len(args) \in Nat, i <= Len(args)
  PROVE  /\ args[i] \in Gateways => FirstFrom(args, i, TRUE) = args[i]
         /\ args[i] \notin Gateways => FirstFrom(args, i, FALSE) = args[i]
         /\ i + 1 <= Len(args) /\ args[i] \notin Gateways /\ args[i + 1] \in Gateways =>
              FirstFrom(args, i, TRUE) = args[i + 1]
         /\ i + 1 <= Len(args) /\ args[i] \in Gateways /\ args[i + 1] \notin Gateways =>
              FirstFrom(args, i, FALSE) = args[i + 1]
<1>1. i \in i..Len(args) /\ \A k \in i..Len(args) : ~(k < i)
  OBVIOUS
<1>2. i + 1 \in Nat /\ i + 1 <= Len(args) => i + 1 \in i..Len(args)
  OBVIOUS
<1>3. \A k \in i..Len(args) : k < i + 1 => k = i
  OBVIOUS
<1>4. args[i] \in Gateways => FirstFrom(args, i, TRUE) = args[i]
  <2> SUFFICES ASSUME args[i] \in Gateways PROVE FirstFrom(args, i, TRUE) = args[i]
    OBVIOUS
  <2> QED
    BY <1>1, FirstIs
<1>5. args[i] \notin Gateways => FirstFrom(args, i, FALSE) = args[i]
  <2> SUFFICES ASSUME args[i] \notin Gateways PROVE FirstFrom(args, i, FALSE) = args[i]
    OBVIOUS
  <2> QED
    BY <1>1, FirstIs
<1>6. ASSUME i + 1 <= Len(args), args[i] \notin Gateways, args[i + 1] \in Gateways
      PROVE  FirstFrom(args, i, TRUE) = args[i + 1]
  <2>2. i + 1 \in i..Len(args)
    BY <1>2, <1>6
  <2>3. \A k \in i..Len(args) : k < i + 1 => args[k] \notin Gateways
    BY <1>3, <1>6
  <2> QED
    BY <1>6, <2>2, <2>3, FirstIs
<1>7. ASSUME i + 1 <= Len(args), args[i] \in Gateways, args[i + 1] \notin Gateways
      PROVE  FirstFrom(args, i, FALSE) = args[i + 1]
  <2>2. i + 1 \in i..Len(args)
    BY <1>2, <1>7
  <2>3. \A k \in i..Len(args) : k < i + 1 => args[k] \in Gateways
    BY <1>3, <1>7
  <2> QED
    BY <1>7, <2>2, <2>3, FirstIs
<1> QED
  BY <1>4, <1>5, <1>6, <1>7

\* A line that is understood names one gateway, and the token that is revoked is
\* the one that was typed, before the URL or after it.
LEMMA Parsed ==
  ASSUME NEW line \in Lines, Understood(line)
  PROVE  /\ Parse(line) \in ParsedArgs
         /\ Parse(line).line = line
         /\ Parse(line).verb = "revoke" =>
              /\ Parse(line).token \in Tokens
              /\ Tokens \cap ToSet(line.args) = {Parse(line).token}
<1> DEFINE args == line.args
<1> USE AdminAssumption
<1>1. PICK g \in Gateways, k \in Tokens :
        args \in {<<verb, g>> : verb \in {"inspect", "stats", "tools", "calls"}}
                \cup {<<"keys", "list", g>>, <<"keys", "revoke", k, g>>, <<"keys", "revoke", g, k>>}
  BY LinesAssumption
<1>2. ASSUME NEW verb \in {"inspect", "stats", "tools", "calls"}, args = <<verb, g>>
      PROVE  Parse(line) = [verb |-> verb, at |-> g, token |-> None, line |-> line]
  <2>1. /\ Len(args) = 2 /\ Len(args) \in Nat /\ 2 \in Nat /\ 2 <= Len(args)
        /\ args[1] = verb /\ args[2] = g
        /\ g \in Gateways /\ verb # "keys"
    BY <1>2
  <2>2. FirstFrom(args, 2, TRUE) = g
    BY <2>1, FirstOfTwo
  <2> QED
    BY <2>1, <2>2 DEF Parse, ResolveUrl
<1>3. CASE args = <<"keys", "list", g>>
  <2>1. /\ Len(args) = 3 /\ Len(args) \in Nat /\ 3 \in Nat /\ 3 <= Len(args)
        /\ args[1] = "keys" /\ args[2] = "list" /\ args[3] = g
        /\ g \in Gateways /\ "list" \notin Gateways /\ "list" # None
    BY <1>3
  <2>2. FirstFrom(args, 3, TRUE) = g
    BY <2>1, FirstOfTwo
  <2>3. Subcommand(args) = "list"
    BY <2>1 DEF Subcommand
  <2>4. Parse(line) = [verb |-> "list", at |-> g, token |-> None, line |-> line]
    BY <2>1, <2>2, <2>3 DEF Parse, ResolveUrl
  <2> QED
    BY <2>4 DEF ParsedArgs, Verbs
<1>4. CASE args = <<"keys", "revoke", k, g>>
  <2>1. /\ Len(args) = 4 /\ Len(args) \in Nat /\ 3 \in Nat /\ 3 <= Len(args)
        /\ 3 + 1 = 4 /\ 3 + 1 <= Len(args)
        /\ args[1] = "keys" /\ args[2] = "revoke"
        /\ args[3] = k /\ args[4] = g
        /\ g \in Gateways /\ k \notin Gateways /\ "revoke" \notin Gateways /\ "revoke" # None
    BY <1>4
  <2>7. args[3] \notin Gateways /\ args[3 + 1] \in Gateways /\ args[3 + 1] = g
    BY <2>1
  <2>4. FirstFrom(args, 3, TRUE) = g
    BY <2>1, <2>7, FirstOfTwo
  <2>5. FirstFrom(args, 3, FALSE) = k
    BY <2>1, FirstOfTwo
  <2>6. Subcommand(args) = "revoke"
    BY <2>1 DEF Subcommand
  <2>2. Parse(line) = [verb |-> "revoke", at |-> g, token |-> k, line |-> line]
    BY <2>1, <2>4, <2>5, <2>6 DEF Parse, ResolveUrl, ResolveToken
  <2>3. Tokens \cap ToSet(line.args) = {k}
    BY <1>4 DEF ToSet
  <2> QED
    BY <2>2, <2>3 DEF ParsedArgs, Verbs
<1>5. CASE args = <<"keys", "revoke", g, k>>
  <2>1. /\ Len(args) = 4 /\ Len(args) \in Nat /\ 3 \in Nat /\ 3 <= Len(args)
        /\ 3 + 1 = 4 /\ 3 + 1 <= Len(args)
        /\ args[1] = "keys" /\ args[2] = "revoke"
        /\ args[3] = g /\ args[4] = k
        /\ g \in Gateways /\ k \notin Gateways /\ "revoke" \notin Gateways /\ "revoke" # None
    BY <1>5
  <2>7. args[3] \in Gateways /\ args[3 + 1] \notin Gateways /\ args[3 + 1] = k
    BY <2>1
  <2>4. FirstFrom(args, 3, TRUE) = g
    BY <2>1, FirstOfTwo
  <2>5. FirstFrom(args, 3, FALSE) = k
    BY <2>1, <2>7, FirstOfTwo
  <2>6. Subcommand(args) = "revoke"
    BY <2>1 DEF Subcommand
  <2>2. Parse(line) = [verb |-> "revoke", at |-> g, token |-> k, line |-> line]
    BY <2>1, <2>4, <2>5, <2>6 DEF Parse, ResolveUrl, ResolveToken
  <2>3. Tokens \cap ToSet(line.args) = {k}
    BY <1>5 DEF ToSet
  <2> QED
    BY <2>2, <2>3 DEF ParsedArgs, Verbs
<1> QED
  BY <1>1, <1>2, <1>3, <1>4, <1>5 DEF ParsedArgs, Verbs

-----------------------------------------------------------------------------
(* Types.                                                                  *)

AdminTyped ==
  /\ store \cup expired \subseteq Tokens
  /\ index \in [Gateways -> SUBSET Tokens]
  /\ callLog \in [Gateways -> Seq(Tokens)]
  /\ cmd \in [Commands -> ParsedArgs \cup {None}]
  /\ job \in [Commands -> [Routes -> Statuses \cup {"none", "sent", "walking", "found"}]]
  /\ heard \in [Commands -> [Routes -> Statuses \cup {None, "lost"}]]
  /\ walked \in [Commands -> SUBSET Tokens]
  /\ shown \in [Commands -> SUBSET Tokens]
  /\ lasted \in [Commands -> SUBSET Tokens]

LEMMA InitTyped == Init => AdminTyped
BY DEF Init, AdminInit, AdminTyped

LEMMA TypeTyped ==
  ASSUME AdminTyped, NEW o \in Commands, NEW line \in Lines, Type(o, line)
  PROVE  AdminTyped'
<1>1. Parse(line) \in ParsedArgs
  BY Parsed DEF Type
<1>2. cmd' = [cmd EXCEPT ![o] = Parse(line)]
  BY DEF Type
<1>3. job' \in [Commands -> [Routes -> Statuses \cup {"none", "sent", "walking", "found"}]]
  BY DEF Type, AdminTyped
<1>4. lasted' \in [Commands -> SUBSET Tokens]
  BY DEF Type, AdminTyped
<1> QED
  BY <1>1, <1>2, <1>3, <1>4 DEF Type, AdminTyped, keys

LEMMA HearsTyped ==
  ASSUME AdminTyped, NEW o \in Commands, NEW r \in Routes, NEW s \in Statuses \cup {"lost"}, Hears(o, r, s)
  PROVE  AdminTyped'
BY DEF Hears, AdminTyped, keys, Routes

LEMMA ProceedsTyped ==
  ASSUME AdminTyped, NEW o \in Commands, NEW r \in Routes,
         NEW to \in Statuses \cup {"none", "sent", "walking", "found"}, Proceeds(o, r, to)
  PROVE  /\ job' \in [Commands -> [Routes -> Statuses \cup {"none", "sent", "walking", "found"}]]
         /\ callLog' = callLog /\ cmd' = cmd /\ heard' = heard
BY DEF Proceeds, AdminTyped

\* What is asked was typed, and what is heard was answered.
Followed ==
  \A o \in Commands :
    /\ cmd[o] # None => Understood(cmd[o].line) /\ cmd[o] = Parse(cmd[o].line)
    /\ \A r \in Routes :
         /\ job[o][r] # "none" =>
              /\ cmd[o] # None
              /\ \/ r \in Asks(cmd[o].verb)
                 \/ r = "calls" /\ cmd[o].verb = "list" /\ heard[o]["keys"] \notin {None, "200"}
         /\ heard[o][r] # None => job[o][r] # "none"
         /\ heard[o][r] \in Statuses => job[o][r] = heard[o][r]

LEMMA TypedLine ==
  ASSUME AdminTyped, Followed, NEW o \in Commands, cmd[o] # None
  PROVE  /\ cmd[o] \in ParsedArgs
         /\ cmd[o].verb = "revoke" =>
              cmd[o].token \in Tokens /\ Tokens \cap ToSet(cmd[o].line.args) = {cmd[o].token}
<1>1. cmd[o] \in ParsedArgs
  BY DEF AdminTyped
<1>2. cmd[o].line \in Lines /\ Understood(cmd[o].line) /\ cmd[o] = Parse(cmd[o].line)
  BY <1>1 DEF Followed, ParsedArgs
<1>3. cmd[o].verb = "revoke" =>
        cmd[o].token \in Tokens /\ Tokens \cap ToSet(cmd[o].line.args) = {cmd[o].token}
  BY <1>2, Parsed
<1> QED
  BY <1>1, <1>3

LEMMA Requested ==
  ASSUME AdminTyped, Followed, NEW o \in Commands, NEW r \in Routes, job[o][r] # "none"
  PROVE  /\ cmd[o] # None /\ cmd[o] \in ParsedArgs /\ cmd[o].at \in Gateways
         /\ r = "revoke" => cmd[o].verb = "revoke" /\ cmd[o].token \in Tokens
         /\ r = "keys" => cmd[o].verb = "list"
<1>1. cmd[o] # None /\ (r \in Asks(cmd[o].verb) \/ (r = "calls" /\ cmd[o].verb = "list"))
  BY DEF Followed
<1>2. cmd[o] \in ParsedArgs
  BY <1>1, TypedLine
<1>3. r = "revoke" => cmd[o].verb = "revoke"
  BY <1>1, <1>2 DEF Asks, ParsedArgs, Verbs
<1>4. r = "keys" => cmd[o].verb = "list"
  BY <1>1, <1>2 DEF Asks, ParsedArgs, Verbs
<1> QED
  BY <1>1, <1>2, <1>3, <1>4, TypedLine DEF ParsedArgs

\* The routes that answer at once.
LEMMA RoutesTyped ==
  ASSUME AdminTyped, Followed, NEW o \in Commands, NEW r \in Routes,
         NoRoute(o, r) \/ Denied(o, r) \/ Answers(o, r)
  PROVE  AdminTyped'
<1>1. CASE NoRoute(o, r)
  BY <1>1, ProceedsTyped DEF NoRoute, AdminTyped, Statuses
<1>2. CASE Denied(o, r)
  BY <1>2, ProceedsTyped DEF Denied, AdminTyped, Statuses
<1>3. CASE Answers(o, r)
  <2>1. job[o][r] # "none"
    BY <1>3 DEF Answers, Admitted, Sent
  <2>2. cmd[o].at \in Gateways
    BY <2>1, Requested
  <2>3. callLog[cmd[o].at] \in Seq(Tokens)
    BY <2>2 DEF AdminTyped
  <2>4. {callLog[cmd[o].at][i] : i \in {j \in DOMAIN callLog[cmd[o].at] :
                                          j + MaxLimit > Len(callLog[cmd[o].at])}} \subseteq Tokens
    BY <2>3
  <2>5. shown' \in [Commands -> SUBSET Tokens]
    BY <1>3, <2>4 DEF Answers, AdminTyped
  <2> QED
    BY <1>3, <2>5, ProceedsTyped DEF Answers, AdminTyped, Statuses
<1> QED
  BY <1>1, <1>2, <1>3

LEMMA ListTyped ==
  ASSUME AdminTyped, Followed, NEW o \in Commands,
         \/ ListStarts(o) \/ ListThrows(o) \/ ListEnds(o)
         \/ \E k \in Tokens : ListLooksUp(o, k)
  PROVE  AdminTyped'
<1> USE DEF Routes, Statuses
<1>1. CASE ListStarts(o)
  BY <1>1, ProceedsTyped DEF ListStarts, AdminTyped
<1>2. CASE ListThrows(o)
  BY <1>2, ProceedsTyped DEF ListThrows, AdminTyped
<1>3. CASE ListEnds(o)
  BY <1>3, ProceedsTyped DEF ListEnds, AdminTyped
<1>4. ASSUME NEW k \in Tokens, ListLooksUp(o, k) PROVE AdminTyped'
  <2>1. walked' \in [Commands -> SUBSET Tokens]
    BY <1>4 DEF ListLooksUp, AdminTyped
  <2>2. /\ shown' = shown \/ shown' = [shown EXCEPT ![o] = @ \cup {k}]
        /\ index' = index \/ index' = [index EXCEPT ![cmd[o].at] = @ \ {k}]
    BY <1>4 DEF ListLooksUp
  <2>3. shown' \in [Commands -> SUBSET Tokens]
    BY <2>2 DEF AdminTyped
  <2>4. index' \in [Gateways -> SUBSET Tokens]
    BY <2>2 DEF AdminTyped
  <2> QED
    BY <1>4, <2>1, <2>3, <2>4 DEF ListLooksUp, AdminTyped
<1> QED
  BY <1>1, <1>2, <1>3, <1>4

LEMMA RevokeTyped ==
  ASSUME AdminTyped, Followed, NEW o \in Commands,
         RevokeLooksUp(o) \/ RevokeDeletes(o) \/ RevokeThrows(o)
  PROVE  AdminTyped'
<1> USE DEF Routes, Statuses
<1>1. CASE RevokeLooksUp(o)
  BY <1>1, ProceedsTyped DEF RevokeLooksUp, AdminTyped
<1>2. CASE RevokeDeletes(o)
  <2>1. cmd[o].token \in Tokens
    BY <1>2, Requested DEF RevokeDeletes
  <2> QED
    BY <1>2, <2>1, ProceedsTyped DEF RevokeDeletes, Gone, AdminTyped
<1>3. CASE RevokeThrows(o)
  <2>1. job' \in [Commands -> [Routes -> Statuses \cup {"none", "sent", "walking", "found"}]]
        /\ callLog' = callLog /\ cmd' = cmd /\ heard' = heard
    BY <1>3, ProceedsTyped DEF RevokeThrows
  <2>2. store' \subseteq Tokens /\ lasted' \in [Commands -> SUBSET Tokens]
    BY <1>3 DEF RevokeThrows, Gone, AdminTyped
  <2> QED
    BY <1>3, <2>1, <2>2 DEF RevokeThrows, AdminTyped
<1> QED
  BY <1>1, <1>2, <1>3

LEMMA NextTyped ==
  ASSUME AdminTyped, Followed, [Next]_vars
  PROVE  AdminTyped'
<1>1. CASE UNCHANGED adminVars
  BY <1>1 DEF adminVars, keys, AdminTyped
<1>2. ASSUME NEW o \in Commands, NEW r \in Routes, Response(o, r) \/ Lost(o, r) PROVE AdminTyped'
  BY <1>2, HearsTyped DEF Response, Lost
<1>3. ASSUME NEW k \in Tokens, NEW g \in Selling, Issue(g, k) PROVE AdminTyped'
  <2>1. g \in Gateways
    BY AdminAssumption
  <2>2. callLog' \in [Gateways -> Seq(Tokens)]
    BY <1>3, <2>1 DEF Issue, AdminTyped
  <2> QED
    BY <1>3, <2>1, <2>2 DEF Issue, AdminTyped
<1>4. ASSUME NEW k \in Tokens, Sweep(k) PROVE AdminTyped'
  BY <1>4 DEF Sweep, Gone, AdminTyped
<1> QED
  BY <1>1, <1>2, <1>3, <1>4, TypeTyped, RoutesTyped, ListTyped, RevokeTyped DEF Next, AdminNext, vars

LEMMA InitFollowed == Init => Followed
BY AdminAssumption DEF Init, AdminInit, Followed, Statuses

LEMMA TypeFollowed ==
  ASSUME AdminTyped, Followed, NEW o \in Commands, NEW line \in Lines, Type(o, line)
  PROVE  Followed'
<1>1. /\ cmd[o] = None /\ heard' = heard /\ Understood(line)
      /\ cmd' = [cmd EXCEPT ![o] = Parse(line)]
      /\ job' = [job EXCEPT ![o] = [r \in Routes |-> IF r \in Asks(Parse(line).verb) THEN "sent" ELSE @[r]]]
  BY DEF Type
<1>2. Parse(line) \in ParsedArgs /\ Parse(line).line = line /\ Parse(line) # None
  BY <1>1, Parsed, ParsedAssumption
<1>3. \A r \in Routes : job[o][r] = "none" /\ heard[o][r] = None
  BY <1>1 DEF Followed
<1>4. \A p \in Commands \ {o} : cmd'[p] = cmd[p] /\ job'[p] = job[p]
  BY <1>1 DEF AdminTyped
<1>5. cmd'[o] = Parse(line)
  BY <1>1 DEF AdminTyped
<1>6. \A r \in Routes : job'[o][r] # "none" => r \in Asks(Parse(line).verb)
  BY <1>1, <1>3 DEF AdminTyped
<1>7. None \notin Statuses
  BY AdminAssumption DEF Statuses
<1> SUFFICES ASSUME NEW p \in Commands
             PROVE  /\ cmd'[p] # None => Understood(cmd'[p].line) /\ cmd'[p] = Parse(cmd'[p].line)
                    /\ \A r \in Routes :
                         /\ job'[p][r] # "none" =>
                              /\ cmd'[p] # None
                              /\ \/ r \in Asks(cmd'[p].verb)
                                 \/ r = "calls" /\ cmd'[p].verb = "list" /\ heard'[p]["keys"] \notin {None, "200"}
                         /\ heard'[p][r] # None => job'[p][r] # "none"
                         /\ heard'[p][r] \in Statuses => job'[p][r] = heard'[p][r]
  BY DEF Followed
<1>8. CASE p = o
  BY <1>1, <1>2, <1>3, <1>5, <1>6, <1>7, <1>8
<1>9. CASE p # o
  BY <1>1, <1>4, <1>9 DEF Followed
<1> QED
  BY <1>8, <1>9

LEMMA HearsFollowed ==
  ASSUME AdminTyped, Followed, NEW o \in Commands, NEW r \in Routes,
         NEW s \in Statuses \cup {"lost"}, Hears(o, r, s),
         job[o][r] # "none", s \in Statuses => job[o][r] = s
  PROVE  Followed'
<1>1. /\ heard[o][r] = None /\ cmd' = cmd
      /\ heard' = [heard EXCEPT ![o][r] = s]
      /\ job' = IF cmd[o].verb = "list" /\ r = "keys" /\ s # "200"
                THEN [job EXCEPT ![o]["calls"] = "sent"] ELSE job
  BY DEF Hears
<1>2. \A p \in Commands \ {o} : heard'[p] = heard[p] /\ job'[p] = job[p]
  BY <1>1 DEF AdminTyped
<1>3. heard'[o][r] = s /\ \A q \in Routes \ {r} : heard'[o][q] = heard[o][q]
  BY <1>1 DEF AdminTyped
<1>4. cmd[o] # None /\ s # None
  BY AdminAssumption DEF Followed, Statuses
<1>5. ASSUME cmd[o].verb = "list", r = "keys"
      PROVE  job[o]["calls"] = "none" /\ heard[o]["calls"] = None
  <2>1. "calls" \notin Asks("list") /\ "calls" \in Routes
    BY DEF Asks, Routes
  <2> QED
    BY <1>1, <1>5, <2>1 DEF Followed
<1>6. \A q \in Routes : \/ job'[o][q] = job[o][q]
                        \/ q = "calls" /\ cmd[o].verb = "list" /\ r = "keys" /\ s # "200"
  BY <1>1 DEF AdminTyped
<1>7. job'[o][r] = job[o][r]
  BY <1>6
<1> SUFFICES ASSUME NEW p \in Commands, NEW q \in Routes
             PROVE  /\ job'[p][q] # "none" =>
                         /\ cmd[p] # None
                         /\ \/ q \in Asks(cmd[p].verb)
                            \/ q = "calls" /\ cmd[p].verb = "list" /\ heard'[p]["keys"] \notin {None, "200"}
                    /\ heard'[p][q] # None => job'[p][q] # "none"
                    /\ heard'[p][q] \in Statuses => job'[p][q] = heard'[p][q]
  BY <1>1 DEF Followed
<1>8. CASE p # o
  BY <1>1, <1>2, <1>8 DEF Followed
<1>9. CASE p = o /\ q = r
  <2>1. heard'[p]["keys"] = heard[p]["keys"] \/ r = "keys"
    BY <1>3, <1>9 DEF Routes
  <2>2. "keys" # "calls"
    OBVIOUS
  <2> QED
    BY <1>3, <1>4, <1>7, <1>9, <2>1, <2>2 DEF Followed
<1>10. CASE p = o /\ q # r
  <2>1. heard'[p]["keys"] = heard[p]["keys"] \/ (r = "keys" /\ heard[p]["keys"] = None /\ heard'[p]["keys"] = s)
    BY <1>1, <1>3, <1>10 DEF Routes
  <2>2. CASE job'[o][q] = job[o][q]
    BY <1>1, <1>3, <1>4, <1>10, <2>1, <2>2 DEF Followed
  <2>3. CASE q = "calls" /\ cmd[o].verb = "list" /\ r = "keys" /\ s # "200"
    BY <1>1, <1>3, <1>4, <1>5, <1>10, <2>3 DEF Followed, AdminTyped, Statuses
  <2> QED
    BY <1>6, <2>2, <2>3
<1> QED
  BY <1>8, <1>9, <1>10

LEMMA ProceedsFollowed ==
  ASSUME AdminTyped, Followed, NEW o \in Commands, NEW r \in Routes, NEW to, to # "none",
         Proceeds(o, r, to), job[o][r] \notin Statuses \cup {"none"}
  PROVE  Followed'
<1>1. cmd' = cmd /\ heard' = heard /\ job' = [job EXCEPT ![o][r] = to]
  BY DEF Proceeds
<1>2. \A p \in Commands, q \in Routes :
        job'[p][q] = job[p][q] \/ (p = o /\ q = r /\ job'[p][q] = to)
  BY <1>1 DEF AdminTyped
<1> QED
  BY <1>1, <1>2 DEF Followed

LEMMA NextFollowed ==
  ASSUME AdminTyped, Followed, [Next]_vars
  PROVE  Followed'
<1> USE DEF Routes, Statuses
<1>1. CASE UNCHANGED <<cmd, job, heard>>
  BY <1>1 DEF Followed
<1>2. ASSUME NEW o \in Commands, NEW r \in Routes, Response(o, r) PROVE Followed'
  BY <1>2, HearsFollowed DEF Response
<1>3. ASSUME NEW o \in Commands, NEW r \in Routes, Lost(o, r) PROVE Followed'
  BY <1>3, HearsFollowed DEF Lost
<1>4. ASSUME NEW o \in Commands, NEW r \in Routes, NoRoute(o, r) \/ Denied(o, r) \/ Answers(o, r)
      PROVE  Followed'
  BY <1>4, ProceedsFollowed DEF NoRoute, Denied, Answers, Admitted, Sent
<1>5. ASSUME NEW o \in Commands, ListStarts(o) \/ ListThrows(o) \/ ListEnds(o)
      PROVE  Followed'
  BY <1>5, ProceedsFollowed DEF ListStarts, ListThrows, ListEnds, Admitted, Sent
<1>6. ASSUME NEW o \in Commands, RevokeLooksUp(o) \/ RevokeDeletes(o) \/ RevokeThrows(o)
      PROVE  Followed'
  BY <1>6, ProceedsFollowed DEF RevokeLooksUp, RevokeDeletes, RevokeThrows, Admitted, Sent
<1>7. ASSUME \/ \E o \in Commands, k \in Tokens : ListLooksUp(o, k)
             \/ \E k \in Tokens : Sweep(k) \/ \E g \in Selling : Issue(g, k)
      PROVE  Followed'
  BY <1>1, <1>7 DEF ListLooksUp, Sweep, Issue
<1> QED
  BY <1>1, <1>2, <1>3, <1>4, <1>5, <1>6, <1>7, TypeFollowed DEF Next, AdminNext, vars, adminVars

\* The commands and the store keep their types, and so do the links.
THEOREM TypeCorrect == Spec => []TypeOK
<1>1. Spec => [](AdminTyped /\ Followed)
  BY InitTyped, NextTyped, InitFollowed, NextFollowed, PTL DEF Spec
<1>2. LinksInv /\ AdminTyped => TypeOK
  BY DEF LinksInv, LinksTyped, AdminTyped, TypeOK
<1> QED
  BY <1>1, <1>2, AlwaysLinks, PTL

-----------------------------------------------------------------------------
(* What a step may change, whichever action it is.                         *)

SoldKeys == UNION {ToSet(callLog[g]) : g \in Gateways}

LEMMA AppendSet ==
  ASSUME NEW S, NEW s \in Seq(S), NEW e \in S
  PROVE  ToSet(Append(s, e)) = ToSet(s) \cup {e}
<1> DEFINE t == Append(s, e)
<1>1. /\ Len(t) = Len(s) + 1 /\ Len(s) \in Nat /\ DOMAIN s = 1..Len(s) /\ DOMAIN t = 1..Len(t)
      /\ t[Len(s) + 1] = e
  OBVIOUS
<1>2. \A i \in 1..Len(s) : t[i] = s[i]
  OBVIOUS
<1>3. \A i \in 1..Len(t) : i \in 1..Len(s) \/ i = Len(s) + 1
  BY <1>1
<1>4. ToSet(t) \subseteq ToSet(s) \cup {e}
  BY <1>1, <1>2, <1>3 DEF ToSet
<1>5. ToSet(s) \subseteq ToSet(t) /\ e \in ToSet(t)
  <2>1. \A i \in 1..Len(s) : i \in 1..Len(t)
    BY <1>1
  <2>2. Len(s) + 1 \in 1..Len(t)
    BY <1>1
  <2> QED
    BY <1>1, <1>2, <2>1, <2>2 DEF ToSet
<1> QED
  BY <1>4, <1>5

\* A key lives only once: what is put was not sold before, and what was sold stays so.
LEMMA StoreStep ==
  ASSUME AdminTyped, [Next]_vars
  PROVE  /\ SoldKeys \subseteq SoldKeys'
         /\ store' \ store \subseteq SoldKeys' \ SoldKeys
<1> DEFINE Goal == /\ SoldKeys \subseteq SoldKeys'
                   /\ store' \ store \subseteq SoldKeys' \ SoldKeys
<1>1. ASSUME callLog' = callLog, store' \subseteq store PROVE Goal
  BY <1>1 DEF SoldKeys
<1>2. ASSUME NEW k \in Tokens, NEW g \in Selling, Issue(g, k) PROVE Goal
  <2>1. g \in Gateways
    BY AdminAssumption
  <2>2. callLog' = [callLog EXCEPT ![g] = Append(@, k)] /\ store' = store \cup {k} /\ k \notin SoldKeys
    BY <1>2 DEF Issue, SoldKeys
  <2>3. ToSet(Append(callLog[g], k)) = ToSet(callLog[g]) \cup {k}
    <3>1. callLog[g] \in Seq(Tokens)
      BY <2>1 DEF AdminTyped
    <3> QED
      BY <3>1, AppendSet
  <2>4. \A h \in Gateways : callLog'[h] = IF h = g THEN Append(callLog[g], k) ELSE callLog[h]
    BY <2>1, <2>2 DEF AdminTyped
  <2> QED
    BY <2>1, <2>2, <2>3, <2>4 DEF SoldKeys
<1>3. ASSUME NEW o \in Commands, NEW line \in Lines, Type(o, line) PROVE Goal
  BY <1>1, <1>3 DEF Type, keys
<1>4. ASSUME NEW o \in Commands, NEW r \in Routes, Response(o, r) \/ Lost(o, r) PROVE Goal
  BY <1>1, <1>4 DEF Response, Lost, Hears, keys
<1>5. ASSUME NEW o \in Commands, NEW r \in Routes, NoRoute(o, r) \/ Denied(o, r) \/ Answers(o, r)
      PROVE  Goal
  BY <1>1, <1>5 DEF NoRoute, Denied, Answers, Proceeds
<1>6. ASSUME NEW o \in Commands, \/ ListStarts(o) \/ ListThrows(o) \/ ListEnds(o)
                               \/ \E k \in Tokens : ListLooksUp(o, k)
      PROVE  Goal
  BY <1>1, <1>6 DEF ListStarts, ListThrows, ListEnds, ListLooksUp, Proceeds
<1>7. ASSUME NEW o \in Commands, RevokeLooksUp(o) \/ RevokeDeletes(o) \/ RevokeThrows(o)
      PROVE  Goal
  BY <1>1, <1>7 DEF RevokeLooksUp, RevokeDeletes, RevokeThrows, Proceeds, Gone
<1>8. ASSUME NEW k \in Tokens, Sweep(k) PROVE Goal
  BY <1>1, <1>8 DEF Sweep, Gone
<1>9. CASE UNCHANGED adminVars
  BY <1>1, <1>9 DEF adminVars, keys
<1> QED
  BY <1>2, <1>3, <1>4, <1>5, <1>6, <1>7, <1>8, <1>9 DEF Next, AdminNext, vars

\* A command stays what it is, an answer stays given, and what was heard, heard.
LEMMA CommandStep ==
  ASSUME AdminTyped, Followed, [Next]_vars, NEW o \in Commands, NEW r \in Routes
  PROVE  /\ cmd[o] # None => cmd'[o] = cmd[o]
         /\ job[o][r] \in Statuses => job'[o][r] = job[o][r]
         /\ heard[o][r] # None => heard'[o][r] = heard[o][r]
<1> DEFINE Goal == /\ cmd[o] # None => cmd'[o] = cmd[o]
                   /\ job[o][r] \in Statuses => job'[o][r] = job[o][r]
                   /\ heard[o][r] # None => heard'[o][r] = heard[o][r]
<1> USE DEF Routes, Statuses
<1>1. ASSUME NEW p \in Commands, NEW q \in Routes, NEW to, Proceeds(p, q, to),
             job[p][q] \notin Statuses
      PROVE  Goal
  BY <1>1 DEF Proceeds, AdminTyped
<1>2. ASSUME NEW p \in Commands, NEW q \in Routes, NEW s, Hears(p, q, s), job[p][q] # "none" PROVE Goal
  <2>1. cmd' = cmd /\ heard[p][q] = None /\ heard' = [heard EXCEPT ![p][q] = s]
    BY <1>2 DEF Hears
  <2>2. \/ job' = job
        \/ cmd[p].verb = "list" /\ q = "keys" /\ job' = [job EXCEPT ![p]["calls"] = "sent"]
    BY <1>2 DEF Hears
  <2>3. cmd[p].verb = "list" /\ q = "keys" => job[p]["calls"] = "none"
    BY <2>1 DEF Followed, Asks
  <2> QED
    BY <2>1, <2>2, <2>3 DEF AdminTyped
<1>3. ASSUME NEW p \in Commands, NEW line \in Lines, Type(p, line) PROVE Goal
  <2>1. /\ cmd[p] = None /\ heard' = heard
        /\ cmd' = [cmd EXCEPT ![p] = Parse(line)]
        /\ \E f : job' = [job EXCEPT ![p] = f]
    BY <1>3 DEF Type
  <2>2. \A q \in Routes : job[p][q] = "none"
    BY <2>1 DEF Followed
  <2> QED
    BY <2>1, <2>2 DEF AdminTyped
<1>4. ASSUME NEW p \in Commands, NEW q \in Routes, Response(p, q) \/ Lost(p, q) PROVE Goal
  BY <1>2, <1>4 DEF Response, Lost
<1>5. ASSUME NEW p \in Commands, NEW q \in Routes, NoRoute(p, q) \/ Denied(p, q) \/ Answers(p, q)
      PROVE  Goal
  BY <1>1, <1>5 DEF NoRoute, Denied, Answers, Admitted, Sent
<1>6. ASSUME NEW p \in Commands, \/ ListStarts(p) \/ ListThrows(p) \/ ListEnds(p)
                               \/ RevokeLooksUp(p) \/ RevokeDeletes(p) \/ RevokeThrows(p)
      PROVE  Goal
  BY <1>1, <1>6 DEF ListStarts, ListThrows, ListEnds, RevokeLooksUp, RevokeDeletes, RevokeThrows, Admitted, Sent
<1>7. CASE UNCHANGED <<cmd, job, heard>>
  BY <1>7
<1> QED
  BY <1>3, <1>4, <1>5, <1>6, <1>7
  DEF Next, AdminNext, vars, adminVars, ListLooksUp, Sweep, Issue

-----------------------------------------------------------------------------
(* Revocations.                                                            *)

\* What lives or was announced has been sold, and an answer that a key is gone is so.
RevokesInv ==
  /\ store \cup expired \subseteq SoldKeys
  /\ expired \cap store = {}
  /\ \A o \in Commands : cmd[o] # None /\ cmd[o].verb = "revoke" =>
       /\ cmd[o].token \in SoldKeys
       /\ \/ job[o]["revoke"] = "200"
          \/ job[o]["revoke"] = "404" /\ cmd[o].at \in Keyed
          => cmd[o].token \notin store

LEMMA InitRevokes == Init => RevokesInv
BY DEF Init, AdminInit, RevokesInv

LEMMA TypedStep ==
  ASSUME [Next]_vars PROVE cmd' = cmd \/ \E p \in Commands, line \in Lines : Type(p, line)
BY DEF Next, AdminNext, vars, adminVars, Response, Lost, Hears, NoRoute, Denied, Answers,
       ListStarts, ListLooksUp, ListThrows, ListEnds, RevokeLooksUp, RevokeDeletes, RevokeThrows,
       Proceeds, Issue, Sweep

LEMMA SoldWhenTyped ==
  ASSUME AdminTyped, Followed, [Next]_vars, NEW o \in Commands, cmd[o] = None, cmd'[o] # None,
         cmd'[o].verb = "revoke"
  PROVE  cmd'[o].token \in SoldKeys /\ job'[o]["revoke"] = "sent"
<1> DEFINE Goal == cmd'[o].token \in SoldKeys /\ job'[o]["revoke"] = "sent"
<1>2. PICK p \in Commands, line \in Lines : Type(p, line)
  BY TypedStep
<1>3. p = o
  BY <1>2 DEF Type, AdminTyped
<1>4. cmd'[o] = Parse(line) /\ Understood(line)
  BY <1>2, <1>3 DEF Type, AdminTyped
<1>5. Tokens \cap ToSet(line.args) = {Parse(line).token}
  BY <1>4, Parsed
<1>6. Parse(line).token \in SoldKeys
  BY <1>2, <1>5 DEF Type, SoldKeys
<1>7. "revoke" \in Routes /\ "revoke" \in Asks("revoke")
  BY DEF Routes, Asks
<1>8. job'[o]["revoke"] = "sent"
  BY <1>2, <1>3, <1>4, <1>7 DEF Type, AdminTyped
<1> QED
  BY <1>4, <1>6, <1>8

\* The steps that answer a revocation.
LEMMA RevokeStep ==
  ASSUME AdminTyped, Followed, [Next]_vars, NEW o \in Commands, cmd[o] # None, cmd[o].verb = "revoke",
         job'[o]["revoke"] # job[o]["revoke"], job'[o]["revoke"] \in {"200", "404"}
  PROVE  \/ cmd[o].token \notin store'
         \/ job'[o]["revoke"] = "404" /\ cmd[o].at \notin Keyed
<1> DEFINE Goal == \/ cmd[o].token \notin store'
                   \/ job'[o]["revoke"] = "404" /\ cmd[o].at \notin Keyed
<1> USE DEF Routes, Statuses
<1>1. ASSUME NEW p \in Commands, NEW q \in Routes, NEW to, Proceeds(p, q, to)
      PROVE  p = o /\ q = "revoke" /\ job'[o]["revoke"] = to
  BY <1>1 DEF Proceeds, AdminTyped
<1>2. ASSUME NEW p \in Commands, NEW line \in Lines, Type(p, line) PROVE Goal
  BY <1>2 DEF Type, AdminTyped
<1>3. ASSUME NEW p \in Commands, NEW q \in Routes, NEW s, Hears(p, q, s) PROVE Goal
  BY <1>3 DEF Hears, AdminTyped
<1>4. ASSUME NEW p \in Commands, NEW q \in Routes, NoRoute(p, q) PROVE Goal
  <2>1. p = o /\ q = "revoke" /\ job'[o]["revoke"] = "404"
    BY <1>1, <1>4 DEF NoRoute
  <2> QED
    BY <1>4, <2>1 DEF NoRoute, Has
<1>5. ASSUME NEW p \in Commands, NEW q \in Routes, Denied(p, q) \/ Answers(p, q) PROVE Goal
  BY <1>1, <1>5 DEF Denied, Answers
<1>6. ASSUME NEW p \in Commands, ListStarts(p) \/ ListThrows(p) \/ ListEnds(p) PROVE Goal
  BY <1>1, <1>6 DEF ListStarts, ListThrows, ListEnds
<1>7. ASSUME NEW p \in Commands, RevokeLooksUp(p) PROVE Goal
  <2>1. p = o /\ job'[o]["revoke"] = IF cmd[p].token \in store THEN "found" ELSE "404"
    BY <1>1, <1>7 DEF RevokeLooksUp
  <2> QED
    BY <1>7, <2>1 DEF RevokeLooksUp
<1>8. ASSUME NEW p \in Commands, RevokeDeletes(p) PROVE Goal
  BY <1>1, <1>8 DEF RevokeDeletes, Gone
<1>9. ASSUME NEW p \in Commands, RevokeThrows(p) PROVE Goal
  BY <1>1, <1>9 DEF RevokeThrows
<1>10. CASE job' = job
  BY <1>10
<1> QED
  BY <1>2, <1>3, <1>4, <1>5, <1>6, <1>7, <1>8, <1>9, <1>10
  DEF Next, AdminNext, vars, adminVars, ListLooksUp, Sweep, Issue, Response, Lost

LEMMA ExpiredStep ==
  ASSUME [Next]_vars
  PROVE  \/ expired' = expired
         \/ \E o \in Commands : /\ job[o]["revoke"] = "found"
                                /\ expired' = expired \cup {cmd[o].token}
                                /\ store' = store \ {cmd[o].token}
BY DEF Next, AdminNext, vars, adminVars, keys, Type, Response, Lost, Hears, NoRoute, Denied, Answers,
       ListStarts, ListLooksUp, ListThrows, ListEnds, RevokeLooksUp, RevokeDeletes, RevokeThrows,
       Proceeds, Issue, Sweep, Gone

LEMMA NextRevokes ==
  ASSUME AdminTyped, Followed, RevokesInv, [Next]_vars
  PROVE  RevokesInv'
<1>1. store' \subseteq SoldKeys'
  BY StoreStep DEF RevokesInv
<1>2. \A k \in expired' : k \in SoldKeys' /\ k \notin store'
  <2>1. \A k \in expired : k \in SoldKeys' /\ k \notin store'
    BY StoreStep DEF RevokesInv
  <2>2. ASSUME NEW o \in Commands, job[o]["revoke"] = "found" PROVE cmd[o].token \in SoldKeys'
    <3>1. cmd[o] # None /\ cmd[o].verb = "revoke"
      BY <2>2, Requested DEF Routes
    <3> QED
      BY <3>1, StoreStep DEF RevokesInv
  <2> QED
    BY <2>1, <2>2, ExpiredStep
<1>3. ASSUME NEW o \in Commands, cmd'[o] # None, cmd'[o].verb = "revoke"
      PROVE  /\ cmd'[o].token \in SoldKeys'
             /\ \/ job'[o]["revoke"] = "200"
                \/ job'[o]["revoke"] = "404" /\ cmd'[o].at \in Keyed
                => cmd'[o].token \notin store'
  <2>1. CASE cmd[o] = None
    BY <1>3, <2>1, SoldWhenTyped, StoreStep
  <2>2. CASE cmd[o] # None
    <3>1. cmd'[o] = cmd[o]
      BY <2>2, CommandStep DEF Routes
    <3>2. cmd[o].token \in SoldKeys /\ cmd[o].token \in SoldKeys'
      BY <1>3, <2>2, <3>1, StoreStep DEF RevokesInv
    <3>3. CASE job'[o]["revoke"] = job[o]["revoke"]
      BY <1>3, <2>2, <3>1, <3>2, <3>3, StoreStep DEF RevokesInv
    <3>4. CASE job'[o]["revoke"] # job[o]["revoke"]
      BY <1>3, <2>2, <3>1, <3>2, <3>4, RevokeStep
    <3> QED
      BY <3>3, <3>4
  <2> QED
    BY <2>1, <2>2
<1> QED
  BY <1>1, <1>2, <1>3 DEF RevokesInv

LEMMA AlwaysRevokes == Spec => [](AdminTyped /\ Followed /\ RevokesInv)
BY InitTyped, NextTyped, InitFollowed, NextFollowed, InitRevokes, NextRevokes, PTL DEF Spec

\* An operator is told that a key is gone only if it is, whatever other operators,
\* sales, sweeps, failures of the store and losses of the network do meanwhile.
THEOREM RevocationsReported == Spec => []RevokeReportsTrue
<1>1. AdminTyped /\ Followed /\ RevokesInv => RevokeReportsTrue
  <2> SUFFICES ASSUME AdminTyped, Followed, RevokesInv, NEW o \in Commands,
                      cmd[o] # None, cmd[o].verb = "revoke"
               PROVE  \/ Tokens \cap ToSet(cmd[o].line.args) \cap store = {}
                      \/ Report(o) \in {"pending", "unauthorized", "failed"}
                      \/ Report(o) = "not found" /\ cmd[o].at \notin Keyed
    BY DEF RevokeReportsTrue, RevokesInv
  <2>1. Tokens \cap ToSet(cmd[o].line.args) = {cmd[o].token}
    BY TypedLine
  <2>2. Report(o) = IF heard[o]["revoke"] = None THEN "pending" ELSE RevokePrints(heard[o]["revoke"])
    BY DEF Report, Asks
  <2>3. CASE heard[o]["revoke"] \in {"200", "404"}
    <3>1. job[o]["revoke"] = heard[o]["revoke"]
      BY <2>3 DEF Followed, Routes, Statuses
    <3>2. Report(o) = RevokePrints(heard[o]["revoke"])
      BY <2>2, <2>3, AdminAssumption
    <3> QED
      BY <2>1, <2>3, <3>1, <3>2 DEF RevokesInv, RevokePrints
  <2>4. CASE heard[o]["revoke"] \notin {"200", "404"}
    BY <2>2, <2>4 DEF RevokePrints
  <2> QED
    BY <2>3, <2>4
<1> QED
  BY AlwaysRevokes, <1>1, PTL

-----------------------------------------------------------------------------
(* Listings.                                                               *)

\* A revocation that found its key keeps it until it has failed or deleted it.
LEMMA FoundStep ==
  ASSUME AdminTyped, Followed, [Next]_vars, NEW o \in Commands, job[o]["revoke"] = "found"
  PROVE  \/ job'[o]["revoke"] \in {"found", "500"}
         \/ job'[o]["revoke"] = "200" /\ cmd[o].token \notin store'
<1> DEFINE Goal == \/ job'[o]["revoke"] \in {"found", "500"}
                   \/ job'[o]["revoke"] = "200" /\ cmd[o].token \notin store'
<1> USE DEF Routes, Statuses
<1>1. ASSUME NEW p \in Commands, NEW q \in Routes, NEW to, Proceeds(p, q, to)
      PROVE  job'[o]["revoke"] = IF p = o /\ q = "revoke" THEN to ELSE job[o]["revoke"]
  BY <1>1 DEF Proceeds, AdminTyped
<1>2. ASSUME NEW p \in Commands, NEW line \in Lines, Type(p, line) PROVE Goal
  <2>1. cmd[p] = None /\ cmd[o] # None
    BY <1>2 DEF Type, Followed
  <2> QED
    BY <1>2, <2>1 DEF Type, AdminTyped
<1>3. ASSUME NEW p \in Commands, NEW q \in Routes, NEW s, Hears(p, q, s) PROVE Goal
  BY <1>3 DEF Hears, AdminTyped
<1>4. ASSUME NEW p \in Commands, NEW q \in Routes, NoRoute(p, q) \/ Denied(p, q) \/ Answers(p, q)
      PROVE  Goal
  BY <1>1, <1>4 DEF NoRoute, Denied, Answers, Admitted, Sent
<1>5. ASSUME NEW p \in Commands, ListStarts(p) \/ ListThrows(p) \/ ListEnds(p) PROVE Goal
  BY <1>1, <1>5 DEF ListStarts, ListThrows, ListEnds
<1>6. ASSUME NEW p \in Commands, RevokeLooksUp(p) \/ RevokeThrows(p) PROVE Goal
  BY <1>1, <1>6 DEF RevokeLooksUp, RevokeThrows, Admitted, Sent
<1>7. ASSUME NEW p \in Commands, RevokeDeletes(p) PROVE Goal
  BY <1>1, <1>7 DEF RevokeDeletes, Gone
<1>8. CASE job' = job
  BY <1>8
<1> QED
  BY <1>2, <1>3, <1>4, <1>5, <1>6, <1>7, <1>8
  DEF Next, AdminNext, vars, adminVars, ListLooksUp, Sweep, Issue, Response, Lost

\* What a revocation took from the index stays taken, while the key lives.
LEMMA TakenStep ==
  ASSUME AdminTyped, Followed, [Next]_vars, NEW g
  PROVE  /\ Taken(g, {"found", "500", "200"}) \subseteq Taken(g, {"found", "500", "200"})'
         /\ Taken(g, {"found", "500"}) \cap store' \subseteq Taken(g, {"found", "500"})'
<1>1. \A p \in Commands :
        /\ cmd[p] # None => cmd'[p] = cmd[p]
        /\ job[p]["revoke"] \in {"200", "500"} => job'[p]["revoke"] = job[p]["revoke"]
  BY CommandStep DEF Routes, Statuses
<1>2. \A p \in Commands : job[p]["revoke"] = "found" =>
        \/ job'[p]["revoke"] \in {"found", "500"}
        \/ job'[p]["revoke"] = "200" /\ cmd[p].token \notin store'
  BY FoundStep
<1>3. ASSUME NEW k \in Taken(g, {"found", "500", "200"}) PROVE k \in Taken(g, {"found", "500", "200"})'
  BY <1>1, <1>2 DEF Taken
<1>4. ASSUME NEW k \in Taken(g, {"found", "500"}), k \in store' PROVE k \in Taken(g, {"found", "500"})'
  BY <1>1, <1>2, <1>4 DEF Taken
<1> QED
  BY <1>3, <1>4

\* What leaves an index is dead, or a revocation has it.
LEMMA IndexStep ==
  ASSUME AdminTyped, Followed, [Next]_vars, NEW g \in Gateways
  PROVE  index[g] \cap store' \subseteq index'[g] \cup Taken(g, {"found", "500"})'
<1> DEFINE Goal == index[g] \cap store' \subseteq index'[g] \cup Taken(g, {"found", "500"})'
<1>1. CASE index' = index
  BY <1>1
<1>2. ASSUME NEW o \in Commands, NEW k \in Tokens, ListLooksUp(o, k) PROVE Goal
  BY <1>2 DEF ListLooksUp, AdminTyped
<1>3. ASSUME NEW o \in Commands, RevokeLooksUp(o) PROVE Goal
  <2>1. cmd[o] # None /\ cmd[o].token \in Tokens
    BY <1>3, Requested DEF RevokeLooksUp, Admitted, Sent, Routes
  <2>2. store' = store /\ cmd' = cmd /\ index' = [index EXCEPT ![cmd[o].at] = @ \ {cmd[o].token}]
    BY <1>3 DEF RevokeLooksUp, Proceeds
  <2>3. cmd[o].token \in store => job'[o]["revoke"] = "found"
    BY <1>3 DEF RevokeLooksUp, Proceeds, AdminTyped, Routes
  <2>4. cmd[o].at = g /\ cmd[o].token \in store => cmd[o].token \in Taken(g, {"found", "500"})'
    BY <2>1, <2>2, <2>3 DEF Taken
  <2> QED
    BY <2>2, <2>4 DEF AdminTyped
<1>4. ASSUME NEW h \in Selling, NEW k \in Tokens, Issue(h, k) PROVE Goal
  BY <1>4 DEF Issue, AdminTyped
<1> QED
  BY <1>1, <1>2, <1>3, <1>4
  DEF Next, AdminNext, vars, adminVars, keys, Type, Response, Lost, Hears, NoRoute, Denied, Answers,
      ListStarts, ListThrows, ListEnds, RevokeDeletes, RevokeThrows, Proceeds, Sweep

\* A call log only grows, by a key that was not sold before and is in the index.
LEMMA LogStep ==
  ASSUME AdminTyped, [Next]_vars, NEW g \in Gateways
  PROVE  ToSet(callLog'[g]) \ ToSet(callLog[g]) \subseteq index'[g] \ SoldKeys
<1> DEFINE Goal == ToSet(callLog'[g]) \ ToSet(callLog[g]) \subseteq index'[g] \ SoldKeys
<1>1. CASE callLog' = callLog
  BY <1>1
<1>2. ASSUME NEW k \in Tokens, NEW h \in Selling, Issue(h, k) PROVE Goal
  <2>1. h \in Gateways
    BY AdminAssumption
  <2>2. /\ callLog' = [callLog EXCEPT ![h] = Append(@, k)]
        /\ index' = [index EXCEPT ![h] = @ \cup {k}]
        /\ k \notin SoldKeys
    BY <1>2 DEF Issue, SoldKeys
  <2>3. ToSet(Append(callLog[h], k)) = ToSet(callLog[h]) \cup {k}
    <3>1. callLog[h] \in Seq(Tokens)
      BY <2>1 DEF AdminTyped
    <3> QED
      BY <3>1, AppendSet
  <2> QED
    BY <2>1, <2>2, <2>3 DEF AdminTyped
<1> QED
  BY <1>1, <1>2
  DEF Next, AdminNext, vars, adminVars, keys, Type, Response, Lost, Hears, NoRoute, Denied, Answers,
      ListStarts, ListLooksUp, ListThrows, ListEnds, RevokeLooksUp, RevokeDeletes, RevokeThrows,
      Proceeds, Sweep

\* No living key is missing from the index without a revocation.
IndexHolds ==
  \A g \in Gateways :
    ToSet(callLog[g]) \cap store \subseteq index[g] \cup Taken(g, {"found", "500"})

LEMMA NextIndex ==
  ASSUME AdminTyped, Followed, RevokesInv, IndexHolds, [Next]_vars
  PROVE  IndexHolds'
<1> SUFFICES ASSUME NEW g \in Gateways, NEW k \in ToSet(callLog'[g]), k \in store'
             PROVE  k \in index'[g] \cup Taken(g, {"found", "500"})'
  BY DEF IndexHolds
<1>1. CASE k \notin ToSet(callLog[g])
  BY <1>1, LogStep
<1>2. CASE k \in ToSet(callLog[g])
  <2>1. k \in store
    <3>1. k \in SoldKeys
      BY <1>2 DEF SoldKeys
    <3> QED
      BY <3>1, StoreStep
  <2>2. k \in index[g] \cup Taken(g, {"found", "500"})
    BY <1>2, <2>1 DEF IndexHolds
  <2> QED
    BY <2>2, IndexStep, TakenStep
<1> QED
  BY <1>1, <1>2

\* What a listing has looked up and been sent, while its answer may still be the keys.
ListsInv ==
  \A o \in Commands :
    /\ lasted[o] \subseteq SoldKeys
    /\ job[o]["keys"] # "walking" => walked[o] = {}
    /\ cmd[o] # None /\ cmd[o].verb = "list" =>
         /\ heard[o]["keys"] = None =>
              /\ lasted[o] \subseteq store
              /\ job[o]["keys"] = "walking" => walked[o] \cap lasted[o] \subseteq shown[o]
         /\ heard[o]["keys"] \in {None, "200"} /\ job[o]["keys"] = "200" =>
              \A g : g = cmd[o].at =>
                lasted[o] \cap ToSet(callLog[g]) \subseteq shown[o] \cup Taken(g, {"found", "500", "200"})

LEMMA InitLists == Init => IndexHolds /\ ListsInv
BY DEF Init, AdminInit, IndexHolds, ListsInv, Routes

\* A key that dies while a listing waits for the keys has not lasted.
LEMMA GoneStep ==
  ASSUME AdminTyped, NEW k, Gone(k), NEW o \in Commands
  PROVE  /\ lasted'[o] \subseteq lasted[o]
         /\ cmd[o] # None /\ cmd[o].verb = "list" /\ heard[o]["keys"] = None => k \notin lasted'[o]
<1>1. lasted'[o] = IF Listing(o) THEN lasted[o] \ {k} ELSE lasted[o]
  BY DEF Gone
<1>2. cmd[o] # None /\ cmd[o].verb = "list" /\ heard[o]["keys"] = None => Listing(o)
  BY DEF Listing, Report, Asks
<1> QED
  BY <1>1, <1>2

LEMMA LastedStep ==
  ASSUME AdminTyped, Followed, [Next]_vars, NEW o \in Commands, \A line \in Lines : ~Type(o, line)
  PROVE  /\ lasted'[o] \subseteq lasted[o]
         /\ cmd[o] # None /\ cmd[o].verb = "list" /\ heard[o]["keys"] = None
              => lasted'[o] \cap store \subseteq store'
<1> DEFINE Goal == /\ lasted'[o] \subseteq lasted[o]
                   /\ cmd[o] # None /\ cmd[o].verb = "list" /\ heard[o]["keys"] = None
                        => lasted'[o] \cap store \subseteq store'
<1>1. CASE lasted' = lasted /\ store \subseteq store'
  BY <1>1
<1>2. ASSUME NEW k, Gone(k) PROVE Goal
  BY <1>2, GoneStep DEF Gone
<1>3. ASSUME NEW p \in Commands, NEW line \in Lines, Type(p, line) PROVE Goal
  BY <1>3 DEF Type, keys, AdminTyped
<1>4. ASSUME NEW p \in Commands, RevokeDeletes(p) \/ RevokeThrows(p) PROVE Goal
  BY <1>1, <1>2, <1>4 DEF RevokeDeletes, RevokeThrows
<1>5. ASSUME NEW k \in Tokens, Sweep(k) PROVE Goal
  BY <1>2, <1>5 DEF Sweep
<1> QED
  BY <1>1, <1>3, <1>4, <1>5
  DEF Next, AdminNext, vars, adminVars, keys, Response, Lost, Hears, NoRoute, Denied, Answers,
      ListStarts, ListLooksUp, ListThrows, ListEnds, RevokeLooksUp, Proceeds, Issue

\* What a step does to the walk of a command.
LEMMA WalkStep ==
  ASSUME AdminTyped, Followed, [Next]_vars, NEW o \in Commands
  PROVE  \/ /\ walked'[o] = walked[o]
            /\ shown'[o] = shown[o] \/ heard[o]["keys"] \notin {None, "200"} \/ cmd[o].verb # "list"
            /\ \/ job'[o]["keys"] = job[o]["keys"]
               \/ job[o]["keys"] \in {"none", "sent"} /\ job'[o]["keys"] # "200"
         \/ \E k \in Tokens : ListLooksUp(o, k)
         \/ ListThrows(o)
         \/ ListEnds(o)
<1> DEFINE Same == /\ walked'[o] = walked[o]
                   /\ shown'[o] = shown[o] \/ heard[o]["keys"] \notin {None, "200"} \/ cmd[o].verb # "list"
                   /\ \/ job'[o]["keys"] = job[o]["keys"]
                      \/ job[o]["keys"] \in {"none", "sent"} /\ job'[o]["keys"] # "200"
<1> USE DEF Routes, Statuses
<1>1. ASSUME NEW p \in Commands, NEW line \in Lines, Type(p, line) PROVE Same
  <2>1. walked' = walked /\ shown' = shown
    BY <1>1 DEF Type
  <2>2. job'[o] = job[o] \/ o = p
    BY <1>1 DEF Type, AdminTyped
  <2>3. o = p => job[o]["keys"] = "none" /\ job'[o]["keys"] \in {"none", "sent"}
    BY <1>1 DEF Type, AdminTyped, Followed
  <2> QED
    BY <2>1, <2>2, <2>3
<1>2. ASSUME NEW p \in Commands, NEW q \in Routes, NEW s, Hears(p, q, s) PROVE Same
  BY <1>2 DEF Hears, AdminTyped
<1>3. ASSUME NEW p \in Commands, NEW q \in Routes, NEW to, Proceeds(p, q, to),
             job[p][q] = "sent" \/ q # "keys", to # "200" \/ q # "keys"
      PROVE  \/ job'[o]["keys"] = job[o]["keys"]
             \/ job[o]["keys"] \in {"none", "sent"} /\ job'[o]["keys"] # "200"
  BY <1>3 DEF Proceeds, AdminTyped
<1>4. ASSUME NEW p \in Commands, NEW q \in Routes, NoRoute(p, q) \/ Denied(p, q) PROVE Same
  BY <1>3, <1>4 DEF NoRoute, Denied, Sent
<1>5. ASSUME NEW p \in Commands, NEW q \in Routes, Answers(p, q) PROVE Same
  <2>1. walked' = walked
    BY <1>5 DEF Answers
  <2>2. \/ job'[o]["keys"] = job[o]["keys"]
        \/ job[o]["keys"] \in {"none", "sent"} /\ job'[o]["keys"] # "200"
    BY <1>3, <1>5 DEF Answers, Admitted, Sent
  <2>3. CASE p # o \/ q # "calls"
    BY <1>5, <2>1, <2>2, <2>3 DEF Answers, AdminTyped
  <2>4. CASE p = o /\ q = "calls"
    <3>1. job[o]["calls"] = "sent"
      BY <1>5, <2>4 DEF Answers, Admitted, Sent
    <3>2. cmd[o].verb # "list" \/ heard[o]["keys"] \notin {None, "200"}
      BY <3>1 DEF Followed, Asks
    <3> QED
      BY <2>1, <2>2, <3>2
  <2> QED
    BY <2>3, <2>4
<1>6. ASSUME NEW p \in Commands, p # o, \/ ListThrows(p) \/ ListEnds(p)
                                        \/ \E k \in Tokens : ListLooksUp(p, k)
      PROVE  Same
  BY <1>6 DEF ListThrows, ListEnds, ListLooksUp, Proceeds, AdminTyped
<1>7. ASSUME NEW p \in Commands, ListStarts(p) PROVE Same
  BY <1>3, <1>7 DEF ListStarts, Admitted, Sent
<1>8. ASSUME NEW p \in Commands, RevokeLooksUp(p) \/ RevokeDeletes(p) \/ RevokeThrows(p) PROVE Same
  BY <1>3, <1>8 DEF RevokeLooksUp, RevokeDeletes, RevokeThrows
<1>9. CASE job' = job /\ walked' = walked /\ shown' = shown
  BY <1>9
<1> QED
  BY <1>1, <1>2, <1>4, <1>5, <1>6, <1>7, <1>8, <1>9
  DEF Next, AdminNext, vars, adminVars, Response, Lost, Sweep, Issue

\* A listing that is typed begins with what lives, and has looked up nothing.
LEMMA ListTypedIn ==
  ASSUME AdminTyped, Followed, RevokesInv, ListsInv, [Next]_vars, NEW o \in Commands, cmd[o] = None
  PROVE  /\ lasted'[o] \subseteq SoldKeys
         /\ walked'[o] = {} /\ job'[o]["keys"] \in {"none", "sent"}
         /\ cmd'[o] # None /\ cmd'[o].verb = "list" => lasted'[o] \subseteq store'
<1> DEFINE Goal == /\ lasted'[o] \subseteq SoldKeys
                   /\ walked'[o] = {} /\ job'[o]["keys"] \in {"none", "sent"}
                   /\ cmd'[o] # None /\ cmd'[o].verb = "list" => lasted'[o] \subseteq store'
<1> USE DEF Routes, Statuses
<1>1. /\ \A r \in Routes : job[o][r] = "none" /\ heard[o][r] = None
      /\ walked[o] = {} /\ lasted[o] \subseteq SoldKeys
  BY DEF Followed, ListsInv
<1>2. ASSUME NEW line \in Lines, Type(o, line) PROVE Goal
  <2>1. /\ cmd'[o] = Parse(line) /\ store' = store /\ walked' = walked
        /\ lasted'[o] = IF Parse(line).verb = "list" THEN store ELSE {}
    BY <1>2 DEF Type, keys, AdminTyped
  <2>2. job'[o]["keys"] \in {"none", "sent"}
    BY <1>1, <1>2 DEF Type, AdminTyped
  <2> QED
    BY <1>1, <2>1, <2>2 DEF RevokesInv
<1>3. CASE \A line \in Lines : ~Type(o, line)
  <2>1. cmd'[o] = None
    BY <1>3, TypedStep DEF Type, AdminTyped
  <2>2. job'[o]["keys"] = "none"
    BY <2>1, NextFollowed DEF Followed
  <2>3. walked'[o] = {}
    BY <1>1, WalkStep DEF ListLooksUp, ListThrows, ListEnds
  <2> QED
    BY <1>1, <1>3, <2>1, <2>2, <2>3, LastedStep
<1> QED
  BY <1>2, <1>3

\* What is shown and what was taken is all that lasted, when the walk ends.
LEMMA WalkEnds ==
  ASSUME AdminTyped, Followed, RevokesInv, IndexHolds, ListsInv, [Next]_vars, NEW o \in Commands,
         cmd[o] # None, cmd[o].verb = "list", heard[o]["keys"] = None, ListEnds(o)
  PROVE  lasted'[o] \cap ToSet(callLog'[cmd[o].at])
           \subseteq shown'[o] \cup Taken(cmd[o].at, {"found", "500", "200"})
<1>1. /\ shown' = shown /\ lasted' = lasted /\ callLog' = callLog
      /\ job[o]["keys"] = "walking" /\ index[cmd[o].at] \subseteq walked[o]
  BY DEF ListEnds, Proceeds
<1>2. cmd[o].at \in Gateways
  BY <1>1, Requested DEF Routes
<1>3. lasted[o] \subseteq store /\ walked[o] \cap lasted[o] \subseteq shown[o]
  BY <1>1 DEF ListsInv
<1>4. ToSet(callLog[cmd[o].at]) \cap store \subseteq index[cmd[o].at] \cup Taken(cmd[o].at, {"found", "500"})
  BY <1>2 DEF IndexHolds
<1>5. Taken(cmd[o].at, {"found", "500"}) \subseteq Taken(cmd[o].at, {"found", "500", "200"})
  BY DEF Taken
<1> QED
  BY <1>1, <1>3, <1>4, <1>5

LEMMA NextLists ==
  ASSUME AdminTyped, Followed, RevokesInv, IndexHolds, ListsInv, [Next]_vars
  PROVE  ListsInv'
<1> USE DEF Routes, Statuses
<1> SUFFICES ASSUME NEW o \in Commands
             PROVE  /\ lasted'[o] \subseteq SoldKeys'
                    /\ job'[o]["keys"] # "walking" => walked'[o] = {}
                    /\ cmd'[o] # None /\ cmd'[o].verb = "list" =>
                         /\ heard'[o]["keys"] = None =>
                              /\ lasted'[o] \subseteq store'
                              /\ job'[o]["keys"] = "walking" => walked'[o] \cap lasted'[o] \subseteq shown'[o]
                         /\ heard'[o]["keys"] \in {None, "200"} /\ job'[o]["keys"] = "200" =>
                              \A g : g = cmd'[o].at =>
                                lasted'[o] \cap ToSet(callLog'[g])
                                  \subseteq shown'[o] \cup Taken(g, {"found", "500", "200"})'
  BY DEF ListsInv
<1>1. CASE cmd[o] = None
  BY <1>1, ListTypedIn, StoreStep
<1>2. CASE cmd[o] # None
  <2>1. cmd'[o] = cmd[o] /\ (heard[o]["keys"] # None => heard'[o]["keys"] = heard[o]["keys"])
    BY <1>2, CommandStep
  <2>2. lasted'[o] \subseteq lasted[o] /\ lasted[o] \subseteq SoldKeys /\ SoldKeys \subseteq SoldKeys'
    <3>1. \A line \in Lines : ~Type(o, line)
      BY <1>2 DEF Type
    <3> QED
      BY <3>1, LastedStep, StoreStep DEF ListsInv
  <2>3. job'[o]["keys"] # "walking" => walked'[o] = {}
    <3>1. ListThrows(o) \/ ListEnds(o) => walked'[o] = {}
      BY DEF ListThrows, ListEnds, AdminTyped
    <3>2. (\E k \in Tokens : ListLooksUp(o, k)) => job'[o]["keys"] = "walking"
      BY DEF ListLooksUp
    <3> QED
      BY <3>1, <3>2, WalkStep DEF ListsInv
  <2>4. ASSUME cmd[o].verb = "list", heard'[o]["keys"] = None
        PROVE  /\ lasted'[o] \subseteq store'
               /\ job'[o]["keys"] = "walking" => walked'[o] \cap lasted'[o] \subseteq shown'[o]
    <3>1. heard[o]["keys"] = None /\ lasted[o] \subseteq store
      BY <1>2, <2>1, <2>4 DEF ListsInv
    <3>2. lasted'[o] \subseteq store'
      <4>1. \A line \in Lines : ~Type(o, line)
        BY <1>2 DEF Type
      <4> QED
        BY <1>2, <2>2, <2>4, <3>1, <4>1, LastedStep
    <3>3. job[o]["keys"] = "walking" => walked[o] \cap lasted[o] \subseteq shown[o]
      BY <1>2, <2>4, <3>1 DEF ListsInv
    <3>4. CASE \E k \in Tokens : ListLooksUp(o, k)
      BY <2>2, <3>1, <3>2, <3>3, <3>4 DEF ListLooksUp, AdminTyped
    <3>5. CASE ListThrows(o) \/ ListEnds(o)
      BY <3>2, <3>5 DEF ListThrows, ListEnds, Proceeds, AdminTyped
    <3>6. CASE /\ walked'[o] = walked[o] /\ shown'[o] = shown[o]
               /\ \/ job'[o]["keys"] = job[o]["keys"]
                  \/ job[o]["keys"] \in {"none", "sent"} /\ job'[o]["keys"] # "200"
      BY <2>2, <3>2, <3>3, <3>6 DEF ListsInv
    <3> QED
      BY <2>4, <3>1, <3>4, <3>5, <3>6, WalkStep
  <2>5. ASSUME cmd[o].verb = "list", heard'[o]["keys"] \in {None, "200"}, job'[o]["keys"] = "200",
               NEW g, g = cmd[o].at
        PROVE  lasted'[o] \cap ToSet(callLog'[g]) \subseteq shown'[o] \cup Taken(g, {"found", "500", "200"})'
    <3>1. heard[o]["keys"] \in {None, "200"}
      BY <2>1, <2>5
    <3>2. Taken(g, {"found", "500", "200"}) \subseteq Taken(g, {"found", "500", "200"})'
      BY TakenStep
    <3>3. CASE job[o]["keys"] = "200" /\ shown'[o] = shown[o]
      <4>1. g \in Gateways
        BY <2>5, <3>3, Requested
      <4>2. ToSet(callLog'[g]) \cap SoldKeys \subseteq ToSet(callLog[g])
        BY <4>1, LogStep
      <4>3. lasted[o] \cap ToSet(callLog[g])
              \subseteq shown[o] \cup Taken(g, {"found", "500", "200"})
        BY <1>2, <2>5, <3>1, <3>3 DEF ListsInv
      <4> QED
        BY <2>2, <3>2, <3>3, <4>2, <4>3
    <3>4. CASE ListEnds(o)
      <4>1. heard[o]["keys"] # "200"
        BY <3>4 DEF ListEnds, Followed
      <4> QED
        BY <1>2, <2>5, <3>1, <3>2, <3>4, <4>1, WalkEnds
    <3>5. CASE (\E k \in Tokens : ListLooksUp(o, k)) \/ ListThrows(o)
      BY <2>5, <3>5 DEF ListLooksUp, ListThrows, Proceeds, AdminTyped
    <3> QED
      BY <2>5, <3>1, <3>3, <3>4, <3>5, WalkStep
  <2> QED
    BY <1>2, <2>1, <2>2, <2>3, <2>4, <2>5
<1> QED
  BY <1>1, <1>2

LEMMA AlwaysLists == Spec => [](Followed /\ IndexHolds /\ ListsInv)
<1>1. Init => IndexHolds /\ ListsInv
  BY InitLists
<1>2. AdminTyped /\ Followed /\ RevokesInv /\ IndexHolds /\ ListsInv /\ [Next]_vars
        => IndexHolds' /\ ListsInv'
  BY NextIndex, NextLists
<1> QED
  BY AlwaysRevokes, <1>1, <1>2, PTL DEF Spec

\* A listing that an operator gets is whole, and so is the index, whatever is sold,
\* swept and revoked while it walks.
THEOREM ListingsHonest == Spec => []ListsAreHonest
<1>1. Followed /\ IndexHolds /\ ListsInv => ListsAreHonest
  <2> SUFFICES ASSUME Followed, ListsInv, NEW o \in Commands, cmd[o] # None, Report(o) = "keys"
               PROVE  lasted[o] \cap ToSet(callLog[cmd[o].at])
                        \subseteq shown[o] \cup Taken(cmd[o].at, {"found", "500", "200"})
    BY DEF ListsAreHonest, IndexHolds
  <2>1. cmd[o].verb = "list" /\ heard[o]["keys"] = "200"
    BY DEF Report, RevokePrints, ListPrints
  <2>2. job[o]["keys"] = "200"
    BY <2>1 DEF Followed, Routes, Statuses
  <2> QED
    BY <2>1, <2>2 DEF ListsInv
<1> QED
  BY AlwaysLists, <1>1, PTL
=============================================================================
