------------------------- MODULE QuestionImportProofs -------------------------
(***************************************************************************)
(* Theorems about QuestionImport, for every value of its constants: any    *)
(* files, mappings and keys, and any number of sessions and requests.      *)
(***************************************************************************)
EXTENDS QuestionImport, SequenceTheorems, FiniteSetTheorems, TLAPS

-----------------------------------------------------------------------------
(* The inductive invariant.                                                *)

Open == [file : Files, mapping : Mappings]
Previews == [session : Nat, mapping : Mappings \union {None}, valid : Nat]
Stages == {"sent", "read", "filling", "recorded", "answered", "refused"}
Requests ==
  [kind : {"preview", "tabs", "mapping", "commit"}, stage : Stages, session : Nat,
   file : Files \union {None}, mapping : Mappings \union {None}, from : Spreadsheets \union {None},
   todo : Seq(Keys), created : Nat, success : Nat, errors : Nat, preview : Previews,
   heard : BOOLEAN]
Pages ==
  [step : 1 .. 3, furthest : 1 .. 3, source : {None, "file", "json", "google"},
   preview : Previews, error : BOOLEAN, loading : BOOLEAN, committing : BOOLEAN, done : BOOLEAN,
   connected : {"unknown", "yes", "no"}, spreadsheet : Spreadsheets \union {None},
   tabs : SUBSET Files, sheet : Files \union {None}, loadingTabs : BOOLEAN]
Records == [session : Nat, total : Nat, created : Nat, success : Nat, errors : Nat]

\* A commit has created, or has still to create, the rows it counts as
\* successes, and each row of the file is one of them or an error.
Counts(r) ==
  r.created + Len(r.todo) = r.success /\ r.success + r.errors = Len(RowsOf(r))

\* A request is of the sessions there are, and has the rows it needs.
OfRequest(r, u) ==
  /\ r.session <= u /\ r.preview.session <= u
  /\ r.kind \in {"mapping", "commit"} => r.session >= 1
  /\ r.kind \in {"preview", "mapping"} /\ r.stage = "answered" => r.preview.session >= 1
  /\ r.kind = "preview" => r.file \in Files
  /\ r.kind = "tabs" => r.from \in Spreadsheets
  /\ r.kind = "mapping" => r.mapping \in Mappings
  /\ r.kind = "mapping" /\ r.stage = "read" => r.file \in Files
  /\ r.kind = "commit" /\ r.stage \in {"read", "filling", "recorded"} =>
       r.file \in Files /\ r.mapping \in Mappings
  /\ r.kind = "commit" /\ r.stage \in {"sent", "read"} => r.created = 0
  /\ r.kind = "commit" /\ r.stage = "filling" => Counts(r)
ListSound(ss, u) == ss \in Seq(Requests) /\ \A i \in DOMAIN ss : OfRequest(ss[i], u)

PageSound(p, u) ==
  /\ p \in Pages /\ p.step <= p.furthest /\ (p.step = 2 => p.source = "google")
  /\ p.preview.session <= u /\ (p.preview = NoPreview \/ p.preview.session >= 1)

\* One commit at a time fills the bank, with keys that it has not and that are
\* different.
Fills(r) == r.kind = "commit" /\ r.stage = "filling"
Fresh(t, b) ==
  /\ \A n \in DOMAIN t : b[t[n]] = 0
  /\ \A m, n \in DOMAIN t : t[m] = t[n] => m = n
OneFills(ss, b) ==
  /\ \A i, j \in DOMAIN ss : Fills(ss[i]) /\ Fills(ss[j]) => i = j
  /\ \A i \in DOMAIN ss : Fills(ss[i]) => Fresh(ss[i].todo, b)
  /\ \A k \in Keys : b[k] <= 1

StoreSound ==
  /\ session \in [Sessions -> Open \union {NoSession}] /\ used \in 0 .. MaxSessions
  /\ bank \in [Keys -> Nat] /\ token \in {"none", "valid", "stale"}
  /\ imports \in Seq(Records)

IInv ==
  /\ StoreSound /\ RecordAddsUp
  /\ ListSound(requests, used) /\ PageSound(page, used)
  /\ ~overlapped => OneFills(requests, bank)

-----------------------------------------------------------------------------
(* The rows of a file, in its order.                                       *)

\* Among n chosen rows there is a first, a second, ... and an n-th.
LEMMA Ranked ==
  ASSUME NEW chosen \in SUBSET Nat, IsFiniteSet(chosen), NEW n \in 1..Cardinality(chosen)
  PROVE  \E i \in chosen : Cardinality({j \in chosen : j <= i}) = n
<1> DEFINE upto(i) == {j \in chosen : j <= i}
           f == [i \in chosen |-> Cardinality(upto(i))]
           N == Cardinality(chosen)
           ranks == {f[i] : i \in chosen}
<1>1. N \in Nat
  BY FS_CardinalityType
<1>2. ASSUME NEW i \in chosen
      PROVE  /\ upto(i) \in SUBSET chosen /\ IsFiniteSet(upto(i))
             /\ f[i] = Cardinality(upto(i)) /\ f[i] \in 1..N
  <2>1. upto(i) \in SUBSET chosen
    OBVIOUS
  <2>2. IsFiniteSet(upto(i)) /\ Cardinality(upto(i)) <= N
    BY <2>1, FS_Subset
  <2>3. Cardinality(upto(i)) \in Nat /\ Cardinality(upto(i)) # 0
    <3>1. i \in upto(i)
      OBVIOUS
    <3>2. QED
      BY <2>2, <3>1, FS_CardinalityType, FS_EmptySet
  <2>4. QED
    BY <1>1, <2>1, <2>2, <2>3
<1>3. ASSUME NEW i \in chosen, NEW j \in chosen, i < j
      PROVE  f[i] # f[j]
  <2>1. upto(i) \in SUBSET upto(j) /\ j \in upto(j) /\ j \notin upto(i)
    <3>1. i \in Nat /\ j \in Nat /\ \A k \in chosen : k \in Nat
      OBVIOUS
    <3>2. \A k \in chosen : k <= i => k <= j
      BY <1>3, <3>1
    <3>3. ~(j <= i) /\ j <= j
      BY <1>3, <3>1
    <3>4. QED
      BY <3>2, <3>3, Zenon
  <2>2. Cardinality(upto(j)) = Cardinality(upto(i)) => upto(j) = upto(i)
    BY <1>2, <2>1, FS_Subset
  <2>3. QED
    BY <1>2, <2>1, <2>2
<1>4. \A i, j \in chosen : f[i] = f[j] => i = j
  BY <1>3
<1> HIDE DEF f, N, upto
<1>5. DOMAIN f = chosen /\ ranks \in SUBSET (1..N)
  BY <1>2 DEF f
<1>6. f \in Bijection(chosen, ranks)
  <2>1. f \in [chosen -> ranks]
    BY <1>5 DEF f
  <2>2. QED
    BY <1>4, <2>1 DEF Bijection, Injection, Surjection, IsInjective
<1>7. Cardinality(ranks) = N
  BY <1>6, FS_Bijection DEF N, ExistsBijection
<1>8. ranks = 1..N
  <2>1. IsFiniteSet(1..N) /\ Cardinality(1..N) = N
    BY <1>1, FS_Interval
  <2>2. QED
    BY <1>5, <1>7, <2>1, FS_Subset
<1>9. QED
  BY <1>2, <1>8 DEF N, upto

\* The valid rows of a file have different keys, and so have those of a part of it.
LEMMA KeysOfRows ==
  ASSUME NEW rows \in Seq([key : Keys, fits : BOOLEAN]), NEW chosen \in SUBSET Valid(rows)
  PROVE  /\ KeysOf(rows, chosen) \in Seq(Keys) /\ Len(KeysOf(rows, chosen)) = Cardinality(chosen)
         /\ \A n \in DOMAIN KeysOf(rows, chosen) :
              \E i \in chosen : KeysOf(rows, chosen)[n] = rows[i].key
         /\ \A m, n \in DOMAIN KeysOf(rows, chosen) :
              KeysOf(rows, chosen)[m] = KeysOf(rows, chosen)[n] => m = n
<1> DEFINE N == Cardinality(chosen)
           at(n) == CHOOSE i \in chosen : Cardinality({j \in chosen : j <= i}) = n
           t == [n \in 1..N |-> rows[at(n)].key]
<1>1. Len(rows) \in Nat /\ DOMAIN rows = 1..Len(rows)
  BY LenProperties
<1>2. chosen \in SUBSET (1..Len(rows))
  BY <1>1 DEF Valid
<1>3. IsFiniteSet(chosen) /\ N \in Nat
  <2>1. IsFiniteSet(1..Len(rows))
    BY <1>1, FS_Interval
  <2>2. QED
    BY <1>2, <2>1, FS_Subset, FS_CardinalityType
<1>4. \A i, j \in Valid(rows) : rows[i].key = rows[j].key => i = j
  <2> SUFFICES ASSUME NEW i \in Valid(rows), NEW j \in Valid(rows), rows[i].key = rows[j].key
               PROVE  ~(j < i)
    BY <1>1 DEF Valid
  <2>1. i \in 1..Len(rows) /\ j \in 1..Len(rows) /\ \A l \in 1..i - 1 : rows[l].key # rows[i].key
    BY <1>1, Zenon DEF Valid
  <2>2. QED
    BY <1>1, <2>1
<1>5. ASSUME NEW n \in 1..N
      PROVE  at(n) \in chosen /\ Cardinality({j \in chosen : j <= at(n)}) = n
  <2>1. chosen \in SUBSET Nat
    BY <1>1, <1>2
  <2>2. \E i \in chosen : Cardinality({j \in chosen : j <= i}) = n
    BY <1>3, <2>1, Ranked
  <2>3. QED
    BY <2>2
<1> HIDE DEF N, at
<1>6. \A n \in 1..N : at(n) \in 1..Len(rows) /\ rows[at(n)].key \in Keys
  <2> TAKE n \in 1..N
  <2>1. at(n) \in 1..Len(rows)
    BY <1>2, <1>5
  <2>2. rows[at(n)] \in [key : Keys, fits : BOOLEAN]
    BY <2>1, ElementOfSeq
  <2>3. QED
    BY <2>1, <2>2, Zenon
<1>7. t \in Seq(Keys) /\ DOMAIN t = 1..N
  <2>1. t \in [1..N -> Keys]
    BY <1>6
  <2>2. QED
    BY <1>3, <2>1, SeqDef
<1>8. ASSUME NEW m \in 1..N, NEW n \in 1..N, t[m] = t[n]
      PROVE  m = n
  <2>1. at(m) = at(n)
    BY <1>4, <1>5, <1>8
  <2>2. QED
    BY <1>5, <2>1
<1>9. KeysOf(rows, chosen) = t
  BY DEF KeysOf, N, at
<1> HIDE DEF t
<1>10. \A n \in 1..N : \E i \in chosen : t[n] = rows[i].key
  BY <1>5 DEF t
<1>11. Len(t) = N
  BY <1>3, <1>7, LenProperties
<1>12. Len(KeysOf(rows, chosen)) = Cardinality(chosen)
  BY <1>9, <1>11 DEF N
<1>13. QED
  BY <1>7, <1>8, <1>9, <1>10, <1>12

\* The two filters part the rows of a file, whichever valid ones are in the bank.
LEMMA FiltersPart ==
  ASSUME NEW rows \in Seq([key : Keys, fits : BOOLEAN]), NEW old \in SUBSET Valid(rows)
  PROVE  /\ Cardinality(Valid(rows) \ old) \in Nat /\ Cardinality(Wrong(rows) \union old) \in Nat
         /\ Cardinality(Valid(rows) \ old) + Cardinality(Wrong(rows) \union old) = Len(rows)
<1> DEFINE v == Valid(rows) \ old
           w == Wrong(rows) \union old
<1>1. Len(rows) \in Nat /\ DOMAIN rows = 1..Len(rows)
  BY LenProperties
<1>2. v \in SUBSET (1..Len(rows)) /\ w = (1..Len(rows)) \ v
  BY <1>1, Zenon DEF Valid, Wrong
<1> HIDE DEF v, w
<1>3. IsFiniteSet(1..Len(rows)) /\ Cardinality(1..Len(rows)) = Len(rows)
  BY <1>1, FS_Interval
<1>4. IsFiniteSet(v) /\ Cardinality(v) \in Nat
  BY <1>2, <1>3, FS_Subset, FS_CardinalityType
<1>5. IsFiniteSet(w) /\ Cardinality(w) \in Nat
  BY <1>2, <1>3, FS_Subset, FS_CardinalityType
<1>6. v \cap w = {} /\ v \union w = 1..Len(rows)
  BY <1>2
<1>7. Cardinality(v \union w) = Cardinality(v) + Cardinality(w) - Cardinality(v \cap w)
  BY <1>4, <1>5, FS_Union
<1>8. Cardinality(v) + Cardinality(w) = Len(rows)
  <2>1. Cardinality(v \cap w) = 0
    BY <1>6, FS_EmptySet
  <2>2. Cardinality(v \union w) = Len(rows)
    BY <1>3, <1>6
  <2>3. QED
    BY <1>1, <1>4, <1>5, <1>7, <2>1, <2>2
<1>9. QED
  BY <1>4, <1>5, <1>8 DEF v, w

-----------------------------------------------------------------------------
(* The list of requests.                                                   *)

LEMMA RemoveAtElements ==
  ASSUME NEW S, NEW s \in Seq(S), NEW i \in 1..Len(s)
  PROVE  /\ RemoveAt(s, i) \in Seq(S)
         /\ DOMAIN RemoveAt(s, i) = 1..Len(s) - 1
         /\ \A k \in 1..Len(s) - 1 : RemoveAt(s, i)[k] = s[IF k < i THEN k ELSE k + 1]
<1> DEFINE l == SubSeq(s, 1, i - 1)
           r == SubSeq(s, i + 1, Len(s))
<1>1. i \in Nat /\ Len(s) \in Nat /\ i >= 1 /\ i <= Len(s) /\ \A k \in 1..Len(s) : s[k] \in S
  BY LenProperties
<1>2. l \in Seq(S) /\ Len(l) = i - 1 /\ \A k \in 1..i - 1 : l[k] = s[k]
  <2>1. 1 \in Int /\ i - 1 \in Int /\ \A k \in 1..i - 1 : s[k] \in S
    BY <1>1
  <2>2. QED
    BY <1>1, <2>1, SubSeqProperties
<1>3. r \in Seq(S) /\ Len(r) = Len(s) - i /\ \A k \in 1..Len(s) - i : r[k] = s[i + k]
  <2>1. i + 1 \in Int /\ Len(s) \in Int /\ \A k \in i + 1..Len(s) : s[k] \in S
    BY <1>1
  <2>2. /\ r \in Seq(S) /\ Len(r) = IF i + 1 <= Len(s) THEN Len(s) - (i + 1) + 1 ELSE 0
        /\ \A k \in 1..Len(s) - (i + 1) + 1 : r[k] = s[i + 1 + k - 1]
    BY <2>1, SubSeqProperties
  <2>3. QED
    BY <1>1, <2>2
<1>4. RemoveAt(s, i) = l \o r
  BY DEF RemoveAt
<1> HIDE DEF l, r
<1>5. /\ l \o r \in Seq(S) /\ Len(l \o r) = Len(l) + Len(r)
      /\ \A k \in 1..Len(l) + Len(r) :
           (l \o r)[k] = IF k <= Len(l) THEN l[k] ELSE r[k - Len(l)]
  BY <1>2, <1>3, ConcatProperties
<1>6. ASSUME NEW k \in 1..Len(s) - 1
      PROVE  (l \o r)[k] = s[IF k < i THEN k ELSE k + 1]
  <2>1. CASE k < i
    BY <1>1, <1>2, <1>3, <1>5, <2>1
  <2>2. CASE ~(k < i)
    <3>1. k - (i - 1) \in 1..Len(s) - i
      BY <1>1, <2>2
    <3>2. (l \o r)[k] = r[k - (i - 1)]
      BY <1>1, <1>2, <1>3, <1>5, <2>2
    <3>3. r[k - (i - 1)] = s[i + (k - (i - 1))] /\ i + (k - (i - 1)) = k + 1
      BY <1>1, <1>3, <3>1
    <3>4. QED
      BY <2>2, <3>2, <3>3
  <2>3. QED
    BY <2>1, <2>2
<1>7. QED
  BY <1>1, <1>2, <1>3, <1>4, <1>5, <1>6


\* The list rs is ss, but with r at the place i, or without what was there.
Replaced(ss, rs, i, r) ==
  \E g \in [DOMAIN rs -> DOMAIN ss] :
    /\ \A k \in DOMAIN rs : rs[k] = IF g[k] = i THEN r ELSE ss[g[k]]
    /\ \A k, l \in DOMAIN rs : g[k] = g[l] => k = l
    /\ \A j \in DOMAIN ss \ {i} : \E k \in DOMAIN rs : g[k] = j

LEMMA Replacing ==
  ASSUME NEW ss \in Seq(Requests), NEW i \in DOMAIN ss, NEW r \in Requests
  PROVE  /\ [ss EXCEPT ![i] = r] \in Seq(Requests) /\ Replaced(ss, [ss EXCEPT ![i] = r], i, r)
         /\ RemoveAt(ss, i) \in Seq(Requests) /\ Replaced(ss, RemoveAt(ss, i), i, r)
<1>1. Len(ss) \in Nat /\ DOMAIN ss = 1..Len(ss) /\ i \in 1..Len(ss)
  BY LenProperties
<1>2. [ss EXCEPT ![i] = r] \in Seq(Requests)
  BY <1>1, ExceptSeq
<1>3. Replaced(ss, [ss EXCEPT ![i] = r], i, r)
  <2> DEFINE rs == [ss EXCEPT ![i] = r]
             g == [k \in DOMAIN rs |-> k]
  <2>1. DOMAIN rs = DOMAIN ss /\ \A k \in DOMAIN rs : rs[k] = IF k = i THEN r ELSE ss[k]
    BY <1>1
  <2> HIDE DEF rs
  <2>2. g \in [DOMAIN rs -> DOMAIN ss]
    BY <2>1
  <2>3. QED
    BY <2>1, <2>2 DEF Replaced, rs
<1>4. /\ RemoveAt(ss, i) \in Seq(Requests) /\ DOMAIN RemoveAt(ss, i) = 1..Len(ss) - 1
      /\ \A k \in 1..Len(ss) - 1 : RemoveAt(ss, i)[k] = ss[IF k < i THEN k ELSE k + 1]
  BY <1>1, RemoveAtElements
<1>5. Replaced(ss, RemoveAt(ss, i), i, r)
  <2> DEFINE rs == RemoveAt(ss, i)
             g == [k \in 1..Len(ss) - 1 |-> IF k < i THEN k ELSE k + 1]
  <2> HIDE DEF rs
  <2>1. DOMAIN rs = 1..Len(ss) - 1 /\ g \in [DOMAIN rs -> DOMAIN ss]
    BY <1>1, <1>4 DEF rs
  <2>2. \A k \in DOMAIN rs : g[k] # i /\ rs[k] = ss[g[k]]
    BY <1>1, <1>4, <2>1 DEF rs
  <2>3. \A k, l \in DOMAIN rs : g[k] = g[l] => k = l
    BY <1>1, <2>1
  <2>4. \A j \in DOMAIN ss \ {i} : \E k \in DOMAIN rs : g[k] = j
    <3> TAKE j \in DOMAIN ss \ {i}
    <3>1. CASE j < i
      <4>1. j \in 1..Len(ss) - 1 /\ g[j] = j
        BY <1>1, <3>1
      <4>2. QED
        BY <2>1, <4>1
    <3>2. CASE ~(j < i)
      <4>1. j - 1 \in 1..Len(ss) - 1 /\ g[j - 1] = j
        BY <1>1, <3>2
      <4>2. QED
        BY <2>1, <4>1
    <3>3. QED
      BY <3>1, <3>2
  <2> HIDE DEF g
  <2>5. QED
    BY <2>1, <2>2, <2>3, <2>4 DEF Replaced, rs
<1>6. QED
  BY <1>2, <1>3, <1>4, <1>5

\* What a request becomes is of it; the others are as they were.
LEMMA ListKept ==
  ASSUME NEW u \in Nat, NEW v \in Nat, u <= v, NEW ss, ListSound(ss, u), NEW i \in DOMAIN ss,
         NEW r \in Requests, OfRequest(r, v), NEW rs \in Seq(Requests), Replaced(ss, rs, i, r)
  PROVE  ListSound(rs, v)
<1>1. \A q \in Requests : OfRequest(q, u) => OfRequest(q, v)
  <2> TAKE q \in Requests
  <2>1. q.session \in Nat /\ q.preview.session \in Nat
    BY DEF Requests, Previews
  <2>2. OfRequest(q, u) => q.session <= u /\ q.preview.session <= u
    BY Zenon DEF OfRequest
  <2>3. OfRequest(q, u) => q.session <= v /\ q.preview.session <= v
    BY <2>1, <2>2
  <2>4. QED
    BY <2>3, Zenon DEF OfRequest
<1>2. PICK g \in [DOMAIN rs -> DOMAIN ss] :
        \A k \in DOMAIN rs : rs[k] = IF g[k] = i THEN r ELSE ss[g[k]]
  BY Zenon DEF Replaced
<1>3. ASSUME NEW k \in DOMAIN rs
      PROVE  OfRequest(rs[k], v)
  <2>1. ss[g[k]] \in Requests /\ OfRequest(ss[g[k]], u)
    BY LenProperties, ElementOfSeq DEF ListSound
  <2>2. QED
    BY <1>1, <1>2, <2>1, Zenon
<1>4. QED
  BY <1>3 DEF ListSound

\* No commit begins to fill the bank, and what one has still to do stays.
LEMMA FillKept ==
  ASSUME NEW ss, NEW b, OneFills(ss, b), NEW i \in DOMAIN ss, NEW r,
         Fills(r) => Fills(ss[i]) /\ r.todo = ss[i].todo,
         NEW rs, Replaced(ss, rs, i, r)
  PROVE  OneFills(rs, b)
<1>1. PICK g \in [DOMAIN rs -> DOMAIN ss] :
        /\ \A k \in DOMAIN rs : rs[k] = IF g[k] = i THEN r ELSE ss[g[k]]
        /\ \A k, l \in DOMAIN rs : g[k] = g[l] => k = l
  BY Zenon DEF Replaced
<1>2. \A k \in DOMAIN rs : Fills(rs[k]) => g[k] \in DOMAIN ss /\ Fills(ss[g[k]]) /\ rs[k].todo = ss[g[k]].todo
  BY <1>1
<1>3. QED
  BY <1>1, <1>2, Zenon DEF OneFills

\* A commit begins, while no other one fills the bank.
LEMMA FillBegins ==
  ASSUME NEW ss, NEW b, \A i \in DOMAIN ss : ~Fills(ss[i]), \A k \in Keys : b[k] <= 1,
         NEW i \in DOMAIN ss, NEW r, Fresh(r.todo, b), NEW rs, Replaced(ss, rs, i, r)
  PROVE  OneFills(rs, b)
<1>1. PICK g \in [DOMAIN rs -> DOMAIN ss] :
        /\ \A k \in DOMAIN rs : rs[k] = IF g[k] = i THEN r ELSE ss[g[k]]
        /\ \A k, l \in DOMAIN rs : g[k] = g[l] => k = l
  BY Zenon DEF Replaced
<1>2. \A k \in DOMAIN rs : Fills(rs[k]) => g[k] = i /\ rs[k] = r
  BY <1>1
<1>3. QED
  BY <1>1, <1>2, Zenon DEF OneFills

\* The next row is created: the others are still to come.
LEMMA FillGoesOn ==
  ASSUME NEW ss, NEW b \in [Keys -> Nat], OneFills(ss, b), NEW i \in DOMAIN ss, Fills(ss[i]),
         NEW t \in Seq(Keys), t = ss[i].todo, t # << >>, NEW r, r.todo = Tail(t),
         NEW rs, Replaced(ss, rs, i, r)
  PROVE  OneFills(rs, [b EXCEPT ![Head(t)] = @ + 1])
<1> DEFINE c == [b EXCEPT ![Head(t)] = @ + 1]
<1>1. PICK g \in [DOMAIN rs -> DOMAIN ss] :
        /\ \A k \in DOMAIN rs : rs[k] = IF g[k] = i THEN r ELSE ss[g[k]]
        /\ \A k, l \in DOMAIN rs : g[k] = g[l] => k = l
  BY Zenon DEF Replaced
<1>2. \A k \in DOMAIN rs : Fills(rs[k]) => g[k] = i /\ rs[k] = r
  BY <1>1 DEF OneFills
<1>3. /\ Len(t) \in Nat /\ DOMAIN t = 1..Len(t) /\ Len(t) >= 1 /\ Head(t) = t[1] /\ Head(t) \in Keys
      /\ Tail(t) \in Seq(Keys) /\ Len(Tail(t)) = Len(t) - 1
      /\ \A n \in 1..Len(t) - 1 : Tail(t)[n] = t[n + 1]
  BY LenProperties, EmptySeq, HeadTailProperties, ElementOfSeq
<1>4. DOMAIN Tail(t) = 1..Len(t) - 1
  BY <1>3, LenProperties
<1>5. Fresh(t, b) /\ \A k \in Keys : b[k] <= 1
  BY DEF OneFills
<1>6. b[Head(t)] = 0 /\ c[Head(t)] = 1 /\ \A k \in Keys : k # Head(t) => c[k] = b[k]
  BY <1>3, <1>5 DEF Fresh
<1> HIDE DEF c
<1>7. \A k \in Keys : c[k] <= 1
  BY <1>5, <1>6
<1>8. Fresh(Tail(t), c)
  <2>1. \A n \in 1..Len(t) - 1 : n + 1 \in 1..Len(t) /\ t[n + 1] \in Keys /\ t[n + 1] # t[1] /\ b[t[n + 1]] = 0
    <3> TAKE n \in 1..Len(t) - 1
    <3>1. n + 1 \in 1..Len(t) /\ 1 \in 1..Len(t) /\ n + 1 # 1
      BY <1>3
    <3>2. QED
      BY <1>3, <1>5, <3>1, ElementOfSeq DEF Fresh
  <2>2. \A n \in 1..Len(t) - 1 : c[Tail(t)[n]] = 0
    BY <1>3, <1>6, <2>1
  <2>3. ASSUME NEW m \in 1..Len(t) - 1, NEW n \in 1..Len(t) - 1, Tail(t)[m] = Tail(t)[n]
        PROVE  m = n
    <3>1. m + 1 = n + 1
      <4>1. m + 1 \in DOMAIN t /\ n + 1 \in DOMAIN t /\ t[m + 1] = t[n + 1]
        BY <1>3, <2>1, <2>3
      <4>2. \A k, l \in DOMAIN t : t[k] = t[l] => k = l
        BY <1>5 DEF Fresh
      <4>3. QED
        BY <4>1, <4>2
    <3>2. QED
      BY <1>3, <3>1
  <2>4. QED
    BY <1>4, <2>2, <2>3 DEF Fresh
<1>9. QED
  BY <1>1, <1>2, <1>7, <1>8, Zenon DEF OneFills, c

\* A request is sent.
LEMMA ListGrows ==
  ASSUME NEW u \in Nat, NEW ss, ListSound(ss, u), NEW r \in Requests, OfRequest(r, u), ~Fills(r), NEW b
  PROVE  /\ ListSound(Append(ss, r), u)
         /\ OneFills(ss, b) => OneFills(Append(ss, r), b)
<1>1. ss \in Seq(Requests) /\ Len(ss) \in Nat /\ DOMAIN ss = 1..Len(ss)
  BY LenProperties DEF ListSound
<1> DEFINE rs == Append(ss, r)
<1>2. /\ rs \in Seq(Requests) /\ DOMAIN rs = 1..Len(ss) + 1
      /\ rs[Len(ss) + 1] = r /\ \A k \in 1..Len(ss) : rs[k] = ss[k]
  BY <1>1, AppendProperties
<1> HIDE DEF rs
<1>3. \A k \in DOMAIN rs : rs[k] = r \/ (k \in DOMAIN ss /\ rs[k] = ss[k])
  BY <1>1, <1>2
<1>4. ListSound(rs, u)
  BY <1>2, <1>3, Zenon DEF ListSound
<1>5. OneFills(ss, b) => OneFills(rs, b)
  BY <1>3, Zenon DEF OneFills
<1>6. QED
  BY <1>4, <1>5 DEF rs

-----------------------------------------------------------------------------
(* What a request becomes.                                                 *)

\* The fields of n are those of q, but for those whose names are given.
Same(n, q, changed) ==
  /\ "kind" \notin changed => n.kind = q.kind
  /\ "stage" \notin changed => n.stage = q.stage
  /\ "session" \notin changed => n.session = q.session
  /\ "file" \notin changed => n.file = q.file
  /\ "mapping" \notin changed => n.mapping = q.mapping
  /\ "from" \notin changed => n.from = q.from
  /\ "todo" \notin changed => n.todo = q.todo
  /\ "counts" \notin changed =>
       n.created = q.created /\ n.success = q.success /\ n.errors = q.errors
  /\ "preview" \notin changed => n.preview = q.preview

LEMMA Staged ==
  ASSUME NEW q \in Requests, NEW s \in Stages
  PROVE  LET n == [q EXCEPT !.stage = s]
         IN  n \in Requests /\ n.stage = s /\ Same(n, q, {"stage"})
BY DEF Requests, Same

LEMMA Previewed ==
  ASSUME NEW q \in Requests, NEW s \in Stages, NEW p \in Previews
  PROVE  LET n == [q EXCEPT !.stage = s, !.preview = p]
         IN  n \in Requests /\ n.stage = s /\ n.preview = p /\ Same(n, q, {"stage", "preview"})
BY DEF Requests, Same

LEMMA FileRead ==
  ASSUME NEW q \in Requests, NEW s \in Stages, NEW f \in Files
  PROVE  LET n == [q EXCEPT !.stage = s, !.file = f]
         IN  n \in Requests /\ n.stage = s /\ n.file = f /\ Same(n, q, {"stage", "file"})
BY DEF Requests, Same

LEMMA RowsRead ==
  ASSUME NEW q \in Requests, NEW s \in Stages, NEW f \in Files, NEW m \in Mappings
  PROVE  LET n == [q EXCEPT !.stage = s, !.file = f, !.mapping = m]
         IN  n \in Requests /\ n.stage = s /\ n.file = f /\ n.mapping = m
               /\ Same(n, q, {"stage", "file", "mapping"})
BY DEF Requests, Same

LEMMA TodoDone ==
  ASSUME NEW q \in Requests, NEW t \in Seq(Keys)
  PROVE  LET n == [q EXCEPT !.todo = t, !.created = @ + 1]
         IN  /\ n \in Requests /\ n.todo = t /\ n.created = q.created + 1
             /\ n.success = q.success /\ n.errors = q.errors /\ Same(n, q, {"todo", "counts"})
<1>1. PICK c \in Nat : c = q.created + 1
  BY DEF Requests
<1>2. LET n == [q EXCEPT !.todo = t, !.created = c]
      IN  /\ n \in Requests /\ n.todo = t /\ n.created = c
          /\ n.success = q.success /\ n.errors = q.errors /\ Same(n, q, {"todo", "counts"})
  BY DEF Requests, Same
<1>3. QED
  BY <1>1, <1>2

LEMMA Unheard ==
  ASSUME NEW q \in Requests
  PROVE  LET n == [q EXCEPT !.heard = FALSE]
         IN  n \in Requests /\ Same(n, q, {})
BY DEF Requests, Same

\* A request answers, or goes on.
LEMMA Answered ==
  ASSUME requests \in Seq(Requests), NEW i \in DOMAIN requests, NEW r \in Requests,
         Answer(i, r) \/ Becomes(i, r)
  PROVE  requests' \in Seq(Requests) /\ Replaced(requests, requests', i, r)
BY Replacing, Zenon DEF Answer, Becomes

\* A request that is no longer heard is the same request.
LEMMA StillOfRequest ==
  ASSUME NEW q, NEW r, NEW u, Same(r, q, {}), OfRequest(q, u)
  PROVE  OfRequest(r, u) /\ (Fills(r) => Fills(q) /\ r.todo = q.todo)
<1>1. Counts(q) => Counts(r)
  BY DEF Counts, RowsOf, Same
<1>2. QED
  BY <1>1 DEF OfRequest, Same, Fills

LEMMA PreviewTyped ==
  ASSUME ImportAssumption, NEW s \in Open, NEW id \in Nat
  PROVE  PreviewOf(id, s) \in Previews /\ PreviewOf(id, s).session = id
<1>1. s.file \in Files /\ s.mapping \in Mappings
  BY DEF Open
<1>2. RowsOf(s) \in Seq([key : Keys, fits : BOOLEAN])
  BY <1>1 DEF ImportAssumption, RowsOf
<1> DEFINE rows == RowsOf(s)
<1> HIDE DEF rows
<1>3. rows \in Seq([key : Keys, fits : BOOLEAN]) /\ Len(rows) \in Nat
  BY <1>2, LenProperties DEF rows
<1>4. /\ Cardinality(Valid(rows) \ {}) \in Nat /\ Cardinality(Wrong(rows) \union {}) \in Nat
      /\ Cardinality(Valid(rows) \ {}) + Cardinality(Wrong(rows) \union {}) = Len(rows)
  BY <1>3, FiltersPart
<1>5. Len(rows) - Cardinality(Wrong(rows)) \in Nat
  <2>1. Wrong(rows) \union {} = Wrong(rows)
    OBVIOUS
  <2>2. QED
    BY <1>3, <1>4, <2>1
<1>6. QED
  BY <1>1, <1>5 DEF PreviewOf, Previews, rows

-----------------------------------------------------------------------------
(* The steps of the server.                                                *)

\* The request at i, and what is known of it.
LEMMA TheRequest ==
  ASSUME IInv, NEW i \in DOMAIN requests
  PROVE  /\ requests \in Seq(Requests) /\ requests[i] \in Requests /\ OfRequest(requests[i], used)
         /\ used \in Nat /\ requests[i].session \in Nat /\ requests[i].preview \in Previews
         /\ requests[i].preview.session \in Nat
<1>1. requests \in Seq(Requests) /\ OfRequest(requests[i], used)
  BY DEF IInv, ListSound
<1>2. requests[i] \in Requests
  BY <1>1, LenProperties, ElementOfSeq
<1>3. used \in Nat
  BY DEF IInv, StoreSound
<1>4. requests[i].session \in Nat /\ requests[i].preview \in Previews
  BY <1>2 DEF Requests
<1>5. QED
  BY <1>1, <1>2, <1>3, <1>4 DEF Previews

LEMMA PageLater ==
  ASSUME NEW p, NEW u \in Nat, NEW v \in Nat, u <= v, PageSound(p, u)
  PROVE  PageSound(p, v)
<1>1. p \in Pages /\ p.preview.session <= u
  BY Zenon DEF PageSound
<1>2. p.preview.session \in Nat
  BY <1>1 DEF Pages, Previews
<1>3. p.preview.session <= v
  BY <1>1, <1>2
<1>4. QED
  BY <1>3, Zenon DEF PageSound

\* What is left to show of a step that changes the request at i to r, and does
\* not change the bank or the page.
LEMMA RequestStep ==
  ASSUME IInv, NEW i \in DOMAIN requests, NEW r \in Requests,
         Answer(i, r) \/ Becomes(i, r), OfRequest(r, used'), used' \in Nat, used <= used',
         Fills(r) => Fills(requests[i]) /\ r.todo = requests[i].todo,
         StoreSound', RecordAddsUp', UNCHANGED <<page, bank, overlapped>>
  PROVE  IInv'
<1>1. requests \in Seq(Requests) /\ used \in Nat
  BY TheRequest
<1>2. requests' \in Seq(Requests) /\ Replaced(requests, requests', i, r)
  BY <1>1, Answered
<1>3. ListSound(requests', used')
  BY <1>1, <1>2, ListKept DEF IInv
<1>4. ~overlapped => OneFills(requests', bank)
  BY <1>2, FillKept, Zenon DEF IInv
<1>5. PageSound(page, used')
  BY <1>1, PageLater DEF IInv
<1>6. QED
  BY <1>3, <1>4, <1>5, Zenon DEF IInv

\* A request that is refused has nothing more to do.
LEMMA RefusedStep ==
  ASSUME IInv, NEW i \in DOMAIN requests, Refuse(i), StoreSound', RecordAddsUp',
         UNCHANGED <<used, page, bank, overlapped>>
  PROVE  IInv'
<1> DEFINE r == [requests[i] EXCEPT !.stage = "refused"]
<1>1. requests[i] \in Requests /\ OfRequest(requests[i], used) /\ used \in Nat
  BY TheRequest
<1>2. r \in Requests /\ r.stage = "refused" /\ Same(r, requests[i], {"stage"})
  BY <1>1, Staged DEF Stages
<1>3. Answer(i, r)
  BY DEF Refuse
<1> HIDE DEF r
<1>4. OfRequest(r, used)
  BY <1>1, <1>2 DEF OfRequest, Same
<1>5. ~Fills(r)
  BY <1>2 DEF Fills
<1>6. QED
  BY <1>1, <1>2, <1>3, <1>4, <1>5, RequestStep

\* A session is created, or the request is refused.
LEMMA CreateStep ==
  ASSUME ImportAssumption, IInv, NEW i \in DOMAIN requests, CreateSession(i),
         requests[i].kind = "preview", token' \in {"none", "valid", "stale"},
         UNCHANGED <<page, bank, imports, overlapped>>
  PROVE  IInv'
<1> DEFINE q == requests[i]
           s == [file |-> q.file, mapping |-> Detected[q.file]]
           p == PreviewOf(used + 1, s)
           r == [q EXCEPT !.stage = "answered", !.preview = p]
<1>1. q \in Requests /\ OfRequest(q, used) /\ used \in Nat /\ q.session \in Nat
  BY TheRequest
<1>2. s \in Open
  BY <1>1 DEF OfRequest, ImportAssumption, Open
<1>3. used' = used + 1 /\ used < MaxSessions /\ session' = [session EXCEPT ![used + 1] = s] /\ Answer(i, r)
  BY DEF CreateSession
<1>4. p \in Previews /\ p.session = used + 1
  <2>1. used + 1 \in Nat
    BY <1>1
  <2> HIDE DEF s
  <2>2. QED
    BY <1>2, <2>1, PreviewTyped
<1> HIDE DEF p
<1>5. r \in Requests /\ r.stage = "answered" /\ r.preview = p /\ Same(r, q, {"stage", "preview"})
  BY <1>1, <1>4, Previewed DEF Stages
<1> HIDE DEF r
<1>6. OfRequest(r, used')
  <2>1. r.session <= used' /\ r.preview.session <= used' /\ r.preview.session >= 1
    BY <1>1, <1>3, <1>4, <1>5 DEF OfRequest, Same
  <2>2. QED
    BY <1>1, <1>5, <2>1 DEF OfRequest, Same
<1>7. ~Fills(r)
  BY <1>5 DEF Fills
<1>8. StoreSound'
  <2>1. used' \in 0..MaxSessions
    BY <1>1, <1>3 DEF ImportAssumption
  <2>2. session' \in [Sessions -> Open \union {NoSession}]
    BY <1>2, <1>3 DEF IInv, StoreSound
  <2>3. QED
    BY <2>1, <2>2 DEF IInv, StoreSound
<1>9. RecordAddsUp'
  BY DEF IInv, RecordAddsUp
<1>10. QED
  BY <1>1, <1>3, <1>5, <1>6, <1>7, <1>8, <1>9, RequestStep

LEMMA PreviewStep ==
  ASSUME ImportAssumption, IInv, NEW i \in DOMAIN requests,
         StartImportPreview(i) \/ ReadGoogleSheetValues(i)
  PROVE  IInv'
<1>1. /\ requests[i].kind = "preview" /\ UNCHANGED <<page, bank, imports, overlapped>>
      /\ CreateSession(i) \/ (Refuse(i) /\ UNCHANGED <<session, used>>)
      /\ token' \in {token, "none"}
  BY Zenon DEF StartImportPreview, ReadGoogleSheetValues, ServerOnly
<1>2. token' \in {"none", "valid", "stale"}
  BY <1>1 DEF IInv, StoreSound
<1>3. CASE CreateSession(i)
  BY <1>1, <1>2, <1>3, CreateStep
<1>4. CASE Refuse(i) /\ UNCHANGED <<session, used>>
  <2>1. StoreSound' /\ RecordAddsUp'
    BY <1>1, <1>2, <1>4 DEF IInv, StoreSound, RecordAddsUp
  <2>2. QED
    BY <1>1, <1>4, <2>1, RefusedStep
<1>5. QED
  BY <1>1, <1>3, <1>4

LEMMA TabsStep ==
  ASSUME IInv, NEW i \in DOMAIN requests, ListGoogleSheetTabs(i)
  PROVE  IInv'
<1>1. /\ UNCHANGED <<session, used, page, bank, imports, overlapped>> /\ token' \in {token, "none"}
      /\ requests[i].kind = "tabs"
  BY Zenon DEF ListGoogleSheetTabs, ServerOnly
<1>2. StoreSound' /\ RecordAddsUp'
  BY <1>1 DEF IInv, StoreSound, RecordAddsUp
<1>3. CASE Refuse(i)
  BY <1>1, <1>2, <1>3, RefusedStep
<1>4. CASE Answer(i, [requests[i] EXCEPT !.stage = "answered"])
  <2> DEFINE r == [requests[i] EXCEPT !.stage = "answered"]
  <2>1. requests[i] \in Requests /\ OfRequest(requests[i], used) /\ used \in Nat
    BY TheRequest
  <2>2. r \in Requests /\ r.stage = "answered" /\ Same(r, requests[i], {"stage"})
    BY <2>1, Staged DEF Stages
  <2>3. Answer(i, r)
    BY <1>4
  <2> HIDE DEF r
  <2>4. OfRequest(r, used)
    BY <1>1, <2>1, <2>2 DEF OfRequest, Same
  <2>5. ~Fills(r)
    BY <2>2 DEF Fills
  <2>6. QED
    BY <1>1, <1>2, <2>1, <2>2, <2>3, <2>4, <2>5, RequestStep
<1>5. QED
  BY <1>3, <1>4, Zenon DEF ListGoogleSheetTabs

LEMMA MappingStep ==
  ASSUME ImportAssumption, IInv, NEW i \in DOMAIN requests, ReadForMapping(i) \/ WriteMapping(i)
  PROVE  IInv'
<1> DEFINE q == requests[i]
<1>1. /\ q \in Requests /\ OfRequest(q, used) /\ used \in Nat /\ q.session \in Nat
      /\ q.kind = "mapping" /\ q.mapping \in Mappings
      /\ UNCHANGED <<used, bank, imports, token, page, overlapped>>
  <2>1. q \in Requests /\ OfRequest(q, used) /\ used \in Nat /\ q.session \in Nat
    BY TheRequest
  <2>2. q.kind = "mapping" /\ UNCHANGED <<used, bank, imports, token, page, overlapped>>
    BY Zenon DEF ReadForMapping, WriteMapping, ServerOnly, serverVars
  <2>3. QED
    BY <2>1, <2>2 DEF OfRequest
<1>2. RecordAddsUp'
  BY <1>1 DEF IInv, RecordAddsUp
<1>3. CASE ReadForMapping(i)
  <2>1. session' = session /\ StoreSound'
    BY <1>1, <1>3 DEF ReadForMapping, serverVars, IInv, StoreSound
  <2>2. CASE Refuse(i)
    BY <1>1, <1>2, <2>1, <2>2, RefusedStep
  <2>3. CASE ~Refuse(i)
    <3> DEFINE f == session[q.session].file
               r == [q EXCEPT !.stage = "read", !.file = f]
    <3>1. session[q.session] # NoSession /\ Becomes(i, r)
      BY <1>3, <2>3, Zenon DEF ReadForMapping
    <3>2. f \in Files
      <4>1. q.session \in Sessions
        BY <1>1 DEF OfRequest, Sessions, IInv, StoreSound
      <4>2. QED
        BY <3>1, <4>1 DEF IInv, StoreSound, Open
    <3> HIDE DEF f
    <3>3. r \in Requests /\ r.stage = "read" /\ r.file = f /\ Same(r, q, {"stage", "file"})
      BY <1>1, <3>2, FileRead DEF Stages
    <3> HIDE DEF r
    <3>4. OfRequest(r, used) /\ ~Fills(r)
      BY <1>1, <3>2, <3>3 DEF OfRequest, Same, Fills
    <3>5. QED
      BY <1>1, <1>2, <2>1, <3>1, <3>3, <3>4, RequestStep
  <2>4. QED
    BY <2>2, <2>3
<1>4. CASE WriteMapping(i)
  <2> DEFINE s == [file |-> q.file, mapping |-> q.mapping]
             p == PreviewOf(q.session, s)
             r == [q EXCEPT !.stage = "answered", !.preview = p]
  <2>1. session' = [session EXCEPT ![q.session] = s] /\ Answer(i, r) /\ q.stage = "read"
    BY <1>4, Zenon DEF WriteMapping
  <2>2. s \in Open
    BY <1>1, <2>1 DEF OfRequest, Open
  <2>3. p \in Previews /\ p.session = q.session
    BY <1>1, <2>2, PreviewTyped
  <2>4. StoreSound'
    BY <1>1, <2>1, <2>2 DEF IInv, StoreSound
  <2> HIDE DEF s, p
  <2>5. r \in Requests /\ r.stage = "answered" /\ r.preview = p /\ Same(r, q, {"stage", "preview"})
    BY <1>1, <2>3, Previewed DEF Stages
  <2> HIDE DEF r
  <2>6. OfRequest(r, used) /\ ~Fills(r)
    BY <1>1, <2>3, <2>5 DEF OfRequest, Same, Fills
  <2>7. QED
    BY <1>1, <1>2, <2>1, <2>4, <2>5, <2>6, RequestStep
<1>5. QED
  BY <1>3, <1>4

LEMMA ReadSessionStep ==
  ASSUME ImportAssumption, IInv, NEW i \in DOMAIN requests, ReadForCommit(i)
  PROVE  IInv'
<1> DEFINE q == requests[i]
           s == session[q.session]
<1>1. /\ q \in Requests /\ OfRequest(q, used) /\ used \in Nat /\ q.session \in Nat
      /\ q.kind = "commit" /\ q.stage = "sent" /\ UNCHANGED <<serverVars, page, overlapped>>
  BY TheRequest, Zenon DEF ReadForCommit, ServerOnly
<1>2. StoreSound' /\ RecordAddsUp'
  BY <1>1 DEF serverVars, IInv, StoreSound, RecordAddsUp
<1>3. CASE Refuse(i)
  BY <1>1, <1>2, <1>3, RefusedStep DEF serverVars
<1>4. CASE ~Refuse(i)
  <2> DEFINE f == s.file
             m == s.mapping
             r == [q EXCEPT !.stage = "read", !.file = f, !.mapping = m]
  <2>1. s # NoSession /\ Becomes(i, r)
    BY <1>4, Zenon DEF ReadForCommit
  <2>2. f \in Files /\ m \in Mappings
    <3>1. q.session \in Sessions
      <4>1. q.session >= 1 /\ q.session <= used
        BY <1>1 DEF OfRequest
      <4>2. used \in 0..MaxSessions
        BY Zenon DEF IInv, StoreSound
      <4>3. QED
        BY <1>1, <4>1, <4>2, ImportAssumption DEF Sessions, ImportAssumption
    <3>2. QED
      BY <2>1, <3>1 DEF IInv, StoreSound, Open
  <2> HIDE DEF f, m
  <2>3. r \in Requests /\ r.stage = "read" /\ r.file = f /\ r.mapping = m /\ Same(r, q, {"stage", "file", "mapping"})
    BY <1>1, <2>2, RowsRead DEF Stages
  <2> HIDE DEF r
  <2>4. OfRequest(r, used) /\ ~Fills(r)
    BY <1>1, <2>2, <2>3 DEF OfRequest, Same, Fills
  <2>5. QED
    BY <1>1, <1>2, <2>1, <2>3, <2>4, RequestStep DEF serverVars
<1>5. QED
  BY <1>3, <1>4

\* The rows that are new to the bank are those that are not in it, each once.
LEMMA CheckStep ==
  ASSUME ImportAssumption, IInv, NEW i \in DOMAIN requests, CheckBank(i)
  PROVE  IInv'
<1> DEFINE q == requests[i]
           rows == RowsOf(q)
           old == InBankAlready(rows)
           new == Valid(rows) \ old
           t == KeysOf(rows, new)
           v == Cardinality(new)
           w == Cardinality(Wrong(rows) \union old)
           r == [q EXCEPT !.stage = "filling", !.todo = t, !.success = v, !.errors = w]
<1>1. /\ q \in Requests /\ OfRequest(q, used) /\ used \in Nat
      /\ q.kind = "commit" /\ q.stage = "read" /\ UNCHANGED <<serverVars, page>>
      /\ Becomes(i, r)
      /\ overlapped' = (overlapped \/ \E j \in DOMAIN requests : Filling(j))
  BY TheRequest, Zenon DEF CheckBank, CheckedRows, Filtered, ServerOnly
<1>2. rows \in Seq([key : Keys, fits : BOOLEAN])
  BY <1>1 DEF OfRequest, ImportAssumption, RowsOf
<1> HIDE DEF rows
<1>3. /\ t \in Seq(Keys) /\ \A n \in DOMAIN t : \E k \in new : t[n] = rows[k].key
      /\ \A m, n \in DOMAIN t : t[m] = t[n] => m = n
      /\ Len(t) = v /\ v \in Nat /\ w \in Nat /\ v + w = Len(rows)
  <2>1. old \in SUBSET Valid(rows)
    BY DEF InBankAlready
  <2> HIDE DEF old
  <2>2. new \in SUBSET Valid(rows) /\ v \in Nat /\ w \in Nat /\ v + w = Len(rows)
    BY <1>2, <2>1, FiltersPart
  <2> HIDE DEF new, w
  <2>3. QED
    BY <1>2, <2>2, KeysOfRows, Zenon
<1>4. Fresh(t, bank)
  <2>1. \A k \in new : bank[rows[k].key] = 0
    BY Zenon DEF InBankAlready
  <2>2. QED
    BY <1>3, <2>1, Zenon DEF Fresh
<1> HIDE DEF t, new, v, w
<1>5. /\ r \in Requests /\ r.stage = "filling" /\ r.todo = t /\ r.created = q.created
      /\ r.success = v /\ r.errors = w /\ Same(r, q, {"stage", "todo", "counts"})
  BY <1>1, <1>3 DEF Requests, Same, Stages
<1> HIDE DEF r
<1>6. OfRequest(r, used)
  <2>1. Counts(r)
    <3>1. RowsOf(r) = rows
      BY <1>5 DEF RowsOf, Same, rows
    <3>2. r.created = 0
      BY <1>1, <1>5 DEF OfRequest
    <3>3. QED
      BY <1>3, <1>5, <3>1, <3>2 DEF Counts
  <2>2. QED
    BY <1>1, <1>5, <2>1 DEF OfRequest, Same
<1>7. requests' \in Seq(Requests) /\ Replaced(requests, requests', i, r)
  BY <1>1, <1>5, Answered DEF IInv, ListSound
<1>8. ListSound(requests', used)
  BY <1>1, <1>5, <1>6, <1>7, ListKept DEF IInv
<1>9. ASSUME ~overlapped'
      PROVE  OneFills(requests', bank)
  <2>1. ~overlapped /\ \A j \in DOMAIN requests : ~Fills(requests[j])
    BY <1>1, <1>9, Zenon DEF Filling, Fills
  <2>2. \A k \in Keys : bank[k] <= 1
    BY <2>1, Zenon DEF IInv, OneFills
  <2>3. QED
    BY <1>4, <1>5, <1>7, <2>1, <2>2, FillBegins
<1>10. StoreSound' /\ RecordAddsUp' /\ PageSound(page, used)
  BY <1>1 DEF serverVars, IInv, StoreSound, RecordAddsUp
<1>11. used' = used /\ bank' = bank /\ page' = page
  BY <1>1 DEF serverVars
<1>12. QED
  BY <1>8, <1>9, <1>10, <1>11, Zenon DEF IInv

LEMMA CreateRowStep ==
  ASSUME IInv, NEW i \in DOMAIN requests, CreateRow(i)
  PROVE  IInv'
<1> DEFINE q == requests[i]
           t == q.todo
           u == Tail(t)
           r == [q EXCEPT !.todo = u, !.created = @ + 1]
<1>1. /\ q \in Requests /\ OfRequest(q, used) /\ used \in Nat /\ requests \in Seq(Requests)
      /\ Fills(q) /\ t # << >> /\ UNCHANGED <<session, used, imports, token, overlapped, page>>
      /\ Becomes(i, r) /\ bank' = [bank EXCEPT ![Head(t)] = @ + 1]
  BY TheRequest, Zenon DEF CreateRow, ServerOnly, Filling, Fills
<1>2. t \in Seq(Keys) /\ Head(t) \in Keys /\ u \in Seq(Keys)
  <2>1. t \in Seq(Keys)
    BY <1>1 DEF Requests
  <2>2. QED
    BY <1>1, <2>1, HeadTailProperties
<1> HIDE DEF u
<1>3. /\ r \in Requests /\ r.todo = u /\ r.created = q.created + 1
      /\ r.success = q.success /\ r.errors = q.errors /\ Same(r, q, {"todo", "counts"})
  BY <1>1, <1>2, TodoDone
<1> HIDE DEF r
<1>4. OfRequest(r, used)
  <2>1. Len(t) \in Nat /\ Len(u) = Len(t) - 1
    BY <1>1, <1>2, HeadTailProperties, LenProperties DEF Requests, u
  <2>2. RowsOf(r) = RowsOf(q)
    BY <1>3 DEF RowsOf, Same
  <2>3. q.created + Len(t) = q.success /\ q.success + q.errors = Len(RowsOf(q)) /\ q.created \in Nat
    BY <1>1 DEF OfRequest, Fills, Requests, Counts
  <2>4. Counts(r)
    <3>1. q.created + 1 + Len(u) = q.created + Len(t)
      BY <2>1, <2>3
    <3>2. QED
      BY <1>3, <2>2, <2>3, <3>1, Zenon DEF Counts
  <2>5. QED
    BY <1>1, <1>3, <2>4 DEF OfRequest, Same, Fills
<1>5. requests' \in Seq(Requests) /\ Replaced(requests, requests', i, r)
  BY <1>1, <1>3, Answered
<1>6. ListSound(requests', used)
  BY <1>1, <1>3, <1>4, <1>5, ListKept DEF IInv
<1>7. bank \in [Keys -> Nat] /\ bank' \in [Keys -> Nat]
  <2>1. bank \in [Keys -> Nat]
    BY DEF IInv, StoreSound
  <2>2. QED
    BY <1>1, <1>2, <2>1
<1> HIDE DEF t
<1>8. ASSUME ~overlapped
      PROVE  OneFills(requests', bank')
  <2>1. OneFills(requests, bank)
    BY <1>8, Zenon DEF IInv
  <2>2. r.todo = Tail(t) /\ t = requests[i].todo
    BY <1>3 DEF t, u
  <2>3. OneFills(requests', [bank EXCEPT ![Head(t)] = @ + 1])
    BY <1>1, <1>2, <1>5, <1>7, <2>1, <2>2, FillGoesOn
  <2>4. QED
    BY <1>1, <2>3
<1>9. StoreSound' /\ RecordAddsUp' /\ PageSound(page, used)
  BY <1>1, <1>7 DEF IInv, StoreSound, RecordAddsUp
<1>10. QED
  BY <1>1, <1>6, <1>8, <1>9, Zenon DEF IInv

LEMMA RecordStep ==
  ASSUME ImportAssumption, IInv, NEW i \in DOMAIN requests, RecordImport(i)
  PROVE  IInv'
<1> DEFINE q == requests[i]
           total == Len(RowsOf(q))
           x == [session |-> q.session, total |-> total, created |-> q.created,
                 success |-> q.success, errors |-> q.errors]
           r == [q EXCEPT !.stage = "recorded"]
<1>1. /\ q \in Requests /\ OfRequest(q, used) /\ used \in Nat /\ q.session \in Nat
      /\ Fills(q) /\ q.todo = << >> /\ imports' = Append(imports, x) /\ Becomes(i, r)
      /\ UNCHANGED <<session, used, bank, token, overlapped, page>>
  BY TheRequest, Zenon DEF RecordImport, ServerOnly, Filling, Fills
<1>2. total \in Nat /\ q.created \in Nat /\ q.success \in Nat /\ q.errors \in Nat
  <2>1. RowsOf(q) \in Seq([key : Keys, fits : BOOLEAN])
    BY <1>1 DEF OfRequest, Fills, ImportAssumption, RowsOf
  <2>2. QED
    BY <1>1, <2>1, LenProperties DEF Requests
<1>3. x \in Records /\ x.success = x.created /\ x.success + x.errors = x.total
  <2>1. q.created + Len(q.todo) = q.success /\ q.success + q.errors = total
    BY <1>1 DEF OfRequest, Fills, Counts
  <2>2. Len(q.todo) = 0
    BY <1>1, EmptySeq
  <2> HIDE DEF total
  <2>3. QED
    BY <1>1, <1>2, <2>1, <2>2 DEF Records
<1> HIDE DEF x, total
<1>4. imports \in Seq(Records) /\ RecordAddsUp
  BY DEF IInv, StoreSound
<1>5. /\ Append(imports, x) \in Seq(Records) /\ Len(imports) \in Nat /\ DOMAIN imports = 1..Len(imports)
      /\ DOMAIN Append(imports, x) = 1..Len(imports) + 1 /\ Append(imports, x)[Len(imports) + 1] = x
      /\ \A n \in 1..Len(imports) : Append(imports, x)[n] = imports[n]
  BY <1>3, <1>4, AppendProperties, LenProperties
<1>6. RecordAddsUp'
  <2> SUFFICES ASSUME NEW n \in DOMAIN imports'
               PROVE  /\ imports'[n].success = imports'[n].created
                      /\ imports'[n].success + imports'[n].errors = imports'[n].total
    BY DEF RecordAddsUp
  <2>1. CASE n = Len(imports) + 1
    BY <1>1, <1>3, <1>5, <2>1
  <2>2. CASE n \in DOMAIN imports
    BY <1>1, <1>4, <1>5, <2>2 DEF RecordAddsUp
  <2>3. QED
    BY <1>1, <1>5, <2>1, <2>2
<1>7. StoreSound'
  BY <1>1, <1>5 DEF IInv, StoreSound
<1>8. r \in Requests /\ r.stage = "recorded" /\ Same(r, q, {"stage"})
  BY <1>1, Staged DEF Stages
<1> HIDE DEF r
<1>9. OfRequest(r, used) /\ ~Fills(r)
  BY <1>1, <1>8 DEF OfRequest, Same, Fills
<1>10. QED
  BY <1>1, <1>6, <1>7, <1>8, <1>9, RequestStep

LEMMA DeleteStep ==
  ASSUME IInv, NEW i \in DOMAIN requests, DeleteImportSession(i)
  PROVE  IInv'
<1> DEFINE q == requests[i]
           r == [q EXCEPT !.stage = "answered"]
<1>1. /\ q \in Requests /\ OfRequest(q, used) /\ used \in Nat
      /\ q.kind = "commit" /\ Answer(i, r) /\ session' = [session EXCEPT ![q.session] = NoSession]
      /\ UNCHANGED <<used, bank, imports, token, overlapped, page>>
  BY TheRequest, Zenon DEF DeleteImportSession, ServerOnly
<1>2. StoreSound' /\ RecordAddsUp'
  BY <1>1 DEF IInv, StoreSound, RecordAddsUp
<1>3. r \in Requests /\ r.stage = "answered" /\ Same(r, q, {"stage"})
  BY <1>1, Staged DEF Stages
<1> HIDE DEF r
<1>4. OfRequest(r, used) /\ ~Fills(r)
  BY <1>1, <1>3 DEF OfRequest, Same, Fills
<1>5. QED
  BY <1>1, <1>2, <1>3, <1>4, RequestStep

LEMMA FailStep ==
  ASSUME IInv, NEW i \in DOMAIN requests, Fail(i)
  PROVE  IInv'
<1>1. Refuse(i) /\ UNCHANGED <<serverVars, overlapped, page>>
  BY Zenon DEF Fail, ServerOnly
<1>2. StoreSound' /\ RecordAddsUp'
  BY <1>1 DEF serverVars, IInv, StoreSound, RecordAddsUp
<1>3. QED
  BY <1>1, <1>2, RefusedStep DEF serverVars

LEMMA ExpiryStep ==
  ASSUME IInv, TokenExpires \/ \E id \in Sessions : SessionExpires(id)
  PROVE  IInv'
<1>1. /\ UNCHANGED <<used, bank, imports, requests, overlapped, page>>
      /\ token' \in {token, "stale", "none"}
      /\ session' = session \/ \E id \in Sessions : session' = [session EXCEPT ![id] = NoSession]
  BY Zenon DEF TokenExpires, SessionExpires, ServerOnly
<1>2. StoreSound' /\ RecordAddsUp'
  BY <1>1 DEF IInv, StoreSound, RecordAddsUp
<1>3. QED
  BY <1>1, <1>2, Zenon DEF IInv

-----------------------------------------------------------------------------
(* The steps of the wizard.                                                *)

\* Two pages are at the same place, with the same preview.
SamePlace(n, p) ==
  n.step = p.step /\ n.furthest = p.furthest /\ n.source = p.source /\ n.preview = p.preview

LEMMA StaysSound ==
  ASSUME NEW p, NEW u, PageSound(p, u), NEW n \in Pages, SamePlace(n, p)
  PROVE  PageSound(n, u)
BY Zenon DEF PageSound, SamePlace

LEMMA PageFlags ==
  ASSUME NEW p \in Pages, NEW b \in BOOLEAN
  PROVE  /\ LET n == [p EXCEPT !.committing = b] IN n \in Pages /\ SamePlace(n, p)
         /\ LET n == [p EXCEPT !.loading = b] IN n \in Pages /\ SamePlace(n, p)
         /\ LET n == [p EXCEPT !.loadingTabs = b] IN n \in Pages /\ SamePlace(n, p)
         /\ LET n == [p EXCEPT !.error = b] IN n \in Pages /\ SamePlace(n, p)
<1>1. LET n == [p EXCEPT !.committing = b] IN n \in Pages /\ SamePlace(n, p)
  BY DEF Pages, SamePlace
<1>2. LET n == [p EXCEPT !.loading = b] IN n \in Pages /\ SamePlace(n, p)
  BY DEF Pages, SamePlace
<1>3. LET n == [p EXCEPT !.loadingTabs = b] IN n \in Pages /\ SamePlace(n, p)
  BY DEF Pages, SamePlace
<1>4. LET n == [p EXCEPT !.error = b] IN n \in Pages /\ SamePlace(n, p)
  BY DEF Pages, SamePlace
<1>5. QED
  BY <1>1, <1>2, <1>3, <1>4

\* The page loads something; its source may change where it is not at step 2.
LEMMA PageLoads ==
  ASSUME NEW p \in Pages
  PROVE  Load(p) \in Pages /\ SamePlace(Load(p), p)
BY DEF Load, Pages, SamePlace

LEMMA SourceChosen ==
  ASSUME NEW u, NEW p, PageSound(p, u), p.step # 2, NEW v \in {"file", "json", "google"}
  PROVE  PageSound([p EXCEPT !.source = v], u)
<1>1. p \in Pages
  BY Zenon DEF PageSound
<1> DEFINE n == [p EXCEPT !.source = v]
<1>2. n \in Pages /\ n.step = p.step /\ n.furthest = p.furthest /\ n.preview = p.preview
  BY <1>1 DEF Pages
<1> HIDE DEF n
<1>3. PageSound(n, u)
  BY <1>2, Zenon DEF PageSound
<1>4. QED
  BY <1>3 DEF n

\* The page goes to a step, or on to it.
LEMMA Moves ==
  ASSUME NEW u, NEW p, PageSound(p, u), NEW target \in 1..3, target = 2 => p.source = "google"
  PROVE  /\ target <= p.furthest => PageSound([p EXCEPT !.step = target], u)
         /\ PageSound(Advance(p, target), u)
<1>1. p \in Pages /\ p.furthest \in 1..3
  BY DEF PageSound, Pages
<1>2. ASSUME target <= p.furthest
      PROVE  PageSound([p EXCEPT !.step = target], u)
  <2> DEFINE n == [p EXCEPT !.step = target]
  <2>1. n \in Pages /\ n.step = target /\ n.furthest = p.furthest /\ n.preview = p.preview /\ n.source = p.source
    BY <1>1 DEF Pages
  <2> HIDE DEF n
  <2>2. PageSound(n, u)
    BY <1>2, <2>1, Zenon DEF PageSound
  <2>3. QED
    BY <2>2 DEF n
<1>3. PageSound(Advance(p, target), u)
  <2> DEFINE f == IF p.furthest < target THEN target ELSE p.furthest
             n == [p EXCEPT !.step = target, !.furthest = f]
  <2>1. f \in 1..3 /\ target <= f
    BY <1>1
  <2> HIDE DEF f
  <2>2. n \in Pages /\ n.step = target /\ n.furthest = f /\ n.preview = p.preview /\ n.source = p.source
    BY <1>1, <2>1 DEF Pages
  <2>3. Advance(p, target) = n
    BY DEF Advance, f
  <2> HIDE DEF n
  <2>4. QED
    BY <2>1, <2>2, <2>3, Zenon DEF PageSound
<1>4. QED
  BY <1>2, <1>3

\* A preview is shown.
LEMMA Shows ==
  ASSUME NEW u \in Nat, NEW p, PageSound(p, u), NEW w \in Previews,
         w.session <= u, w = NoPreview \/ w.session >= 1
  PROVE  /\ PageSound([p EXCEPT !.preview = w], u)
         /\ PageSound([p EXCEPT !.preview = w, !.loading = FALSE], u)
         /\ PageSound([p EXCEPT !.done = TRUE, !.preview = w, !.committing = FALSE], u)
<1>1. p \in Pages
  BY Zenon DEF PageSound
<1>2. ASSUME NEW n \in Pages, n.step = p.step, n.furthest = p.furthest, n.source = p.source, n.preview = w
      PROVE  PageSound(n, u)
  BY <1>2, Zenon DEF PageSound
<1>3. LET n == [p EXCEPT !.preview = w]
      IN  n \in Pages /\ n.step = p.step /\ n.furthest = p.furthest /\ n.source = p.source /\ n.preview = w
  BY <1>1 DEF Pages
<1>4. LET n == [p EXCEPT !.preview = w, !.loading = FALSE]
      IN  n \in Pages /\ n.step = p.step /\ n.furthest = p.furthest /\ n.source = p.source /\ n.preview = w
  BY <1>1 DEF Pages
<1>5. LET n == [p EXCEPT !.done = TRUE, !.preview = w, !.committing = FALSE]
      IN  n \in Pages /\ n.step = p.step /\ n.furthest = p.furthest /\ n.source = p.source /\ n.preview = w
  BY <1>1 DEF Pages
<1>6. QED
  BY <1>2, <1>3, <1>4, <1>5

\* A new page, or the page of another import.
LEMMA NewPageSound ==
  ASSUME NEW u \in Nat
  PROVE  /\ PageSound(NewPage, u)
         /\ \A p \in Pages :
              PageSound([NewPage EXCEPT !.loading = p.loading, !.committing = p.committing,
                                        !.connected = p.connected, !.loadingTabs = p.loadingTabs], u)
<1>1. NoPreview \in Previews /\ NoPreview.session = 0
  BY DEF NoPreview, Previews
<1>2. PICK q \in Pages : q = NewPage
  <2>1. 1 \in 1..3 /\ {} \in SUBSET Files
    OBVIOUS
  <2>2. QED
    BY <1>1, <2>1, Zenon DEF Pages, NewPage
<1>3. q.step = 1 /\ q.furthest = 1 /\ q.preview = NoPreview
  BY <1>2, Zenon DEF NewPage
<1>4. ASSUME NEW n \in Pages, n.step = 1, n.furthest = 1, n.preview = NoPreview
      PROVE  PageSound(n, u)
  BY <1>1, <1>4 DEF PageSound
<1>5. ASSUME NEW p \in Pages
      PROVE  PageSound([NewPage EXCEPT !.loading = p.loading, !.committing = p.committing,
                                        !.connected = p.connected, !.loadingTabs = p.loadingTabs], u)
  <2>1. PICK a \in BOOLEAN, b \in BOOLEAN, c \in {"unknown", "yes", "no"}, d \in BOOLEAN :
          a = p.loading /\ b = p.committing /\ c = p.connected /\ d = p.loadingTabs
    BY Zenon DEF Pages
  <2> DEFINE Like(x, y) == /\ x \in Pages /\ x.step = y.step
                           /\ x.furthest = y.furthest /\ x.preview = y.preview
             n1 == [q EXCEPT !.loading = a]
             n2 == [n1 EXCEPT !.committing = b]
             n3 == [n2 EXCEPT !.connected = c]
             n == [n3 EXCEPT !.loadingTabs = d]
  <2>2. Like(n, q)
    <3>1. Like(n1, q)
      BY DEF Pages
    <3> HIDE DEF n1
    <3>2. Like(n2, n1)
      BY <3>1 DEF Pages
    <3> HIDE DEF n2
    <3>3. Like(n3, n2)
      BY <3>2 DEF Pages
    <3> HIDE DEF n3
    <3>4. Like(n, n3)
      BY <3>3 DEF Pages
    <3>5. QED
      BY <3>1, <3>2, <3>3, <3>4
  <2>3. n = [NewPage EXCEPT !.loading = p.loading, !.committing = p.committing,
                            !.connected = p.connected, !.loadingTabs = p.loadingTabs]
    BY <1>2, <2>1, Zenon
  <2> HIDE DEF n
  <2>4. QED
    BY <1>3, <1>4, <2>2, <2>3
<1>6. QED
  BY <1>2, <1>3, <1>4, <1>5

\* What is left to show of a step of the wizard.
LEMMA WizardStep ==
  ASSUME IInv, UNCHANGED <<session, used, bank, imports, overlapped>>,
         token' \in {"none", "valid", "stale"}, PageSound(page', used),
         ListSound(requests', used), OneFills(requests, bank) => OneFills(requests', bank)
  PROVE  IInv'
<1>1. StoreSound' /\ RecordAddsUp'
  BY DEF IInv, StoreSound, RecordAddsUp
<1>2. QED
  BY <1>1, Zenon DEF IInv

\* A request is gone from the list, or is no longer heard.
LEMMA GoneOrUnheard ==
  ASSUME IInv, NEW i \in DOMAIN requests,
         \/ requests' = RemoveAt(requests, i)
         \/ requests' = [requests EXCEPT ![i].heard = FALSE]
  PROVE  ListSound(requests', used) /\ (OneFills(requests, bank) => OneFills(requests', bank))
<1>1. /\ requests \in Seq(Requests) /\ requests[i] \in Requests /\ OfRequest(requests[i], used) /\ used \in Nat
      /\ ListSound(requests, used)
  BY TheRequest DEF IInv
<1> DEFINE r == [requests[i] EXCEPT !.heard = FALSE]
<1>2. r \in Requests /\ Same(r, requests[i], {})
  BY <1>1, Unheard
<1>3. requests' = RemoveAt(requests, i) \/ requests' = [requests EXCEPT ![i] = r]
  OBVIOUS
<1> HIDE DEF r
<1>4. OfRequest(r, used) /\ (Fills(r) => Fills(requests[i]) /\ r.todo = requests[i].todo)
  BY <1>1, <1>2, StillOfRequest
<1>5. requests' \in Seq(Requests) /\ Replaced(requests, requests', i, r)
  <2>1. CASE requests' = RemoveAt(requests, i)
    BY <1>1, <1>2, <2>1, Replacing
  <2>2. CASE requests' = [requests EXCEPT ![i] = r]
    BY <1>1, <1>2, <2>2, Replacing
  <2>3. QED
    BY <1>3, <2>1, <2>2
<1>6. QED
  BY <1>1, <1>2, <1>4, <1>5, ListKept, FillKept

\* Nobody hears of any of them.
LEMMA NoneHeard ==
  ASSUME IInv, requests' = [i \in DOMAIN requests |-> [requests[i] EXCEPT !.heard = FALSE]]
  PROVE  ListSound(requests', used) /\ (OneFills(requests, bank) => OneFills(requests', bank))
<1>1. requests \in Seq(Requests) /\ Len(requests) \in Nat /\ DOMAIN requests = 1..Len(requests)
  BY LenProperties DEF IInv, ListSound
<1>2. ASSUME NEW i \in DOMAIN requests
      PROVE  /\ requests'[i] \in Requests /\ OfRequest(requests'[i], used)
             /\ Fills(requests'[i]) => Fills(requests[i]) /\ requests'[i].todo = requests[i].todo
  <2>1. requests[i] \in Requests /\ OfRequest(requests[i], used)
    BY TheRequest
  <2> DEFINE r == [requests[i] EXCEPT !.heard = FALSE]
  <2>2. r \in Requests /\ Same(r, requests[i], {}) /\ requests'[i] = r
    BY <2>1, Unheard
  <2> HIDE DEF r
  <2>3. OfRequest(r, used) /\ (Fills(r) => Fills(requests[i]) /\ r.todo = requests[i].todo)
    BY <2>1, <2>2, StillOfRequest
  <2>4. QED
    BY <2>2, <2>3
<1>3. DOMAIN requests' = DOMAIN requests
  OBVIOUS
<1>4. requests' \in Seq(Requests)
  <2>1. requests' \in [1..Len(requests) -> Requests]
    BY <1>1, <1>2, <1>3
  <2>2. QED
    BY <1>1, <2>1, SeqDef
<1>5. ListSound(requests', used)
  BY <1>2, <1>3, <1>4 DEF ListSound
<1>6. OneFills(requests, bank) => OneFills(requests', bank)
  BY <1>2, <1>3, Zenon DEF OneFills
<1>7. QED
  BY <1>5, <1>6

\* The requests of the wizard, as they are sent.
LEMMA NewRequests ==
  ASSUME NEW kind \in {"preview", "tabs", "mapping", "commit"}
  PROVE  LET n == NewRequest(kind)
         IN  /\ n \in Requests /\ n.kind = kind /\ n.stage = "sent" /\ n.session = 0
             /\ n.preview.session = 0 /\ n.created = 0
<1>1. NoPreview \in Previews /\ NoPreview.session = 0 /\ << >> \in Seq(Keys) /\ 0 \in Nat
  BY EmptySeq DEF NoPreview, Previews
<1>2. NewRequest(kind) \in Requests
  BY <1>1, Zenon DEF Requests, NewRequest, Stages
<1>3. QED
  BY <1>1, <1>2, Zenon DEF NewRequest

\* A request that is sent is of the sessions there are.
LEMMA Sends ==
  ASSUME IInv, NEW q \in Requests, q.stage = "sent", q.session <= used, q.preview.session = 0,
         q.kind \in {"mapping", "commit"} => q.session >= 1,
         q.kind = "preview" => q.file \in Files, q.kind = "tabs" => q.from \in Spreadsheets,
         q.kind = "mapping" => q.mapping \in Mappings,
         q.kind = "commit" => q.created = 0, Send(q)
  PROVE  ListSound(requests', used) /\ (OneFills(requests, bank) => OneFills(requests', bank))
<1>1. used \in Nat /\ ListSound(requests, used) /\ requests' = Append(requests, q)
  BY DEF IInv, StoreSound, Send
<1>2. OfRequest(q, used)
  BY <1>1 DEF OfRequest
<1>3. ~Fills(q)
  BY DEF Fills
<1>4. QED
  BY <1>1, <1>2, <1>3, ListGrows

LEMMA SentForFile ==
  ASSUME IInv, NEW f \in Files, Send([NewRequest("preview") EXCEPT !.file = f])
  PROVE  ListSound(requests', used) /\ (OneFills(requests, bank) => OneFills(requests', bank))
<1>1. PICK q \in Requests : q = NewRequest("preview")
  BY NewRequests
<1>2. q.kind = "preview" /\ q.stage = "sent" /\ q.session = 0 /\ q.preview.session = 0 /\ used \in Nat
  BY <1>1, NewRequests DEF IInv, StoreSound
<1> DEFINE n == [q EXCEPT !.file = f]
<1>3. /\ n \in Requests /\ n.kind = q.kind /\ n.stage = q.stage /\ n.session = q.session
      /\ n.preview = q.preview /\ n.file = f
  BY DEF Requests
<1>4. Send(n)
  BY <1>1, Zenon
<1> HIDE DEF n
<1>5. QED
  BY <1>2, <1>3, <1>4, Sends

LEMMA SentForSheet ==
  ASSUME IInv, NEW f \in Files, NEW x \in Spreadsheets \union {None},
         Send([NewRequest("preview") EXCEPT !.file = f, !.from = x])
  PROVE  ListSound(requests', used) /\ (OneFills(requests, bank) => OneFills(requests', bank))
<1>1. PICK q \in Requests : q = NewRequest("preview")
  BY NewRequests
<1>2. q.kind = "preview" /\ q.stage = "sent" /\ q.session = 0 /\ q.preview.session = 0 /\ used \in Nat
  BY <1>1, NewRequests DEF IInv, StoreSound
<1> DEFINE n == [q EXCEPT !.file = f, !.from = x]
<1>3. /\ n \in Requests /\ n.kind = q.kind /\ n.stage = q.stage /\ n.session = q.session
      /\ n.preview = q.preview /\ n.file = f
  BY DEF Requests
<1>4. Send(n)
  BY <1>1, Zenon
<1> HIDE DEF n
<1>5. QED
  BY <1>2, <1>3, <1>4, Sends

LEMMA SentForTabs ==
  ASSUME IInv, NEW x \in Spreadsheets, Send([NewRequest("tabs") EXCEPT !.from = x])
  PROVE  ListSound(requests', used) /\ (OneFills(requests, bank) => OneFills(requests', bank))
<1>1. PICK q \in Requests : q = NewRequest("tabs")
  BY NewRequests
<1>2. q.kind = "tabs" /\ q.stage = "sent" /\ q.session = 0 /\ q.preview.session = 0 /\ used \in Nat
  <2>1. used \in Nat
    BY DEF IInv, StoreSound
  <2>2. QED
    BY <1>1, <2>1, NewRequests
<1> DEFINE n == [q EXCEPT !.from = x]
<1>3. /\ n \in Requests /\ n.kind = q.kind /\ n.stage = q.stage /\ n.session = q.session
      /\ n.preview = q.preview /\ n.from = x
  BY DEF Requests
<1>4. Send(n)
  BY <1>1, Zenon
<1> HIDE DEF n
<1>5. QED
  BY <1>2, <1>3, <1>4, Sends

LEMMA SentForSession ==
  ASSUME IInv, NEW s \in Nat, s >= 1, s <= used,
         \/ \E m \in Mappings : Send([NewRequest("mapping") EXCEPT !.session = s, !.mapping = m])
         \/ Send([NewRequest("commit") EXCEPT !.session = s])
  PROVE  ListSound(requests', used) /\ (OneFills(requests, bank) => OneFills(requests', bank))
<1>1. ASSUME NEW m \in Mappings, Send([NewRequest("mapping") EXCEPT !.session = s, !.mapping = m])
      PROVE  ListSound(requests', used) /\ (OneFills(requests, bank) => OneFills(requests', bank))
  <2>1. PICK q \in Requests : q = NewRequest("mapping")
    BY NewRequests
  <2>2. q.kind = "mapping" /\ q.stage = "sent" /\ q.preview.session = 0
    BY <2>1, NewRequests
  <2> DEFINE n == [q EXCEPT !.session = s, !.mapping = m]
  <2>3. /\ n \in Requests /\ n.kind = q.kind /\ n.stage = q.stage /\ n.session = s
        /\ n.preview = q.preview /\ n.mapping = m
    BY DEF Requests
  <2>4. Send(n)
    BY <1>1, <2>1, Zenon
  <2> HIDE DEF n
  <2>5. QED
    BY <2>2, <2>3, <2>4, Sends
<1>2. CASE Send([NewRequest("commit") EXCEPT !.session = s])
  <2>1. PICK q \in Requests : q = NewRequest("commit")
    BY NewRequests
  <2>2. q.kind = "commit" /\ q.stage = "sent" /\ q.preview.session = 0 /\ q.created = 0
    BY <2>1, NewRequests
  <2> DEFINE n == [q EXCEPT !.session = s]
  <2>3. /\ n \in Requests /\ n.kind = q.kind /\ n.stage = q.stage /\ n.session = s
        /\ n.preview = q.preview /\ n.created = q.created
    BY DEF Requests
  <2>4. Send(n)
    BY <1>2, <2>1, Zenon
  <2> HIDE DEF n
  <2>5. QED
    BY <2>2, <2>3, <2>4, Sends
<1>3. QED
  BY <1>1, <1>2

\* The page, and what is known of it.
LEMMA ThePage ==
  ASSUME IInv
  PROVE  /\ page \in Pages /\ PageSound(page, used) /\ used \in Nat /\ token \in {"none", "valid", "stale"}
         /\ page.preview \in Previews /\ page.preview.session \in Nat /\ page.preview.session <= used
         /\ ListSound(requests, used)
<1>1. PageSound(page, used) /\ used \in Nat /\ token \in {"none", "valid", "stale"} /\ ListSound(requests, used)
  BY DEF IInv, StoreSound
<1>2. page \in Pages /\ page.preview.session <= used
  BY <1>1, Zenon DEF PageSound
<1>3. page.preview \in Previews /\ page.preview.session \in Nat
  BY <1>2 DEF Pages, Previews
<1>4. QED
  BY <1>1, <1>2, <1>3

\* A file or a worksheet is loaded.
LEMMA LoadingStep ==
  ASSUME ImportAssumption, IInv,
         \/ \E f \in Uploads : HandleFileChange(f) \/ HandleJsonSubmit(f)
         \/ HandleLoadGoogleSheet
  PROVE  IInv'
<1>1. page \in Pages /\ PageSound(page, used) /\ token \in {"none", "valid", "stale"}
  BY ThePage
<1>2. Load(page) \in Pages /\ SamePlace(Load(page), page) /\ PageSound(Load(page), used)
  BY <1>1, PageLoads, StaysSound
<1>3. UNCHANGED <<serverVars, overlapped>>
  BY Zenon DEF HandleFileChange, HandleJsonSubmit, HandleLoadGoogleSheet, Do
<1>4. CASE \E f \in Uploads : HandleFileChange(f) \/ HandleJsonSubmit(f)
  <2>1. PICK f \in Files, v \in {"file", "json", "google"} :
          /\ page' = [Load(page) EXCEPT !.source = v] /\ page.step = 1
          /\ Send([NewRequest("preview") EXCEPT !.file = f])
    BY <1>4, Zenon DEF HandleFileChange, HandleJsonSubmit, OffersFile, OffersJson, InWizard, Show, ImportAssumption
  <2>2. Load(page).step # 2
    BY <1>2, <2>1 DEF SamePlace
  <2>3. PageSound(page', used)
    BY <1>2, <2>1, <2>2, SourceChosen
  <2>4. ListSound(requests', used) /\ (OneFills(requests, bank) => OneFills(requests', bank))
    BY <2>1, SentForFile
  <2>5. QED
    BY <1>1, <1>3, <2>3, <2>4, WizardStep DEF serverVars
<1>5. CASE HandleLoadGoogleSheet
  <2>1. /\ page' = Load(page) /\ page.sheet # None
        /\ Send([NewRequest("preview") EXCEPT !.file = page.sheet, !.from = page.spreadsheet])
    BY <1>5, Zenon DEF HandleLoadGoogleSheet, OffersLoad, Show
  <2>2. page.sheet \in Files /\ page.spreadsheet \in Spreadsheets \union {None}
    BY <1>1, <2>1 DEF Pages
  <2>3. ListSound(requests', used) /\ (OneFills(requests, bank) => OneFills(requests', bank))
    <3>1. PICK f \in Files, x \in Spreadsheets \union {None} : f = page.sheet /\ x = page.spreadsheet
      BY <2>2
    <3>2. QED
      BY <2>1, <3>1, SentForSheet, Zenon
  <2>4. QED
    BY <1>1, <1>2, <1>3, <2>1, <2>3, WizardStep DEF serverVars
<1>6. QED
  BY <1>4, <1>5

\* Google is chosen, connected, and its spreadsheets and worksheets.
LEMMA GoogleStep ==
  ASSUME IInv,
         \/ StatusArrives \/ ChooseGoogleSource \/ ConnectGoogle
         \/ \E x \in Spreadsheets : HandleSelectSpreadsheet(x)
         \/ \E f \in Files : SelectSheet(f)
  PROVE  IInv'
<1>1. /\ page \in Pages /\ PageSound(page, used) /\ token \in {"none", "valid", "stale"} /\ used \in Nat
      /\ ListSound(requests, used)
  BY ThePage
<1>2. CASE StatusArrives
  <2>1. /\ UNCHANGED <<serverVars, requests, overlapped>>
        /\ page' = [page EXCEPT !.connected = IF token = "none" THEN "no" ELSE "yes"]
    BY <1>2, Zenon DEF StatusArrives, Show
  <2>2. page' \in Pages /\ SamePlace(page', page)
    BY <1>1, <2>1 DEF Pages, SamePlace
  <2>3. QED
    BY <1>1, <2>1, <2>2, StaysSound, WizardStep DEF serverVars
<1>3. CASE ChooseGoogleSource
  <2> DEFINE p == [page EXCEPT !.source = "google"]
  <2>1. page' = Advance(p, 2) /\ page.step = 1 /\ UNCHANGED <<serverVars, requests, overlapped>>
    BY <1>3, Zenon DEF ChooseGoogleSource, OffersGoogle, InWizard, Show, Do
  <2>2. PageSound(p, used)
    <3>1. page.step # 2 /\ "google" \in {"file", "json", "google"}
      BY <2>1
    <3>2. QED
      BY <1>1, <3>1, SourceChosen
  <2>3. p.source = "google"
    BY <1>1 DEF Pages
  <2> HIDE DEF p
  <2>4. PageSound(page', used)
    <3>1. 2 \in 1..3
      OBVIOUS
    <3>2. QED
      BY <2>1, <2>2, <2>3, <3>1, Moves
  <2>5. QED
    BY <1>1, <2>1, <2>4, WizardStep DEF serverVars
<1>4. CASE ConnectGoogle
  <2>1. /\ page' = NewPage /\ token' \in {"valid", token}
        /\ requests' = [i \in DOMAIN requests |-> [requests[i] EXCEPT !.heard = FALSE]]
        /\ UNCHANGED <<session, used, bank, imports, overlapped>>
    BY <1>4, Zenon DEF ConnectGoogle, Show
  <2>2. ListSound(requests', used) /\ (OneFills(requests, bank) => OneFills(requests', bank))
    BY <2>1, NoneHeard
  <2>3. PageSound(page', used)
    BY <1>1, <2>1, NewPageSound
  <2>4. token' \in {"none", "valid", "stale"}
    BY <1>1, <2>1
  <2>5. QED
    BY <2>1, <2>2, <2>3, <2>4, WizardStep
<1>5. ASSUME NEW x \in Spreadsheets, HandleSelectSpreadsheet(x)
      PROVE  IInv'
  <2>1. /\ page' = [page EXCEPT !.spreadsheet = x, !.sheet = None, !.tabs = {}, !.loadingTabs = TRUE]
        /\ Send([NewRequest("tabs") EXCEPT !.from = x]) /\ UNCHANGED <<serverVars, overlapped>>
    BY <1>5, Zenon DEF HandleSelectSpreadsheet, Show, Do
  <2>2. page' \in Pages /\ SamePlace(page', page)
    BY <1>1, <2>1 DEF Pages, SamePlace
  <2>3. ListSound(requests', used) /\ (OneFills(requests, bank) => OneFills(requests', bank))
    BY <2>1, SentForTabs
  <2>4. QED
    BY <1>1, <2>1, <2>2, <2>3, StaysSound, WizardStep DEF serverVars
<1>6. ASSUME NEW f \in Files, SelectSheet(f)
      PROVE  IInv'
  <2>1. page' = [page EXCEPT !.sheet = f] /\ UNCHANGED <<serverVars, requests, overlapped>>
    BY <1>6, Zenon DEF SelectSheet, Show, Do
  <2>2. page' \in Pages /\ SamePlace(page', page)
    BY <1>1, <2>1 DEF Pages, SamePlace
  <2>3. QED
    BY <1>1, <2>1, <2>2, StaysSound, WizardStep DEF serverVars
<1>7. QED
  BY <1>2, <1>3, <1>4, <1>5, <1>6

\* The mapping, the commit, and the ways between the steps.
LEMMA SteppingStep ==
  ASSUME IInv,
         \/ \E m \in Mappings : HandleMappingChange(m)
         \/ HandleCommit \/ ResetWizard
         \/ \E step \in 1 .. 3 : GoToStep(step)
  PROVE  IInv'
<1>1. /\ page \in Pages /\ PageSound(page, used) /\ token \in {"none", "valid", "stale"} /\ used \in Nat
      /\ page.preview \in Previews /\ page.preview.session \in Nat /\ page.preview.session <= used
      /\ ListSound(requests, used)
  BY ThePage
<1>2. UNCHANGED <<serverVars, overlapped>>
  BY Zenon DEF HandleMappingChange, HandleCommit, ResetWizard, GoToStep, Do
<1>3. ASSUME page.preview # NoPreview
      PROVE  page.preview.session >= 1
  BY <1>1, <1>3, Zenon DEF PageSound
<1>4. ASSUME NEW m \in Mappings, HandleMappingChange(m)
      PROVE  IInv'
  <2>1. /\ page' = page /\ page.preview # NoPreview
        /\ Send([NewRequest("mapping") EXCEPT !.session = page.preview.session, !.mapping = m])
    BY <1>4, Zenon DEF HandleMappingChange, OffersMapping
  <2>2. ListSound(requests', used) /\ (OneFills(requests, bank) => OneFills(requests', bank))
    <3>1. PICK s \in Nat : s = page.preview.session
      BY <1>1
    <3>2. s >= 1 /\ s <= used
      BY <1>1, <1>3, <2>1, <3>1
    <3>3. QED
      BY <2>1, <3>1, <3>2, SentForSession, Zenon
  <2>3. QED
    BY <1>1, <1>2, <2>1, <2>2, WizardStep DEF serverVars
<1>5. CASE HandleCommit
  <2>1. /\ page' = [page EXCEPT !.committing = TRUE] /\ page.preview # NoPreview
        /\ Send([NewRequest("commit") EXCEPT !.session = page.preview.session])
    BY <1>5, Zenon DEF HandleCommit, OffersCommit, OffersMapping, Show
  <2>2. page' \in Pages /\ SamePlace(page', page)
    BY <1>1, <2>1, PageFlags
  <2>3. ListSound(requests', used) /\ (OneFills(requests, bank) => OneFills(requests', bank))
    <3>1. PICK s \in Nat : s = page.preview.session
      BY <1>1
    <3>2. s >= 1 /\ s <= used
      BY <1>1, <1>3, <2>1, <3>1
    <3>3. QED
      BY <2>1, <3>1, <3>2, SentForSession, Zenon
  <2>4. QED
    BY <1>1, <1>2, <2>2, <2>3, StaysSound, WizardStep DEF serverVars
<1>6. CASE ResetWizard
  <2>1. /\ requests' = requests
        /\ page' = [NewPage EXCEPT !.loading = page.loading, !.committing = page.committing,
                                   !.connected = page.connected, !.loadingTabs = page.loadingTabs]
    BY <1>6, Zenon DEF ResetWizard, Show
  <2>2. PageSound(page', used)
    BY <1>1, <2>1, NewPageSound, Zenon
  <2>3. QED
    BY <1>1, <1>2, <2>1, <2>2, WizardStep DEF serverVars
<1>7. ASSUME NEW step \in 1 .. 3, GoToStep(step)
      PROVE  IInv'
  <2>1. /\ requests' = requests /\ page' = [page EXCEPT !.step = step]
        /\ step <= page.furthest /\ (step = 2 => page.source = "google")
    BY <1>7, Zenon DEF GoToStep, Show
  <2>2. PageSound(page', used)
    BY <1>1, <2>1, Moves
  <2>3. QED
    BY <1>1, <1>2, <2>1, <2>2, WizardStep DEF serverVars
<1>8. QED
  BY <1>4, <1>5, <1>6, <1>7

\* What a handler was busy with has ended.
LEMMA NotBusy ==
  ASSUME IInv, NEW kind \in {"preview", "tabs", "mapping", "commit"}
  PROVE  NoLonger(kind) \in Pages /\ SamePlace(NoLonger(kind), page)
<1>1. page \in Pages
  BY ThePage
<1>2. CASE kind = "preview"
  <2>1. NoLonger(kind) = [page EXCEPT !.loading = FALSE]
    BY <1>2 DEF NoLonger
  <2>2. QED
    BY <1>1, <2>1, PageFlags
<1>3. CASE kind = "tabs"
  <2>1. NoLonger(kind) = [page EXCEPT !.loadingTabs = FALSE]
    BY <1>3 DEF NoLonger
  <2>2. QED
    BY <1>1, <2>1, PageFlags
<1>4. CASE kind = "commit"
  <2>1. NoLonger(kind) = [page EXCEPT !.committing = FALSE]
    BY <1>4 DEF NoLonger
  <2>2. QED
    BY <1>1, <2>1, PageFlags
<1>5. CASE kind = "mapping"
  <2>1. NoLonger(kind) = page
    BY <1>5 DEF NoLonger
  <2>2. QED
    BY <1>1, <2>1 DEF SamePlace
<1>6. QED
  BY <1>2, <1>3, <1>4, <1>5

\* An answer or a refusal reaches the page, or does not.
LEMMA ArrivalStep ==
  ASSUME ImportAssumption, IInv, NEW i \in DOMAIN requests,
         AnswerArrives(i) \/ RefusalArrives(i) \/ LoseAnswer(i)
  PROVE  IInv'
<1> DEFINE r == requests[i]
<1>1. /\ page \in Pages /\ PageSound(page, used) /\ token \in {"none", "valid", "stale"} /\ used \in Nat
      /\ r \in Requests /\ OfRequest(r, used) /\ r.preview \in Previews
      /\ r.kind \in {"preview", "tabs", "mapping", "commit"}
  BY ThePage, TheRequest DEF Requests
<1>2. UNCHANGED <<serverVars, overlapped>>
  BY Zenon DEF AnswerArrives, RefusalArrives, LoseAnswer
<1>3. requests' = RemoveAt(requests, i) \/ requests' = [requests EXCEPT ![i].heard = FALSE]
  BY Zenon DEF AnswerArrives, RefusalArrives, LoseAnswer
<1>4. ListSound(requests', used) /\ (OneFills(requests, bank) => OneFills(requests', bank))
  BY <1>3, GoneOrUnheard
<1>5. PageSound(page', used)
  <2>1. CASE LoseAnswer(i)
    <3>1. page' = NoLonger(r.kind)
      BY <2>1, Zenon DEF LoseAnswer, Show
    <3>2. QED
      BY <1>1, <3>1, NotBusy, StaysSound
  <2>2. CASE RefusalArrives(i)
    <3> DEFINE p == NoLonger(r.kind)
    <3>1. p \in Pages /\ SamePlace(p, page)
      BY <1>1, NotBusy
    <3>2. page' = [p EXCEPT !.error = @ \/ r.kind \in {"preview", "commit"}]
      BY <2>2, Zenon DEF RefusalArrives, Show
    <3> HIDE DEF p
    <3>3. PICK b \in BOOLEAN : b = (p.error \/ r.kind \in {"preview", "commit"})
      BY Zenon
    <3>4. page' = [p EXCEPT !.error = b]
      BY <3>2, <3>3, Zenon
    <3>5. page' \in Pages /\ SamePlace(page', p)
      BY <3>1, <3>4, PageFlags
    <3>6. QED
      BY <1>1, <3>1, <3>5, StaysSound
  <2>3. CASE AnswerArrives(i)
    <3>1. page' = AfterAnswer(r) /\ r.stage = "answered"
      BY <2>3, Zenon DEF AnswerArrives, Show
    <3>2. r.preview.session <= used /\ (r.kind \in {"preview", "mapping"} => r.preview.session >= 1)
      BY <1>1, <3>1 DEF OfRequest
    <3>3. CASE r.kind = "preview"
      <4> DEFINE p == [page EXCEPT !.preview = r.preview, !.loading = FALSE]
      <4>1. page' = Advance(p, 3)
        BY <3>1, <3>3 DEF AfterAnswer
      <4>2. PageSound(p, used)
        BY <1>1, <3>2, <3>3, Shows
      <4> HIDE DEF p
      <4>3. 3 \in 1..3 /\ 3 # 2
        OBVIOUS
      <4>4. QED
        BY <4>1, <4>2, <4>3, Moves
    <3>4. CASE r.kind = "tabs"
      <4>1. page' = [page EXCEPT !.tabs = Tabs[r.from], !.loadingTabs = FALSE]
        BY <3>1, <3>4 DEF AfterAnswer
      <4>2. Tabs[r.from] \in SUBSET Files
        BY <1>1, <3>4 DEF OfRequest, ImportAssumption
      <4>3. page' \in Pages /\ SamePlace(page', page)
        BY <1>1, <4>1, <4>2 DEF Pages, SamePlace
      <4>4. QED
        BY <1>1, <4>3, StaysSound
    <3>5. CASE r.kind = "mapping"
      <4>1. page' = [page EXCEPT !.preview = r.preview]
        BY <3>1, <3>5 DEF AfterAnswer
      <4>2. QED
        BY <1>1, <3>2, <3>5, <4>1, Shows
    <3>6. CASE r.kind = "commit"
      <4>1. page' = [page EXCEPT !.done = TRUE, !.preview = NoPreview, !.committing = FALSE]
        BY <3>1, <3>6 DEF AfterAnswer
      <4>2. NoPreview \in Previews /\ NoPreview.session <= used
        BY <1>1 DEF NoPreview, Previews
      <4>3. QED
        BY <1>1, <4>1, <4>2, Shows
    <3>7. QED
      BY <1>1, <3>3, <3>4, <3>5, <3>6
  <2>4. QED
    BY <2>1, <2>2, <2>3
<1>6. QED
  BY <1>1, <1>2, <1>4, <1>5, WizardStep DEF serverVars

-----------------------------------------------------------------------------
(* The theorems.                                                           *)

LEMMA Initially ==
  ASSUME ImportAssumption, Init
  PROVE  IInv
<1>1. requests = << >> /\ requests \in Seq(Requests) /\ imports = << >> /\ imports \in Seq(Records)
      /\ DOMAIN requests = {} /\ DOMAIN imports = {}
  BY EmptySeq, LenProperties DEF Init
<1>2. StoreSound /\ used = 0
  BY <1>1 DEF Init, StoreSound, ImportAssumption
<1>3. RecordAddsUp /\ ListSound(requests, used)
  BY <1>1 DEF RecordAddsUp, ListSound
<1>4. PageSound(page, used)
  BY <1>2, NewPageSound DEF Init
<1>5. \A k \in Keys : bank[k] <= 1
  BY DEF Init
<1>6. OneFills(requests, bank)
  BY <1>1, <1>5 DEF OneFills
<1>7. QED
  BY <1>2, <1>3, <1>4, <1>6 DEF IInv

LEMMA Inductive == Spec => []IInv
<1>1. Init => IInv
  BY ImportAssumption, Initially
<1>2. IInv /\ [Next]_vars => IInv'
  <2> SUFFICES ASSUME IInv, [Next]_vars
               PROVE  IInv'
    OBVIOUS
  <2>1. CASE UNCHANGED vars
    <3>1. UNCHANGED <<session, used, bank, imports, token, requests, page, overlapped>>
      BY <2>1 DEF vars, serverVars
    <3>2. QED
      BY <3>1, ThePage, WizardStep
  <2>2. ASSUME NEW i \in DOMAIN requests, Handle(i) \/ Fail(i) \/ LoseAnswer(i)
        PROVE  IInv'
    BY <2>2, ImportAssumption, PreviewStep, TabsStep, MappingStep, ReadSessionStep, CheckStep, CreateRowStep,
       RecordStep, DeleteStep, FailStep, ArrivalStep DEF Handle
  <2>3. CASE TokenExpires \/ \E id \in Sessions : SessionExpires(id)
    BY <2>3, ExpiryStep
  <2>4. CASE \/ \E f \in Uploads : HandleFileChange(f) \/ HandleJsonSubmit(f)
             \/ HandleLoadGoogleSheet
    BY <2>4, ImportAssumption, LoadingStep
  <2>5. CASE \/ StatusArrives \/ ChooseGoogleSource \/ ConnectGoogle
             \/ \E x \in Spreadsheets : HandleSelectSpreadsheet(x)
             \/ \E f \in Files : SelectSheet(f)
    BY <2>5, GoogleStep
  <2>6. CASE \/ \E m \in Mappings : HandleMappingChange(m)
             \/ HandleCommit \/ ResetWizard
             \/ \E step \in 1 .. 3 : GoToStep(step)
    BY <2>6, SteppingStep
  <2>7. QED
    BY <2>1, <2>2, <2>3, <2>4, <2>5, <2>6, Zenon DEF Next
<1>3. QED
  BY <1>1, <1>2, PTL DEF Spec

\* However often an import fails half way and is committed again, a session that
\* was deleted is written back and committed again, or a file is uploaded again:
\* no question is in the bank twice, but where two commits looked at the bank
\* and filled it at the same time.
THEOREM NothingTwice == Spec => []DuplicatesNeedOverlap
<1>1. IInv => DuplicatesNeedOverlap
  BY DEF IInv, OneFills, DuplicatesNeedOverlap
<1>2. QED
  BY <1>1, Inductive, PTL

\* The sessions, the bank and the wizard keep their types, the wizard is at a step
\* that it has reached and that its source has, and the records of the table
\* imports add up.
THEOREM ImportHolds == Spec => []ImportInv
<1>1. IInv => ImportInv
  <2> SUFFICES ASSUME IInv
               PROVE  TypeOK
    BY DEF IInv, ImportInv
  <2>1. /\ session \in [Sessions -> [file : Files \union {None}, mapping : Mappings \union {None}]]
        /\ used \in 0 .. MaxSessions /\ DOMAIN bank = Keys /\ \A k \in Keys : bank[k] \in Nat
        /\ token \in {"none", "valid", "stale"}
    BY DEF IInv, StoreSound, Open, NoSession
  <2>2. page.step \in 1 .. 3 /\ page.step <= page.furthest /\ (page.step = 2 => page.source = "google")
    BY ThePage DEF PageSound, Pages
  <2>3. page.preview.session \in 0 .. used
    BY ThePage
  <2>4. ASSUME NEW i \in DOMAIN requests
        PROVE  requests[i].session \in 0 .. used
    BY TheRequest DEF OfRequest
  <2>5. QED
    BY <2>1, <2>2, <2>3, <2>4 DEF TypeOK
<1>2. QED
  BY <1>1, Inductive, PTL

-----------------------------------------------------------------------------
(* What is shown of a session.  A preview that waits to be taken is of a   *)
(* session that nobody maps yet; one with a new mapping is right until     *)
(* another one is written, which makes the answer unheard; and what the    *)
(* page shows is right, or is about to be replaced by such an answer.      *)

Right(p, st) == st[p.session] = NoSession \/ p = PreviewOf(p.session, st[p.session])
Waits(r) == r.kind = "preview" /\ r.stage = "answered"
Maps(r) == r.kind = "mapping"
Mapped(r) == Maps(r) /\ r.stage = "answered"

OneEach(ss) ==
  \A i, j \in DOMAIN ss :
    Waits(ss[i]) /\ Waits(ss[j]) /\ ss[i].preview.session = ss[j].preview.session => i = j
WaitingRight(ss, p, st) ==
  \A i \in DOMAIN ss : Waits(ss[i]) =>
    /\ Right(ss[i].preview, st) /\ ss[i].preview.session # p.session
    /\ \A j \in DOMAIN ss : Maps(ss[j]) => ss[j].session # ss[i].preview.session
MappedRight(ss, st) ==
  \A i \in DOMAIN ss : Mapped(ss[i]) =>
    Right(ss[i].preview, st) /\ ss[i].preview.session = ss[i].session
ShownRight(ss, p, st) == p = NoPreview \/ Right(p, st) \/ \E i \in DOMAIN ss : Mapped(ss[i])

Agree(ss, p, st) ==
  OneEach(ss) /\ WaitingRight(ss, p, st) /\ MappedRight(ss, st) /\ ShownRight(ss, p, st)
AgreeNow == unheard \/ Agree(requests, page.preview, session)

\* Sessions are as they were, or gone.
Gone(st, st2) == \A id \in 1..used : st2[id] = st[id] \/ st2[id] = NoSession

\* The sessions that requests and the page are about are there.
LEMMA InRange ==
  ASSUME IInv
  PROVE  /\ \A i \in DOMAIN requests : requests[i].kind \in {"mapping", "commit"} => requests[i].session \in 1..used
         /\ \A i \in DOMAIN requests :
              Waits(requests[i]) \/ Mapped(requests[i]) => requests[i].preview.session \in 1..used
         /\ page.preview = NoPreview \/ page.preview.session \in 1..used
         /\ \A i \in DOMAIN requests : Waits(requests[i]) => requests[i].preview.session # 0
<1>1. used \in Nat /\ MaxSessions \in Nat /\ used <= MaxSessions
  BY ImportAssumption DEF ImportAssumption, IInv, StoreSound
<1>2. \A n \in Nat : n >= 1 /\ n <= used => n \in 1..used
  BY <1>1 DEF Sessions
<1>3. ASSUME NEW i \in DOMAIN requests
      PROVE  /\ requests[i].kind \in {"mapping", "commit"} => requests[i].session \in 1..used
             /\ Waits(requests[i]) \/ Mapped(requests[i]) =>
                  requests[i].preview.session \in 1..used /\ requests[i].preview.session # 0
  <2>1. OfRequest(requests[i], used) /\ requests[i].session \in Nat /\ requests[i].preview.session \in Nat
    BY TheRequest
  <2>2. requests[i].kind \in {"mapping", "commit"} => requests[i].session \in 1..used
    BY <1>2, <2>1 DEF OfRequest
  <2>3. Waits(requests[i]) \/ Mapped(requests[i]) =>
          requests[i].preview.session >= 1 /\ requests[i].preview.session <= used
    BY <2>1 DEF OfRequest, Waits, Mapped, Maps
  <2>4. QED
    BY <1>2, <2>1, <2>2, <2>3
<1>4. page.preview = NoPreview \/ page.preview.session \in 1..used
  <2>1. PageSound(page, used) /\ page.preview.session \in Nat /\ page.preview.session <= used
    BY ThePage
  <2>2. page.preview = NoPreview \/ page.preview.session >= 1
    BY <2>1, Zenon DEF PageSound
  <2>3. QED
    BY <1>2, <2>1, <2>2
<1>5. QED
  BY <1>3, <1>4

LEMMA StillRight ==
  ASSUME NEW st, NEW st2, Gone(st, st2), NEW p, p.session \in 1..used, Right(p, st)
  PROVE  Right(p, st2)
<1>1. CASE st2[p.session] = NoSession
  BY <1>1 DEF Right
<1>2. CASE st2[p.session] = st[p.session]
  BY <1>2 DEF Right
<1>3. QED
  BY <1>1, <1>2 DEF Gone

\* The request at i goes on, or is gone, and what it is said of it stays.
LEMMA AgreeKept ==
  ASSUME IInv, NEW i \in DOMAIN requests, NEW r, NEW rs, Replaced(requests, rs, i, r),
         NEW st, Gone(session, st), NEW p, p = NoPreview \/ (p = page.preview /\ ~Mapped(requests[i])), ~Waits(r), ~Mapped(r),
         Maps(r) => Maps(requests[i]) /\ r.session = requests[i].session,
         Agree(requests, page.preview, session)
  PROVE  Agree(rs, p, st)
<1>1. PICK g \in [DOMAIN rs -> DOMAIN requests] :
        /\ \A k \in DOMAIN rs : rs[k] = IF g[k] = i THEN r ELSE requests[g[k]]
        /\ \A k, l \in DOMAIN rs : g[k] = g[l] => k = l
        /\ \A j \in DOMAIN requests \ {i} : \E k \in DOMAIN rs : g[k] = j
  BY Zenon DEF Replaced
<1>2. /\ \A k \in DOMAIN rs : Waits(rs[k]) \/ Mapped(rs[k]) => g[k] # i /\ rs[k] = requests[g[k]]
      /\ \A k \in DOMAIN rs : Maps(rs[k]) => Maps(requests[g[k]]) /\ rs[k].session = requests[g[k]].session
  BY <1>1
<1>3. OneEach(rs)
  <2> SUFFICES ASSUME NEW k \in DOMAIN rs, NEW l \in DOMAIN rs, Waits(rs[k]), Waits(rs[l]),
                      rs[k].preview.session = rs[l].preview.session
               PROVE  g[k] = g[l]
    BY <1>1, Zenon DEF OneEach
  <2>1. g[k] \in DOMAIN requests /\ g[l] \in DOMAIN requests
    BY <1>1
  <2>2. rs[k] = requests[g[k]] /\ rs[l] = requests[g[l]]
    BY <1>2
  <2>3. QED
    BY <2>1, <2>2, Zenon DEF Agree, OneEach
<1>4. ASSUME NEW k \in DOMAIN rs, Waits(rs[k])
      PROVE  /\ Right(rs[k].preview, st) /\ rs[k].preview.session # p.session
             /\ \A j \in DOMAIN rs : Maps(rs[j]) => rs[j].session # rs[k].preview.session
  <2>1. PICK j \in DOMAIN requests : j = g[k] /\ rs[k] = requests[j] /\ Waits(requests[j])
    BY <1>2, <1>4
  <2>2. /\ Right(requests[j].preview, session) /\ requests[j].preview.session # page.preview.session
        /\ \A l \in DOMAIN requests : Maps(requests[l]) => requests[l].session # requests[j].preview.session
    BY <2>1, Zenon DEF Agree, WaitingRight
  <2>3. requests[j].preview.session \in 1..used /\ requests[j].preview.session # 0
    BY <2>1, InRange
  <2>4. Right(requests[j].preview, st)
    BY <2>2, <2>3, StillRight
  <2>5. requests[j].preview.session # p.session
    BY <2>2, <2>3 DEF NoPreview
  <2>6. QED
    BY <1>1, <1>2, <2>1, <2>2, <2>4, <2>5
<1>5. WaitingRight(rs, p, st)
  BY <1>4, Zenon DEF WaitingRight
<1>6. MappedRight(rs, st)
  <2> SUFFICES ASSUME NEW k \in DOMAIN rs, Mapped(rs[k])
               PROVE  Right(rs[k].preview, st) /\ rs[k].preview.session = rs[k].session
    BY Zenon DEF MappedRight
  <2>1. PICK j \in DOMAIN requests : j = g[k] /\ rs[k] = requests[j] /\ Mapped(requests[j])
    BY <1>2
  <2>2. Right(requests[j].preview, session) /\ requests[j].preview.session = requests[j].session
    BY <2>1, Zenon DEF Agree, MappedRight
  <2>3. requests[j].preview.session \in 1..used
    BY <2>1, InRange
  <2>4. QED
    BY <2>1, <2>2, <2>3, StillRight
<1>7. ShownRight(rs, p, st)
  <2>1. CASE p = NoPreview
    BY <2>1 DEF ShownRight
  <2>2. CASE p # NoPreview /\ Right(page.preview, session)
    BY <2>2, InRange, StillRight DEF ShownRight
  <2>3. CASE p # NoPreview /\ \E j \in DOMAIN requests : Mapped(requests[j])
    <3>1. PICK j \in DOMAIN requests \ {i} : Mapped(requests[j])
      BY <2>3
    <3>2. PICK k \in DOMAIN rs : g[k] = j
      BY <1>1
    <3>3. rs[k] = requests[j]
      BY <1>1, <3>1, <3>2
    <3>4. QED
      BY <3>1, <3>3 DEF ShownRight
  <2>4. QED
    BY <2>1, <2>2, <2>3 DEF Agree, ShownRight
<1>8. QED
  BY <1>3, <1>5, <1>6, <1>7 DEF Agree

LEMMA SameGone == \A st : Gone(st, st)
BY DEF Gone

\* A step of the server that answers no preview.
LEMMA QuietStep ==
  ASSUME IInv, AgreeNow, NEW i \in DOMAIN requests, NEW r \in Requests, Answer(i, r) \/ Becomes(i, r),
         requests[i].stage # "answered" \/ requests[i].kind # "mapping",
         r.kind = requests[i].kind, r.session = requests[i].session,
         r.stage # "answered" \/ r.kind \notin {"preview", "mapping"},
         Gone(session, session'), UNCHANGED <<page, unheard>>
  PROVE  AgreeNow'
<1>1. requests \in Seq(Requests)
  BY TheRequest
<1>2. Replaced(requests, requests', i, r)
  BY <1>1, Answered
<1>3. ~Mapped(requests[i]) /\ ~Waits(r) /\ ~Mapped(r) /\ (Maps(r) => Maps(requests[i]))
  BY DEF Mapped, Waits, Maps
<1>4. QED
  BY <1>2, <1>3, AgreeKept DEF AgreeNow

LEMMA RefusedQuietly ==
  ASSUME IInv, AgreeNow, NEW i \in DOMAIN requests, Refuse(i), requests[i].stage # "answered",
         Gone(session, session'), UNCHANGED <<page, unheard>>
  PROVE  AgreeNow'
<1> DEFINE r == [requests[i] EXCEPT !.stage = "refused"]
<1>1. requests[i] \in Requests
  BY TheRequest
<1>2. r \in Requests /\ r.stage = "refused" /\ Same(r, requests[i], {"stage"})
  BY <1>1, Staged DEF Stages
<1>3. Answer(i, r)
  BY DEF Refuse
<1> HIDE DEF r
<1>4. QED
  BY <1>2, <1>3, QuietStep DEF Same

\* A request that answers with a preview of a session nobody is about.
LEMMA AgreeWaits ==
  ASSUME NEW ss, NEW p, NEW st, Agree(ss, p, st), NEW i \in DOMAIN ss, ~Mapped(ss[i]),
         NEW r, Waits(r), ~Maps(r), Right(r.preview, st), r.preview.session # p.session,
         \A j \in DOMAIN ss : Waits(ss[j]) => ss[j].preview.session # r.preview.session,
         \A j \in DOMAIN ss : Maps(ss[j]) => ss[j].session # r.preview.session
  PROVE  Agree([ss EXCEPT ![i] = r], p, st)
<1> DEFINE rs == [ss EXCEPT ![i] = r]
<1>1. DOMAIN rs = DOMAIN ss /\ rs[i] = r /\ \A k \in DOMAIN ss \ {i} : rs[k] = ss[k]
  OBVIOUS
<1> HIDE DEF rs
<1>2. OneEach(rs)
  <2> SUFFICES ASSUME NEW k \in DOMAIN ss, NEW l \in DOMAIN ss, Waits(rs[k]), Waits(rs[l]),
                      rs[k].preview.session = rs[l].preview.session
               PROVE  k = l
    BY <1>1, Zenon DEF OneEach
  <2>1. CASE k # i /\ l # i
    BY <1>1, <2>1, Zenon DEF Agree, OneEach
  <2>2. CASE k = i \/ l = i
    BY <1>1, <2>2
  <2>3. QED
    BY <2>1, <2>2
<1>3. WaitingRight(rs, p, st)
  <2> SUFFICES ASSUME NEW k \in DOMAIN ss, Waits(rs[k])
               PROVE  /\ Right(rs[k].preview, st) /\ rs[k].preview.session # p.session
                      /\ \A j \in DOMAIN ss : Maps(rs[j]) => rs[j].session # rs[k].preview.session
    BY <1>1, Zenon DEF WaitingRight
  <2>1. CASE k = i
    BY <1>1, <2>1
  <2>2. CASE k # i
    <3>1. rs[k] = ss[k]
      BY <1>1, <2>2
    <3>2. /\ Right(ss[k].preview, st) /\ ss[k].preview.session # p.session
          /\ \A j \in DOMAIN ss : Maps(ss[j]) => ss[j].session # ss[k].preview.session
      BY <3>1, Zenon DEF Agree, WaitingRight
    <3>3. QED
      BY <1>1, <3>1, <3>2
  <2>3. QED
    BY <2>1, <2>2
<1>4. \A k \in DOMAIN ss : Mapped(rs[k]) => k # i
  BY <1>1 DEF Mapped
<1>5. MappedRight(rs, st)
  BY <1>1, <1>4 DEF Agree, MappedRight
<1>6. ShownRight(rs, p, st)
  <2>1. ASSUME NEW j \in DOMAIN ss, Mapped(ss[j])
        PROVE  rs[j] = ss[j] /\ j \in DOMAIN rs
    BY <1>1, <2>1
  <2>2. QED
    BY <2>1, Zenon DEF Agree, ShownRight
<1>7. QED
  BY <1>2, <1>3, <1>5, <1>6, Zenon DEF Agree, rs

\* A session is created, and the preview that waits is the first one of it.
LEMMA CreateAgrees ==
  ASSUME ImportAssumption, IInv, AgreeNow, NEW i \in DOMAIN requests, CreateSession(i),
         requests[i].kind = "preview", requests[i].stage = "sent", UNCHANGED <<page, unheard>>
  PROVE  AgreeNow'
<1> DEFINE q == requests[i]
           s == [file |-> q.file, mapping |-> Detected[q.file]]
           p == PreviewOf(used + 1, s)
           r == [q EXCEPT !.stage = "answered", !.preview = p]
           r0 == [q EXCEPT !.stage = "refused"]
<1> SUFFICES ASSUME ~unheard
             PROVE  Agree(requests', page.preview, session')
  BY DEF AgreeNow
<1>1. q \in Requests /\ OfRequest(q, used) /\ used \in Nat /\ requests \in Seq(Requests)
  BY TheRequest
<1>2. s \in Open
  BY <1>1 DEF OfRequest, ImportAssumption, Open
<1>3. used < MaxSessions /\ session' = [session EXCEPT ![used + 1] = s] /\ Answer(i, r)
  BY DEF CreateSession
<1>4. /\ session'[used + 1] = s /\ p.session = used + 1 /\ p \in Previews
      /\ Gone(session, session')
  <2>1. used + 1 \in Sessions /\ used + 1 \in Nat
    BY <1>1, <1>3 DEF ImportAssumption, Sessions
  <2>2. session'[used + 1] = s
    BY <1>3, <2>1 DEF IInv, StoreSound
  <2>3. Gone(session, session')
    <3>1. \A id \in 1..used : id # used + 1
      BY <1>1
    <3>2. QED
      BY <1>3, <3>1 DEF Gone
  <2> HIDE DEF s
  <2>4. QED
    BY <1>2, <2>1, <2>2, <2>3, PreviewTyped
<1>5. Right(p, session')
  BY <1>4 DEF Right
<1> HIDE DEF p, s
<1>6. r \in Requests /\ r.stage = "answered" /\ r.preview = p /\ Same(r, q, {"stage", "preview"})
  BY <1>1, <1>4, Previewed DEF Stages
<1>7. r0 \in Requests /\ r0.stage = "refused" /\ Same(r0, q, {"stage"})
  BY <1>1, Staged DEF Stages
<1> HIDE DEF r, r0
<1>8. Agree(requests, page.preview, session) /\ ~Mapped(q) /\ ~Waits(r0) /\ ~Mapped(r0) /\ ~Maps(r0)
  BY <1>7 DEF AgreeNow, Mapped, Maps, Waits, Same
<1>9. CASE requests' = RemoveAt(requests, i)
  <2>1. Replaced(requests, requests', i, r0)
    BY <1>1, <1>7, <1>9, Replacing
  <2>2. QED
    BY <1>4, <1>8, <2>1, AgreeKept
<1>10. CASE requests' = [requests EXCEPT ![i] = r]
  <2> DEFINE rs == [requests EXCEPT ![i] = r0]
  <2>1. Replaced(requests, rs, i, r0)
    BY <1>1, <1>7, Replacing
  <2>2. Agree(rs, page.preview, session')
    BY <1>4, <1>8, <2>1, AgreeKept
  <2>3. /\ DOMAIN rs = DOMAIN requests /\ rs[i] = r0 /\ requests' = [rs EXCEPT ![i] = r]
        /\ \A j \in DOMAIN requests \ {i} : rs[j] = requests[j]
    <3>1. [rs EXCEPT ![i] = r] = [requests EXCEPT ![i] = r]
      OBVIOUS
    <3>2. QED
      BY <1>10, <3>1
  <2> HIDE DEF rs
  <2>4. page.preview.session # used + 1
    BY <1>1, ThePage
  <2>5. ASSUME NEW j \in DOMAIN requests, Waits(rs[j]) \/ Maps(rs[j])
        PROVE  /\ Waits(rs[j]) => rs[j].preview.session # used + 1
               /\ Maps(rs[j]) => rs[j].session # used + 1
    <3>1. rs[j] = requests[j]
      BY <1>8, <2>3, <2>5
    <3>2. requests[j].session <= used /\ requests[j].preview.session <= used
      BY TheRequest DEF OfRequest
    <3>3. requests[j].session \in Nat /\ requests[j].preview.session \in Nat
      BY TheRequest
    <3>4. QED
      BY <1>1, <3>1, <3>2, <3>3
  <2>6. Waits(r) /\ ~Maps(r) /\ ~Mapped(rs[i]) /\ r.preview.session = used + 1 /\ Right(r.preview, session')
    BY <1>4, <1>5, <1>6, <1>8, <2>3 DEF Waits, Maps, Same
  <2>7. Agree([rs EXCEPT ![i] = r], page.preview, session')
    BY <2>2, <2>3, <2>4, <2>5, <2>6, AgreeWaits
  <2>8. QED
    BY <2>3, <2>7
<1>11. QED
  BY <1>3, <1>9, <1>10 DEF Answer

\* The mapping is written: its answer, the only one, will show it.
LEMMA WriteAgrees ==
  ASSUME ImportAssumption, IInv, AgreeNow, NEW i \in DOMAIN requests, WriteMapping(i)
  PROVE  AgreeNow'
<1> DEFINE q == requests[i]
           s == [file |-> q.file, mapping |-> q.mapping]
           p == PreviewOf(q.session, s)
           r == [q EXCEPT !.stage = "answered", !.preview = p]
<1> SUFFICES ASSUME ~unheard'
             PROVE  Agree(requests', page.preview, session')
  BY DEF AgreeNow, WriteMapping, ServerOnly
<1>1. /\ q.kind = "mapping" /\ q.stage = "read" /\ session' = [session EXCEPT ![q.session] = s]
      /\ Answer(i, r) /\ q.heard /\ ~unheard
      /\ \A j \in DOMAIN requests : ~Mapped(requests[j])
  BY Zenon DEF WriteMapping, Mapped, Maps
<1>2. q \in Requests /\ OfRequest(q, used) /\ used \in Nat /\ requests \in Seq(Requests) /\ q.session \in 1..used
  BY <1>1, TheRequest, InRange
<1>3. s \in Open /\ q.session \in Nat
  BY <1>1, <1>2 DEF OfRequest, Open
<1>4. session'[q.session] = s
  <2>1. q.session \in Sessions
    BY <1>2 DEF Sessions, IInv, StoreSound
  <2>2. QED
    BY <1>1, <2>1 DEF IInv, StoreSound
<1>5. p.session = q.session /\ p \in Previews
  <2> HIDE DEF s
  <2>1. QED
    BY <1>3, PreviewTyped
<1>6. Right(p, session')
  BY <1>4, <1>5 DEF Right
<1> HIDE DEF p, s
<1>7. r \in Requests /\ r.stage = "answered" /\ r.preview = p /\ Same(r, q, {"stage", "preview"})
  BY <1>2, <1>5, Previewed DEF Stages
<1>8. requests' = [requests EXCEPT ![i] = r]
  <2>1. Same(r, q, {"stage", "preview"})
    BY <1>7
  <2>2. r.heard = q.heard
    BY <1>2 DEF Requests
  <2>3. QED
    BY <1>1, <2>2 DEF Answer
<1> HIDE DEF r
<1>9. Mapped(r) /\ Maps(q) /\ ~Waits(r) /\ ~Waits(q) /\ r.session = q.session
  BY <1>1, <1>7 DEF Mapped, Maps, Waits, Same
<1>10. /\ DOMAIN requests' = DOMAIN requests /\ requests'[i] = r
       /\ \A k \in DOMAIN requests \ {i} : requests'[k] = requests[k]
  BY <1>8
<1>11. Agree(requests, page.preview, session)
  BY <1>1 DEF AgreeNow
<1>12. \A k \in DOMAIN requests : Waits(requests'[k]) => k # i /\ requests'[k] = requests[k]
  BY <1>9, <1>10
<1>13. OneEach(requests')
  <2>1. OneEach(requests)
    BY <1>11 DEF Agree
  <2>2. QED
    BY <1>10, <1>12, <2>1, Zenon DEF OneEach
<1>14. WaitingRight(requests', page.preview, session')
  <2> SUFFICES ASSUME NEW k \in DOMAIN requests, Waits(requests[k]), requests'[k] = requests[k]
               PROVE  /\ Right(requests[k].preview, session')
                      /\ requests[k].preview.session # page.preview.session
                      /\ \A j \in DOMAIN requests : Maps(requests'[j]) => requests'[j].session # requests[k].preview.session
    BY <1>10, <1>12 DEF WaitingRight
  <2>1. /\ Right(requests[k].preview, session) /\ requests[k].preview.session # page.preview.session
        /\ \A j \in DOMAIN requests : Maps(requests[j]) => requests[j].session # requests[k].preview.session
    BY <1>11, Zenon DEF Agree, WaitingRight
  <2>2. requests[k].preview.session # q.session
    BY <1>9, <2>1
  <2>3. session'[requests[k].preview.session] = session[requests[k].preview.session]
    BY <1>1, <2>2
  <2>4. \A j \in DOMAIN requests : Maps(requests'[j]) => Maps(requests[j]) /\ requests'[j].session = requests[j].session
    BY <1>9, <1>10
  <2>5. QED
    BY <2>1, <2>3, <2>4 DEF Right
<1>15. MappedRight(requests', session')
  <2>1. \A k \in DOMAIN requests : Mapped(requests'[k]) => k = i
    BY <1>1, <1>10
  <2>2. QED
    BY <1>5, <1>6, <1>7, <1>9, <1>10, <2>1 DEF MappedRight
<1>16. ShownRight(requests', page.preview, session')
  BY <1>9, <1>10 DEF ShownRight
<1>17. QED
  BY <1>13, <1>14, <1>15, <1>16 DEF Agree

LEMMA CommitReadAgrees ==
  ASSUME IInv, AgreeNow, NEW i \in DOMAIN requests, ReadForCommit(i)
  PROVE  AgreeNow'
<1> DEFINE q == requests[i]
           s == session[q.session]
<1>1. /\ q.kind = "commit" /\ q.stage = "sent" /\ UNCHANGED <<page, unheard, session>>
      /\ Gone(session, session')
  BY SameGone DEF ReadForCommit, ServerOnly, serverVars
<1>2. CASE Refuse(i)
  BY <1>1, <1>2, RefusedQuietly
<1>3. CASE ~Refuse(i)
  <2>1. s # NoSession /\ Becomes(i, [q EXCEPT !.stage = "read", !.file = s.file, !.mapping = s.mapping])
    BY <1>3, Zenon DEF ReadForCommit
  <2>2. PICK f \in Files, m \in Mappings : f = s.file /\ m = s.mapping
    <3>1. q.session \in 1..used /\ used \in Nat /\ used <= MaxSessions
      BY <1>1, InRange, ImportAssumption DEF IInv, StoreSound, ImportAssumption
    <3>2. q.session \in Sessions
      BY <3>1, ImportAssumption DEF Sessions, ImportAssumption
    <3>3. QED
      BY <2>1, <3>2 DEF IInv, StoreSound, Open
  <2> DEFINE r == [q EXCEPT !.stage = "read", !.file = f, !.mapping = m]
  <2>3. Becomes(i, r)
    BY <2>1, <2>2
  <2>4. q \in Requests /\ "read" \in Stages
    BY TheRequest DEF Stages
  <2>5. r \in Requests /\ r.stage = "read" /\ Same(r, q, {"stage", "file", "mapping"})
    BY <2>4 DEF Requests, Same
  <2> HIDE DEF r
  <2>6. QED
    BY <1>1, <2>3, <2>5, QuietStep DEF Same
<1>4. QED
  BY <1>2, <1>3

\* The server goes on with a request, or refuses it.
LEMMA ServerAgrees ==
  ASSUME ImportAssumption, IInv, AgreeNow, NEW i \in DOMAIN requests,
         \/ StartImportPreview(i) \/ ReadGoogleSheetValues(i) \/ ListGoogleSheetTabs(i)
         \/ ReadForMapping(i) \/ WriteMapping(i)
         \/ ReadForCommit(i) \/ CheckBank(i) \/ CreateRow(i) \/ RecordImport(i) \/ DeleteImportSession(i)
         \/ Fail(i)
  PROVE  AgreeNow'
<1> DEFINE q == requests[i]
<1>1. q \in Requests /\ requests \in Seq(Requests)
  BY TheRequest
<1>2. CASE StartImportPreview(i) \/ ReadGoogleSheetValues(i)
  <2>1. /\ q.kind = "preview" /\ q.stage = "sent" /\ UNCHANGED <<page, unheard>>
        /\ CreateSession(i) \/ (Refuse(i) /\ UNCHANGED <<session, used>>)
    BY <1>2, Zenon DEF StartImportPreview, ReadGoogleSheetValues, ServerOnly
  <2>2. CASE CreateSession(i)
    BY <2>1, <2>2, CreateAgrees
  <2>3. CASE Refuse(i) /\ UNCHANGED <<session, used>>
    BY <2>1, <2>3, SameGone, RefusedQuietly
  <2>4. QED
    BY <2>1, <2>2, <2>3
<1>3. CASE ListGoogleSheetTabs(i)
  <2>1. q.kind = "tabs" /\ q.stage = "sent" /\ UNCHANGED <<page, unheard, session>> /\ Gone(session, session')
    BY <1>3, SameGone DEF ListGoogleSheetTabs, ServerOnly
  <2>2. CASE Refuse(i)
    BY <2>1, <2>2, RefusedQuietly
  <2>3. CASE Answer(i, [q EXCEPT !.stage = "answered"])
    <3> DEFINE r == [q EXCEPT !.stage = "answered"]
    <3>1. r \in Requests /\ r.stage = "answered" /\ Same(r, q, {"stage"})
      BY <1>1, Staged DEF Stages
    <3>2. Answer(i, r)
      BY <2>3
    <3> HIDE DEF r
    <3>3. QED
      BY <2>1, <3>1, <3>2, QuietStep DEF Same
  <2>4. QED
    BY <1>3, <2>2, <2>3, Zenon DEF ListGoogleSheetTabs
<1>4. CASE WriteMapping(i)
  BY <1>4, WriteAgrees
<1>5. CASE ReadForMapping(i)
  <2>1. /\ q.kind = "mapping" /\ q.stage = "sent" /\ UNCHANGED <<page, unheard, session>>
        /\ Gone(session, session')
    BY <1>5, SameGone DEF ReadForMapping, ServerOnly, serverVars
  <2>2. CASE Refuse(i)
    BY <2>1, <2>2, RefusedQuietly
  <2>3. CASE ~Refuse(i)
    <3> DEFINE f == session[q.session].file
               r == [q EXCEPT !.stage = "read", !.file = f]
    <3>1. session[q.session] # NoSession /\ Becomes(i, r)
      BY <1>5, <2>3, Zenon DEF ReadForMapping
    <3>2. f \in Files
      <4>1. q.session \in Sessions
        BY <2>1, InRange DEF Sessions, IInv, StoreSound
      <4>2. QED
        BY <3>1, <4>1 DEF IInv, StoreSound, Open
    <3> HIDE DEF f
    <3>3. r \in Requests /\ r.stage = "read" /\ Same(r, q, {"stage", "file"})
      BY <1>1, <3>2, FileRead DEF Stages
    <3> HIDE DEF r
    <3>4. QED
      BY <2>1, <3>1, <3>3, QuietStep DEF Same
  <2>4. QED
    BY <2>2, <2>3
<1>6. CASE ReadForCommit(i)
  BY <1>6, CommitReadAgrees
<1>7. CASE CheckBank(i)
  <2> DEFINE rows == RowsOf(q)
             old == InBankAlready(rows)
             new == Valid(rows) \ old
             t == KeysOf(rows, new)
             v == Cardinality(new)
             w == Cardinality(Wrong(rows) \union old)
             r == [q EXCEPT !.stage = "filling", !.todo = t, !.success = v, !.errors = w]
  <2>1. /\ q.kind = "commit" /\ q.stage = "read" /\ Becomes(i, r)
        /\ UNCHANGED <<page, unheard, session>> /\ Gone(session, session')
    BY <1>7, SameGone DEF CheckBank, CheckedRows, Filtered, ServerOnly, serverVars
  <2>2. rows \in Seq([key : Keys, fits : BOOLEAN])
    BY <2>1, TheRequest DEF OfRequest, ImportAssumption, RowsOf
  <2> HIDE DEF rows
  <2>3. t \in Seq(Keys) /\ v \in Nat /\ w \in Nat
    <3>1. old \in SUBSET Valid(rows)
      BY DEF InBankAlready
    <3> HIDE DEF old
    <3>2. new \in SUBSET Valid(rows) /\ v \in Nat /\ w \in Nat
      BY <2>2, <3>1, FiltersPart
    <3> HIDE DEF new, w
    <3>3. QED
      BY <2>2, <3>2, KeysOfRows, Zenon
  <2> HIDE DEF t, v, w
  <2>4. r \in Requests /\ r.stage = "filling" /\ Same(r, q, {"stage", "todo", "counts"})
    BY <1>1, <2>3 DEF Requests, Same, Stages
  <2> HIDE DEF r
  <2>5. QED
    BY <2>1, <2>4, QuietStep DEF Same
<1>8. CASE CreateRow(i)
  <2> DEFINE u == Tail(q.todo)
             r == [q EXCEPT !.todo = u, !.created = @ + 1]
  <2>1. /\ q.kind = "commit" /\ q.stage = "filling" /\ q.todo # << >> /\ Becomes(i, r)
        /\ UNCHANGED <<page, unheard, session>> /\ Gone(session, session')
    BY <1>8, SameGone, Zenon DEF CreateRow, Filling, ServerOnly
  <2>2. u \in Seq(Keys)
    <3>1. q.todo \in Seq(Keys)
      BY <1>1 DEF Requests
    <3>2. QED
      BY <2>1, <3>1, HeadTailProperties
  <2> HIDE DEF u
  <2>3. r \in Requests /\ Same(r, q, {"todo", "counts"})
    BY <1>1, <2>2, TodoDone
  <2> HIDE DEF r
  <2>4. QED
    BY <2>1, <2>3, QuietStep DEF Same
<1>9. CASE RecordImport(i)
  <2> DEFINE r == [q EXCEPT !.stage = "recorded"]
  <2>1. /\ q.kind = "commit" /\ q.stage = "filling" /\ Becomes(i, r)
        /\ UNCHANGED <<page, unheard, session>> /\ Gone(session, session')
    BY <1>9, SameGone, Zenon DEF RecordImport, Filling, ServerOnly
  <2>2. r \in Requests /\ r.stage = "recorded" /\ Same(r, q, {"stage"})
    BY <1>1, Staged DEF Stages
  <2> HIDE DEF r
  <2>3. QED
    BY <2>1, <2>2, QuietStep DEF Same
<1>10. CASE DeleteImportSession(i)
  <2> DEFINE r == [q EXCEPT !.stage = "answered"]
  <2>1. /\ q.kind = "commit" /\ q.stage = "recorded" /\ Answer(i, r) /\ UNCHANGED <<page, unheard>>
        /\ session' = [session EXCEPT ![q.session] = NoSession]
    BY <1>10, Zenon DEF DeleteImportSession, ServerOnly
  <2>2. Gone(session, session')
    <3>1. 1..used \in SUBSET DOMAIN session
      BY DEF IInv, StoreSound, Sessions
    <3>2. QED
      BY <2>1, <3>1 DEF Gone
  <2>3. r \in Requests /\ r.stage = "answered" /\ Same(r, q, {"stage"})
    BY <1>1, Staged DEF Stages
  <2> HIDE DEF r
  <2>4. QED
    BY <2>1, <2>2, <2>3, QuietStep DEF Same
<1>11. CASE Fail(i)
  <2>1. Refuse(i) /\ q.stage # "answered" /\ UNCHANGED <<page, unheard, session>> /\ Gone(session, session')
    BY <1>11, SameGone DEF Fail, ServerOnly, serverVars
  <2>2. QED
    BY <2>1, RefusedQuietly
<1>12. QED
  BY <1>2, <1>3, <1>4, <1>5, <1>6, <1>7, <1>8, <1>9, <1>10, <1>11

\* What is shown may be blank, and may be what an answer shows of its session.
LEMMA AgreeShows ==
  ASSUME IInv, NEW ss, NEW st, Agree(ss, NoPreview, st), NEW p, Right(p, st),
         \A k \in DOMAIN ss : Waits(ss[k]) => ss[k].preview.session # p.session
  PROVE  Agree(ss, p, st)
<1>1. OneEach(ss) /\ MappedRight(ss, st) /\ ShownRight(ss, p, st) /\ WaitingRight(ss, NoPreview, st)
  BY DEF Agree, ShownRight
<1>2. WaitingRight(ss, p, st)
  BY <1>1, Zenon DEF WaitingRight
<1>3. QED
  BY <1>1, <1>2 DEF Agree

LEMMA AgreeBlank ==
  ASSUME IInv, Agree(requests, page.preview, session)
  PROVE  Agree(requests, NoPreview, session)
<1>1. \A k \in DOMAIN requests : Waits(requests[k]) => requests[k].preview.session # NoPreview.session
  BY InRange DEF NoPreview
<1>2. WaitingRight(requests, NoPreview, session)
  BY <1>1, Zenon DEF Agree, WaitingRight
<1>3. QED
  BY <1>2 DEF Agree, ShownRight

\* An answer or a refusal reaches the page, or does not.
LEMMA ArrivalAgrees ==
  ASSUME ImportAssumption, IInv, AgreeNow, NEW i \in DOMAIN requests,
         AnswerArrives(i) \/ RefusalArrives(i) \/ LoseAnswer(i)
  PROVE  AgreeNow'
<1> DEFINE q == requests[i]
           r0 == [q EXCEPT !.stage = "refused"]
           r1 == [q EXCEPT !.heard = FALSE]
<1> SUFFICES ASSUME ~unheard'
             PROVE  Agree(requests', page'.preview, session)
  BY DEF AgreeNow, AnswerArrives, RefusalArrives, LoseAnswer, serverVars
<1>1. /\ q \in Requests /\ requests \in Seq(Requests) /\ OfRequest(q, used) /\ page \in Pages
      /\ q.kind \in {"preview", "tabs", "mapping", "commit"} /\ used \in Nat
  BY TheRequest, ThePage DEF Requests
<1>2. ~unheard
  BY Zenon DEF AnswerArrives, RefusalArrives, LoseAnswer
<1>3. Agree(requests, page.preview, session) /\ Agree(requests, NoPreview, session)
  BY <1>2, AgreeBlank DEF AgreeNow
<1>4. r0 \in Requests /\ r0.stage = "refused" /\ Same(r0, q, {"stage"})
  BY <1>1, Staged DEF Stages
<1>5. r1 \in Requests /\ Same(r1, q, {})
  BY <1>1, Unheard
<1> HIDE DEF r0, r1
<1>6. ~Waits(r0) /\ ~Mapped(r0) /\ (Maps(r0) => Maps(q) /\ r0.session = q.session)
  BY <1>4 DEF Waits, Mapped, Maps, Same
<1>7. Gone(session, session)
  BY SameGone
<1>8. NoLonger(q.kind).preview = page.preview /\ NoLonger(q.kind) \in Pages
  BY <1>1, NotBusy DEF SamePlace
<1>9. CASE RefusalArrives(i) \/ (LoseAnswer(i) /\ requests' = RemoveAt(requests, i))
  <2>1. ~Mapped(q) /\ requests' = RemoveAt(requests, i)
    BY <1>9 DEF RefusalArrives, LoseAnswer, Mapped, Maps
  <2>2. page'.preview = page.preview
    <3>1. CASE LoseAnswer(i)
      BY <1>8, <3>1 DEF LoseAnswer, Show
    <3>2. CASE RefusalArrives(i)
      <4> DEFINE p == NoLonger(q.kind)
      <4>1. page' = [p EXCEPT !.error = @ \/ q.kind \in {"preview", "commit"}]
        BY <3>2, Zenon DEF RefusalArrives, Show
      <4> HIDE DEF p
      <4>2. page'.preview = p.preview
        BY <1>8, <4>1 DEF Pages, p
      <4>3. QED
        BY <1>8, <4>2 DEF p
    <3>3. QED
      BY <1>9, <3>1, <3>2
  <2>3. Replaced(requests, requests', i, r0)
    BY <1>1, <1>4, <2>1, Replacing
  <2>4. Agree(requests', page.preview, session)
    BY <1>3, <1>6, <1>7, <2>1, <2>3, AgreeKept
  <2>5. QED
    BY <2>2, <2>4
<1>10. CASE LoseAnswer(i) /\ requests' # RemoveAt(requests, i)
  <2>1. requests' = [requests EXCEPT ![i] = r1] /\ q.stage # "answered" /\ page' = NoLonger(q.kind)
    BY <1>10 DEF LoseAnswer, r1, Show
  <2>2. ~Mapped(q) /\ ~Waits(r1) /\ ~Mapped(r1) /\ (Maps(r1) => Maps(q)) /\ r1.session = q.session
    BY <1>5, <2>1 DEF Waits, Mapped, Maps, Same
  <2>3. Replaced(requests, requests', i, r1)
    BY <1>1, <1>5, <2>1, Replacing
  <2>4. Agree(requests', page.preview, session)
    BY <1>3, <1>7, <2>2, <2>3, AgreeKept
  <2>5. QED
    BY <1>8, <2>1, <2>4
<1>11. CASE AnswerArrives(i)
  <2>1. page' = AfterAnswer(q) /\ q.stage = "answered" /\ requests' = RemoveAt(requests, i)
    BY <1>11, Zenon DEF AnswerArrives, Show
  <2>2. Replaced(requests, requests', i, r0)
    BY <1>1, <1>4, <2>1, Replacing
  <2>3. Agree(requests', NoPreview, session)
    BY <1>3, <1>6, <1>7, <2>2, AgreeKept
  <2>4. PICK g \in [DOMAIN requests' -> DOMAIN requests] :
          \A k \in DOMAIN requests' : requests'[k] = IF g[k] = i THEN r0 ELSE requests[g[k]]
    BY <2>2, Zenon DEF Replaced
  <2>5. \A k \in DOMAIN requests' : Waits(requests'[k]) => g[k] # i /\ requests'[k] = requests[g[k]]
    BY <1>6, <2>4
  <2>6. CASE q.kind = "preview"
    <3>1. page'.preview = q.preview
      <4>1. page' = Advance([page EXCEPT !.preview = q.preview, !.loading = FALSE], 3)
        BY <2>1, <2>6 DEF AfterAnswer
      <4>2. q.preview \in Previews
        BY TheRequest
      <4>3. QED
        BY <1>1, <4>1, <4>2 DEF Advance, Pages
    <3>2. Waits(q)
      BY <2>1, <2>6 DEF Waits
    <3>3. Right(q.preview, session)
      BY <1>3, <3>2, Zenon DEF Agree, WaitingRight
    <3>4. \A k \in DOMAIN requests' : Waits(requests'[k]) => requests'[k].preview.session # q.preview.session
      <4> SUFFICES ASSUME NEW k \in DOMAIN requests', Waits(requests'[k])
                   PROVE  requests'[k].preview.session # q.preview.session
        OBVIOUS
      <4>1. g[k] \in DOMAIN requests /\ g[k] # i /\ requests'[k] = requests[g[k]]
        BY <2>4, <2>5
      <4>2. QED
        BY <1>3, <3>2, <4>1, Zenon DEF Agree, OneEach
    <3>5. QED
      BY <2>3, <3>1, <3>3, <3>4, AgreeShows
  <2>7. CASE q.kind = "tabs"
    <3>1. page' = [page EXCEPT !.tabs = Tabs[q.from], !.loadingTabs = FALSE]
      BY <2>1, <2>7 DEF AfterAnswer
    <3>2. page'.preview = page.preview
      BY <1>1, <3>1 DEF Pages
    <3>3. ~Mapped(q)
      BY <2>7 DEF Mapped, Maps
    <3>4. Agree(requests', page.preview, session)
      BY <1>3, <1>6, <1>7, <2>2, <3>3, AgreeKept
    <3>5. QED
      BY <3>2, <3>4
  <2>8. CASE q.kind = "mapping"
    <3>1. page'.preview = q.preview
      <4>1. page' = [page EXCEPT !.preview = q.preview]
        BY <2>1, <2>8 DEF AfterAnswer
      <4>2. QED
        BY <1>1, <4>1 DEF Pages
    <3>2. Mapped(q) /\ Maps(q)
      BY <2>1, <2>8 DEF Mapped, Maps
    <3>3. Right(q.preview, session) /\ q.preview.session = q.session
      BY <1>3, <3>2, Zenon DEF Agree, MappedRight
    <3>4. \A k \in DOMAIN requests' : Waits(requests'[k]) => requests'[k].preview.session # q.preview.session
      <4> SUFFICES ASSUME NEW k \in DOMAIN requests', Waits(requests'[k])
                   PROVE  requests'[k].preview.session # q.session
        BY <3>3
      <4>1. g[k] \in DOMAIN requests /\ g[k] # i /\ requests'[k] = requests[g[k]]
        BY <2>4, <2>5
      <4>2. QED
        BY <1>3, <3>2, <4>1, Zenon DEF Agree, WaitingRight
    <3>5. QED
      BY <2>3, <3>1, <3>3, <3>4, AgreeShows
  <2>9. CASE q.kind = "commit"
    <3>1. page' = [page EXCEPT !.done = TRUE, !.preview = NoPreview, !.committing = FALSE]
      BY <2>1, <2>9 DEF AfterAnswer
    <3>2. page'.preview = NoPreview
      BY <1>1, <3>1 DEF Pages
    <3>3. QED
      BY <2>3, <3>2
  <2>10. QED
    BY <1>1, <2>6, <2>7, <2>8, <2>9
<1>12. QED
  BY <1>9, <1>10, <1>11

\* A request that is sent: a mapping, of a session whose preview does not wait.
LEMMA AgreeSent ==
  ASSUME NEW ss \in Seq(Requests), NEW p, NEW st, Agree(ss, p, st), NEW r \in Requests, r.stage = "sent",
         Maps(r) => \A i \in DOMAIN ss : Waits(ss[i]) => ss[i].preview.session # r.session
  PROVE  Agree(Append(ss, r), p, st)
<1> DEFINE rs == Append(ss, r)
           N == Len(ss) + 1
<1>1. /\ DOMAIN rs = 1..N /\ DOMAIN ss = 1..Len(ss) /\ Len(ss) \in Nat
      /\ rs[N] = r /\ \A k \in 1..Len(ss) : rs[k] = ss[k]
  BY AppendProperties, LenProperties
<1> HIDE DEF rs, N
<1>2. ~Waits(r) /\ ~Mapped(r)
  BY DEF Waits, Mapped
<1>3. \A k \in DOMAIN rs : (k \in DOMAIN ss /\ rs[k] = ss[k]) \/ rs[k] = r
  BY <1>1 DEF N
<1>4. \A k \in DOMAIN ss : k \in DOMAIN rs /\ rs[k] = ss[k]
  BY <1>1 DEF N
<1>5. \A k \in DOMAIN rs : Waits(rs[k]) \/ Mapped(rs[k]) => k \in DOMAIN ss /\ rs[k] = ss[k]
  BY <1>2, <1>3
<1>6. OneEach(ss) /\ WaitingRight(ss, p, st) /\ MappedRight(ss, st) /\ ShownRight(ss, p, st)
  BY DEF Agree
<1>7. OneEach(rs)
  BY <1>5, <1>6, Zenon DEF OneEach
<1>8. WaitingRight(rs, p, st)
  <2> SUFFICES ASSUME NEW k \in DOMAIN rs, Waits(rs[k])
               PROVE  /\ Right(rs[k].preview, st) /\ rs[k].preview.session # p.session
                      /\ \A j \in DOMAIN rs : Maps(rs[j]) => rs[j].session # rs[k].preview.session
    BY Zenon DEF WaitingRight
  <2>1. k \in DOMAIN ss /\ rs[k] = ss[k] /\ Waits(ss[k])
    BY <1>5
  <2>2. /\ Right(ss[k].preview, st) /\ ss[k].preview.session # p.session
        /\ \A j \in DOMAIN ss : Maps(ss[j]) => ss[j].session # ss[k].preview.session
    BY <1>6, <2>1, Zenon DEF WaitingRight
  <2>3. \A j \in DOMAIN rs : Maps(rs[j]) => rs[j].session # ss[k].preview.session
    BY <1>3, <2>1, <2>2
  <2>4. QED
    BY <2>1, <2>2, <2>3
<1>9. MappedRight(rs, st)
  BY <1>5, <1>6, Zenon DEF MappedRight
<1>10. ShownRight(rs, p, st)
  BY <1>4, <1>6, Zenon DEF ShownRight
<1>11. QED
  BY <1>7, <1>8, <1>9, <1>10 DEF Agree, rs

\* The wizard goes on without a new preview, and may send a request.
LEMMA WizardAgrees ==
  ASSUME IInv, AgreeNow, UNCHANGED <<session, unheard>>, page'.preview \in {page.preview, NoPreview},
         \/ requests' = requests
         \/ \E r \in Requests :
              /\ r.stage = "sent" /\ requests' = Append(requests, r)
              /\ Maps(r) => r.session = page.preview.session
  PROVE  AgreeNow'
<1> SUFFICES ASSUME ~unheard
             PROVE  Agree(requests', page'.preview, session)
  BY DEF AgreeNow
<1>1. Agree(requests, page.preview, session) /\ requests \in Seq(Requests)
  BY ThePage DEF AgreeNow, ListSound
<1>2. Agree(requests, page'.preview, session)
  BY <1>1, AgreeBlank
<1>3. CASE requests' = requests
  BY <1>2, <1>3
<1>4. ASSUME NEW r \in Requests, r.stage = "sent", requests' = Append(requests, r),
             Maps(r) => r.session = page.preview.session
      PROVE  Agree(requests', page'.preview, session)
  <2>1. \A i \in DOMAIN requests : Waits(requests[i]) => requests[i].preview.session # page.preview.session
    BY <1>1, Zenon DEF Agree, WaitingRight
  <2>2. QED
    BY <1>1, <1>2, <1>4, <2>1, AgreeSent
<1>5. QED
  BY <1>3, <1>4

\* The teacher does something.
LEMMA TeacherAgrees ==
  ASSUME ImportAssumption, IInv, AgreeNow,
         \/ StatusArrives
         \/ \E f \in Uploads : HandleFileChange(f) \/ HandleJsonSubmit(f)
         \/ \E f \in Files : SelectSheet(f)
         \/ ChooseGoogleSource \/ ConnectGoogle \/ HandleLoadGoogleSheet
         \/ \E x \in Spreadsheets : HandleSelectSpreadsheet(x)
         \/ \E m \in Mappings : HandleMappingChange(m)
         \/ HandleCommit \/ ResetWizard
         \/ \E step \in 1 .. 3 : GoToStep(step)
  PROVE  AgreeNow'
<1>1. page \in Pages /\ page.preview \in Previews /\ page.preview.session \in Nat
  BY ThePage
<1>2. Load(page) \in Pages /\ Load(page).preview = page.preview
  BY <1>1, PageLoads DEF SamePlace
<1>3. CASE StatusArrives
  <2>1. /\ UNCHANGED <<session, unheard, requests>>
        /\ page' = [page EXCEPT !.connected = IF token = "none" THEN "no" ELSE "yes"]
    BY <1>3, Zenon DEF StatusArrives, Show, serverVars
  <2>2. page'.preview = page.preview
    BY <1>1, <2>1 DEF Pages
  <2>3. QED
    BY <2>1, <2>2, WizardAgrees
<1>4. ASSUME NEW f \in Uploads, HandleFileChange(f) \/ HandleJsonSubmit(f)
      PROVE  AgreeNow'
  <2>1. PICK v \in {"file", "json"} :
          /\ page' = [Load(page) EXCEPT !.source = v] /\ UNCHANGED <<session, unheard>>
          /\ requests' = Append(requests, [NewRequest("preview") EXCEPT !.file = f])
    BY <1>4, Zenon DEF HandleFileChange, HandleJsonSubmit, Show, Send, Do, serverVars
  <2>2. page'.preview = page.preview
    BY <1>2, <2>1 DEF Pages
  <2>3. PICK q \in Requests : q = NewRequest("preview") /\ q.stage = "sent" /\ q.kind = "preview"
    BY NewRequests
  <2> DEFINE r == [q EXCEPT !.file = f]
  <2>4. r \in Requests /\ r.stage = "sent" /\ r.kind = "preview"
    BY <2>3, ImportAssumption DEF ImportAssumption, Requests
  <2>5. requests' = Append(requests, r) /\ ~Maps(r)
    BY <2>1, <2>3, <2>4 DEF Maps
  <2> HIDE DEF r
  <2>6. QED
    BY <2>1, <2>2, <2>4, <2>5, WizardAgrees
<1>5. ASSUME NEW f \in Files, SelectSheet(f)
      PROVE  AgreeNow'
  <2>1. page' = [page EXCEPT !.sheet = f] /\ UNCHANGED <<session, unheard, requests>>
    BY <1>5, Zenon DEF SelectSheet, Show, Do, serverVars
  <2>2. page'.preview = page.preview
    BY <1>1, <2>1 DEF Pages
  <2>3. QED
    BY <2>1, <2>2, WizardAgrees
<1>6. CASE ChooseGoogleSource
  <2>1. /\ page' = Advance([page EXCEPT !.source = "google"], 2)
        /\ UNCHANGED <<session, unheard, requests>>
    BY <1>6, Zenon DEF ChooseGoogleSource, Show, Do, serverVars
  <2>2. page'.preview = page.preview
    BY <1>1, <2>1 DEF Advance, Pages
  <2>3. QED
    BY <2>1, <2>2, WizardAgrees
<1>7. CASE ConnectGoogle
  <2>1. unheard' \/ (requests = << >> /\ ~unheard)
    BY <1>7, Zenon DEF ConnectGoogle
  <2>2. CASE unheard'
    BY <2>2 DEF AgreeNow
  <2>3. CASE requests = << >> /\ ~unheard
    <3>1. requests' = [i \in DOMAIN requests |-> [requests[i] EXCEPT !.heard = FALSE]]
      BY <1>7, Zenon DEF ConnectGoogle
    <3>2. DOMAIN requests' = {}
      BY <2>3, <3>1
    <3>3. page' = NewPage /\ page'.preview = NoPreview
      BY <1>7 DEF ConnectGoogle, Show, NewPage
    <3>4. QED
      BY <3>2, <3>3 DEF AgreeNow, Agree, OneEach, WaitingRight, MappedRight, ShownRight
  <2>4. QED
    BY <2>1, <2>2, <2>3
<1>8. CASE HandleLoadGoogleSheet
  <2>1. /\ page' = Load(page) /\ UNCHANGED <<session, unheard>>
        /\ requests' = Append(requests, [NewRequest("preview") EXCEPT !.file = page.sheet, !.from = page.spreadsheet])
    BY <1>8, Zenon DEF HandleLoadGoogleSheet, Show, Send, Do, serverVars
  <2>2. PICK q \in Requests : q = NewRequest("preview") /\ q.stage = "sent" /\ q.kind = "preview"
    BY NewRequests
  <2>3. PICK f \in Files \union {None}, x \in Spreadsheets \union {None} : f = page.sheet /\ x = page.spreadsheet
    BY <1>1 DEF Pages
  <2> DEFINE r == [q EXCEPT !.file = f, !.from = x]
  <2>4. r \in Requests /\ r.stage = "sent" /\ r.kind = "preview"
    BY <2>2, <2>3 DEF Requests
  <2>5. requests' = Append(requests, r) /\ ~Maps(r)
    BY <2>1, <2>2, <2>3, <2>4 DEF Maps
  <2> HIDE DEF r
  <2>6. QED
    BY <1>2, <2>1, <2>4, <2>5, WizardAgrees
<1>9. ASSUME NEW x \in Spreadsheets, HandleSelectSpreadsheet(x)
      PROVE  AgreeNow'
  <2>1. /\ page' = [page EXCEPT !.spreadsheet = x, !.sheet = None, !.tabs = {}, !.loadingTabs = TRUE]
        /\ requests' = Append(requests, [NewRequest("tabs") EXCEPT !.from = x]) /\ UNCHANGED <<session, unheard>>
    BY <1>9, Zenon DEF HandleSelectSpreadsheet, Show, Send, Do, serverVars
  <2>2. page'.preview = page.preview
    BY <1>1, <2>1 DEF Pages
  <2>3. PICK q \in Requests : q = NewRequest("tabs") /\ q.stage = "sent" /\ q.kind = "tabs"
    BY NewRequests
  <2> DEFINE r == [q EXCEPT !.from = x]
  <2>4. r \in Requests /\ r.stage = "sent" /\ r.kind = "tabs"
    BY <2>3 DEF Requests
  <2>5. requests' = Append(requests, r) /\ ~Maps(r)
    BY <2>1, <2>3, <2>4 DEF Maps
  <2> HIDE DEF r
  <2>6. QED
    BY <2>1, <2>2, <2>4, <2>5, WizardAgrees
<1>10. ASSUME NEW m \in Mappings, HandleMappingChange(m)
       PROVE  AgreeNow'
  <2>1. /\ page' = page /\ UNCHANGED <<session, unheard>>
        /\ requests' = Append(requests, [NewRequest("mapping") EXCEPT !.session = page.preview.session, !.mapping = m])
    BY <1>10, Zenon DEF HandleMappingChange, Send, Do, serverVars
  <2>2. PICK q \in Requests : q = NewRequest("mapping") /\ q.stage = "sent"
    BY NewRequests
  <2>3. PICK s \in Nat : s = page.preview.session
    BY <1>1
  <2> DEFINE r == [q EXCEPT !.session = s, !.mapping = m]
  <2>4. r \in Requests /\ r.stage = "sent" /\ r.session = s
    BY <2>2 DEF Requests
  <2>5. requests' = Append(requests, r)
    BY <2>1, <2>2, <2>3, <2>4
  <2> HIDE DEF r
  <2>6. QED
    BY <2>1, <2>3, <2>4, <2>5, WizardAgrees
<1>11. CASE HandleCommit
  <2>1. /\ page' = [page EXCEPT !.committing = TRUE] /\ UNCHANGED <<session, unheard>>
        /\ requests' = Append(requests, [NewRequest("commit") EXCEPT !.session = page.preview.session])
    BY <1>11, Zenon DEF HandleCommit, Show, Send, Do, serverVars
  <2>2. page'.preview = page.preview
    BY <1>1, <2>1 DEF Pages
  <2>3. PICK q \in Requests : q = NewRequest("commit") /\ q.stage = "sent"
    BY NewRequests
  <2>4. PICK s \in Nat : s = page.preview.session
    BY <1>1
  <2> DEFINE r == [q EXCEPT !.session = s]
  <2>5. r \in Requests /\ r.stage = "sent" /\ r.session = s
    BY <2>3 DEF Requests
  <2>6. requests' = Append(requests, r)
    BY <2>1, <2>3, <2>4, <2>5
  <2> HIDE DEF r
  <2>7. QED
    BY <2>1, <2>2, <2>4, <2>5, <2>6, WizardAgrees
<1>12. CASE ResetWizard
  <2>1. /\ UNCHANGED <<session, unheard, requests>>
        /\ page' = [NewPage EXCEPT !.loading = page.loading, !.committing = page.committing,
                                   !.connected = page.connected, !.loadingTabs = page.loadingTabs]
    BY <1>12, Zenon DEF ResetWizard, Show, Do, serverVars
  <2>2. page'.preview = NoPreview
    BY <2>1 DEF NewPage
  <2>3. QED
    BY <2>1, <2>2, WizardAgrees
<1>13. ASSUME NEW step \in 1 .. 3, GoToStep(step)
       PROVE  AgreeNow'
  <2>1. page' = [page EXCEPT !.step = step] /\ UNCHANGED <<session, unheard, requests>>
    BY <1>13, Zenon DEF GoToStep, Show, Do, serverVars
  <2>2. page'.preview = page.preview
    BY <1>1, <2>1 DEF Pages
  <2>3. QED
    BY <2>1, <2>2, WizardAgrees
<1>14. QED
  BY <1>3, <1>4, <1>5, <1>6, <1>7, <1>8, <1>9, <1>10, <1>11, <1>12, <1>13

\* A session or the token expires.
LEMMA ExpiryAgrees ==
  ASSUME IInv, AgreeNow, TokenExpires \/ \E id \in Sessions : SessionExpires(id)
  PROVE  AgreeNow'
<1>1. /\ UNCHANGED <<requests, page, unheard>>
      /\ session' = session \/ \E id \in Sessions : session' = [session EXCEPT ![id] = NoSession]
  BY Zenon DEF TokenExpires, SessionExpires, ServerOnly
<1>2. Gone(session, session')
  <2>1. DOMAIN session = Sessions /\ used \in 0..MaxSessions
    BY DEF IInv, StoreSound
  <2>2. 1..used \in SUBSET Sessions
    BY <2>1, ImportAssumption DEF Sessions, ImportAssumption
  <2>3. QED
    BY <1>1, <2>1, <2>2 DEF Gone
<1> SUFFICES ASSUME Agree(requests, page.preview, session)
             PROVE  Agree(requests, page.preview, session')
  BY <1>1 DEF AgreeNow
<1>3. \A p : p.session \in 1..used /\ Right(p, session) => Right(p, session')
  BY <1>2, StillRight
<1>4. WaitingRight(requests, page.preview, session')
  BY <1>3, InRange DEF Agree, WaitingRight
<1>5. MappedRight(requests, session')
  BY <1>3, InRange DEF Agree, MappedRight
<1>6. ShownRight(requests, page.preview, session')
  BY <1>3, InRange DEF Agree, ShownRight
<1>7. QED
  BY <1>4, <1>5, <1>6 DEF Agree

\* A preview that rests on the page is what a commit would import: nobody asks for
\* another mapping, so the session has the mapping of the preview, or is gone. An
\* answer about a mapping that was lost, or that another one has overtaken, is the
\* only way to see a preview that is not the session's.
THEOREM PreviewsAreRight == Spec => []PreviewIsSession
<1>1. Init => AgreeNow
  <2> SUFFICES ASSUME Init
               PROVE  Agree(requests, page.preview, session)
    BY DEF AgreeNow
  <2>1. DOMAIN requests = {} /\ page.preview = NoPreview
    BY DEF Init, NewPage
  <2>2. QED
    BY <2>1 DEF Agree, OneEach, WaitingRight, MappedRight, ShownRight
<1>2. IInv /\ AgreeNow /\ [Next]_vars => AgreeNow'
  <2> SUFFICES ASSUME IInv, AgreeNow, [Next]_vars
               PROVE  AgreeNow'
    OBVIOUS
  <2>1. CASE UNCHANGED vars
    BY <2>1, Zenon DEF vars, serverVars, AgreeNow
  <2>2. ASSUME NEW i \in DOMAIN requests, Handle(i) \/ Fail(i) \/ LoseAnswer(i)
        PROVE  AgreeNow'
    BY <2>2, ImportAssumption, ServerAgrees, ArrivalAgrees DEF Handle
  <2>3. CASE TokenExpires \/ \E id \in Sessions : SessionExpires(id)
    BY <2>3, ExpiryAgrees
  <2>4. CASE \/ StatusArrives
             \/ \E f \in Uploads : HandleFileChange(f) \/ HandleJsonSubmit(f)
             \/ \E f \in Files : SelectSheet(f)
             \/ ChooseGoogleSource \/ ConnectGoogle \/ HandleLoadGoogleSheet
             \/ \E x \in Spreadsheets : HandleSelectSpreadsheet(x)
             \/ \E m \in Mappings : HandleMappingChange(m)
             \/ HandleCommit \/ ResetWizard
             \/ \E step \in 1 .. 3 : GoToStep(step)
    BY <2>4, ImportAssumption, TeacherAgrees
  <2>5. QED
    BY <2>1, <2>2, <2>3, <2>4, Zenon DEF Next
<1>3. AgreeNow => PreviewIsSession
  BY DEF AgreeNow, Agree, ShownRight, Right, Mapped, Maps, PreviewIsSession
<1>4. QED
  BY <1>1, <1>2, <1>3, Inductive, PTL DEF Spec
=============================================================================
