-------------------------- MODULE ToolReplayProofs --------------------------
(***************************************************************************)
(* Proofs about ToolReplay, for every set of ids, texts, files and clients *)
(* and every limit of the table: the table stays consistent and within its *)
(* bounds, and what is replayed is what the model sampled.                 *)
(***************************************************************************)
EXTENDS ToolReplay, FiniteSetTheorems, SequenceTheorems, TLAPS

-----------------------------------------------------------------------------
(* Lists of ids. *)

\* Unlinking takes exactly the given id out of a list that holds it once.
LEMMA WithoutFacts ==
  ASSUME NEW s \in Seq(Ids), IsInjective(s), NEW id
  PROVE  /\ Without(s, id) \in Seq(Ids) /\ IsInjective(Without(s, id))
         /\ ToSet(Without(s, id)) = ToSet(s) \ {id}
         /\ id \in ToSet(s) => Len(Without(s, id)) = Len(s) - 1
<1> DEFINE w == Without(s, id)
<1>1. CASE \A k \in 1..Len(s) : s[k] # id
  <2>1. w = s
    BY <1>1 DEF Without, RemoveFirst
  <2>2. id \notin ToSet(s)
    BY <1>1 DEF ToSet
  <2> QED
    BY <2>1, <2>2
<1>2. CASE \E k \in 1..Len(s) : s[k] = id
  <2> DEFINE P == {k \in 1..Len(s) : s[k] = id}
  <2>1. PICK k \in 1..Len(s) : s[k] = id
    BY <1>2
  <2>2. P = {k}
    BY <2>1 DEF IsInjective
  <2>3. Min(P) = k
    BY <2>1, <2>2 DEF Min
  <2>4. w = SubSeq(s, 1, k - 1) \o SubSeq(s, k + 1, Len(s))
    BY <2>2, <2>3, <1>2 DEF Without, RemoveFirst, RemoveAt, SelectInSeq
  <2> HIDE DEF P
  <2>5. /\ SubSeq(s, 1, k - 1) \in Seq(Ids) /\ Len(SubSeq(s, 1, k - 1)) = k - 1
        /\ \A j \in 1..(k - 1) : SubSeq(s, 1, k - 1)[j] = s[j]
    OBVIOUS
  <2>6. /\ SubSeq(s, k + 1, Len(s)) \in Seq(Ids) /\ Len(SubSeq(s, k + 1, Len(s))) = Len(s) - k
        /\ \A j \in 1..(Len(s) - k) : SubSeq(s, k + 1, Len(s))[j] = s[j + k]
    OBVIOUS
  <2>7. /\ w \in Seq(Ids) /\ Len(w) = Len(s) - 1
        /\ \A j \in 1..(k - 1) : w[j] = s[j]
        /\ \A j \in k..(Len(s) - 1) : w[j] = s[j + 1]
    <3> DEFINE a == SubSeq(s, 1, k - 1)
               b == SubSeq(s, k + 1, Len(s))
    <3>1. w = a \o b /\ a \in Seq(Ids) /\ b \in Seq(Ids) /\ Len(a) = k - 1 /\ Len(b) = Len(s) - k
      BY <2>4, <2>5, <2>6
    <3>2. \A j \in 1..(k - 1) : a[j] = s[j]
      BY <2>5
    <3>3. \A j \in 1..(Len(s) - k) : b[j] = s[j + k]
      BY <2>6
    <3> HIDE DEF a, b, w
    <3>4. w \in Seq(Ids) /\ Len(w) = Len(s) - 1
      BY <3>1
    <3>5. \A j \in 1..(k - 1) : w[j] = a[j]
      BY <3>1
    <3>6. \A j \in k..(Len(s) - 1) : w[j] = b[j - (k - 1)] /\ j - (k - 1) \in 1..(Len(s) - k)
      BY <3>1
    <3>7. \A j \in k..(Len(s) - 1) : (j - (k - 1)) + k = j + 1
      OBVIOUS
    <3> QED
      BY <3>2, <3>3, <3>4, <3>5, <3>6, <3>7
  <2> DEFINE at(j) == IF j < k THEN j ELSE j + 1
  <2>8. \A j \in 1..(Len(s) - 1) : w[j] = s[at(j)] /\ at(j) \in 1..Len(s) /\ at(j) # k
    BY <2>7
  <2> HIDE DEF w
  <2>9. DOMAIN w = 1..(Len(s) - 1) /\ DOMAIN s = 1..Len(s)
    BY <2>7
  <2>10. IsInjective(w)
    <3> SUFFICES ASSUME NEW i \in DOMAIN w, NEW j \in DOMAIN w, w[i] = w[j] PROVE i = j
      BY DEF IsInjective
    <3>1. at(i) = at(j)
      BY <2>8, <2>9 DEF IsInjective
    <3> QED
      BY <3>1, <2>9
  <2>11. ToSet(w) = ToSet(s) \ {id}
    <3>1. ASSUME NEW x \in ToSet(w) PROVE x \in ToSet(s) \ {id}
      <4>1. PICK j \in 1..(Len(s) - 1) : x = w[j]
        BY <2>9 DEF ToSet
      <4>2. x = s[at(j)] /\ at(j) \in 1..Len(s) /\ at(j) # k
        BY <4>1, <2>8
      <4> HIDE DEF at
      <4>3. x # id
        BY <4>2, <2>1, <2>9 DEF IsInjective
      <4> QED
        BY <4>2, <4>3, <2>9 DEF ToSet
    <3>2. ASSUME NEW x \in ToSet(s), x # id PROVE x \in ToSet(w)
      <4>1. PICK j \in 1..Len(s) : x = s[j]
        BY <2>9 DEF ToSet
      <4>2. j # k
        BY <4>1, <3>2, <2>1
      <4>3. CASE j < k
        <5>1. w[j] = x /\ j \in 1..(Len(s) - 1)
          BY <4>3, <4>1, <2>7
        <5> QED
          BY <5>1, <2>9 DEF ToSet
      <4>4. CASE j > k
        <5>1. w[j - 1] = x /\ j - 1 \in 1..(Len(s) - 1)
          BY <4>4, <4>1, <2>7
        <5> QED
          BY <5>1, <2>9 DEF ToSet
      <4> QED
        BY <4>2, <4>3, <4>4
    <3> QED
      BY <3>1, <3>2
  <2> QED
    BY <2>7, <2>10, <2>11 DEF w
<1> QED
  BY <1>1, <1>2

\* A new head of a list.
LEMMA ConsFacts ==
  ASSUME NEW s \in Seq(Ids), IsInjective(s), NEW id \in Ids, id \notin ToSet(s)
  PROVE  /\ <<id>> \o s \in Seq(Ids) /\ IsInjective(<<id>> \o s)
         /\ ToSet(<<id>> \o s) = ToSet(s) \cup {id}
<1> DEFINE w == <<id>> \o s
<1>1. w \in Seq(Ids) /\ Len(w) = Len(s) + 1 /\ w[1] = id /\ \A k \in 1..Len(s) : w[k + 1] = s[k]
  OBVIOUS
<1>2. DOMAIN w = 1..(Len(s) + 1) /\ DOMAIN s = 1..Len(s)
  OBVIOUS
<1> HIDE DEF w
<1>3. \A k \in 2..(Len(s) + 1) : w[k] = s[k - 1] /\ k - 1 \in 1..Len(s)
  <2> TAKE k \in 2..(Len(s) + 1)
  <2>1. k - 1 \in 1..Len(s) /\ (k - 1) + 1 = k
    OBVIOUS
  <2> QED
    BY <2>1, <1>1
<1>4. \A k \in 1..Len(s) : s[k] # id
  BY <1>2 DEF ToSet
<1>5. IsInjective(w)
  <2> SUFFICES ASSUME NEW i \in 1..(Len(s) + 1), NEW j \in 1..(Len(s) + 1), w[i] = w[j] PROVE i = j
    BY <1>2 DEF IsInjective
  <2>1. CASE i = 1 \/ j = 1
    BY <2>1, <1>1, <1>3, <1>4
  <2>2. CASE i # 1 /\ j # 1
    <3>1. s[i - 1] = s[j - 1] /\ i - 1 \in DOMAIN s /\ j - 1 \in DOMAIN s
      BY <2>2, <1>2, <1>3
    <3>2. i - 1 = j - 1
      BY <3>1 DEF IsInjective
    <3> QED
      BY <3>2
  <2> QED
    BY <2>1, <2>2
<1>6. ToSet(w) = ToSet(s) \cup {id}
  <2>1. ASSUME NEW x \in ToSet(w) PROVE x \in ToSet(s) \cup {id}
    <3>1. PICK k \in 1..(Len(s) + 1) : x = w[k]
      BY <1>2 DEF ToSet
    <3>2. k = 1 => x = id
      BY <3>1, <1>1
    <3>3. k # 1 => x = s[k - 1] /\ k - 1 \in DOMAIN s
      BY <3>1, <1>2, <1>3
    <3> QED
      BY <3>2, <3>3 DEF ToSet
  <2>2. id \in ToSet(w)
    BY <1>1, <1>2 DEF ToSet
  <2>3. ASSUME NEW x \in ToSet(s) PROVE x \in ToSet(w)
    <3>1. PICK k \in 1..Len(s) : x = s[k]
      BY <1>2 DEF ToSet
    <3>2. x = w[k + 1] /\ k + 1 \in DOMAIN w
      BY <3>1, <1>1, <1>2
    <3> QED
      BY <3>2 DEF ToSet
  <2> QED
    BY <2>1, <2>2, <2>3
<1> QED
  BY <1>1, <1>5, <1>6 DEF w

-----------------------------------------------------------------------------
(* The operations of the table. *)

Table ==
  [ limit   : Limits,
    lru     : Seq(Ids),
    blockOf : [Ids -> Blocks \cup {NoBlock}],
    source  : [Ids -> {"ram", "disk"}],
    blocks  : SUBSET Blocks,
    refs    : [Blocks -> Nat],
    chain   : [Blocks -> Seq(Ids)],
    entries : Nat,
    bytes   : Nat ]

\* What every operation under tool_mu keeps, also between the steps of a put.
TableInv(m) == m \in Table /\ Consistent(m)

LEMMA SizeFacts ==
  /\ EntryBytes \in Nat /\ BlockBytes \in Nat
  /\ \A n \in Nat : EntryBytes * n \in Nat /\ BlockBytes * n \in Nat
  /\ \A n \in Nat : EntryBytes * (n + 1) = EntryBytes * n + EntryBytes
  /\ \A n \in Nat : BlockBytes * (n + 1) = BlockBytes * n + BlockBytes
  /\ EntryBytes * 0 = 0 /\ BlockBytes * 0 = 0
<1>1. EntryBytes \in Nat /\ BlockBytes \in Nat
  BY TableAssumption
<1>2. \A a, n \in Nat : a * n \in Nat /\ a * (n + 1) = a * n + a /\ a * 0 = 0
  OBVIOUS
<1> QED
  BY <1>1, <1>2

\* The sets of entries are finite.
LEMMA EntriesFacts ==
  ASSUME NEW m \in Table
  PROVE  /\ IsFiniteSet(Entries(m)) /\ Cardinality(Entries(m)) \in Nat
         /\ IsFiniteSet(m.blocks) /\ Cardinality(m.blocks) \in Nat
         /\ \A b \in Blocks : /\ IsFiniteSet(EntriesOf(m, b))
                              /\ Cardinality(EntriesOf(m, b)) \in Nat
<1>1. IsFiniteSet(Ids) /\ IsFiniteSet(Blocks)
  BY TableAssumption
<1>2. Entries(m) \subseteq Ids /\ m.blocks \subseteq Blocks
  BY DEF Entries, Table
<1>3. \A b \in Blocks : EntriesOf(m, b) \subseteq Ids
  BY DEF EntriesOf
<1> QED
  BY <1>1, <1>2, <1>3, FS_Subset, FS_CardinalityType

\* Removing one element, adding one.
LEMMA Counting ==
  ASSUME NEW S, IsFiniteSet(S), NEW x
  PROVE  /\ x \in S => Cardinality(S \ {x}) = Cardinality(S) - 1 /\ Cardinality(S) > 0
         /\ x \notin S => Cardinality(S \cup {x}) = Cardinality(S) + 1
         /\ Cardinality(S) = 0 <=> S = {}
<1>1. Cardinality(S) \in Nat /\ (Cardinality(S) = 0 <=> S = {})
  BY FS_CardinalityType, FS_EmptySet
<1>2. x \in S => Cardinality(S \ {x}) = Cardinality(S) - 1
  BY FS_RemoveElement
<1>3. x \notin S => Cardinality(S \cup {x}) = Cardinality(S) + 1
  BY FS_AddElement
<1> QED
  BY <1>1, <1>2, <1>3

LEMMA EmptyTable_TableInv ==
  ASSUME NEW limit \in Limits
  PROVE  TableInv(EmptyTable(limit)) /\ Bounded(EmptyTable(limit))
<1> DEFINE m == EmptyTable(limit)
<1>1. m \in Table
  BY DEF EmptyTable, Table
<1>2. Entries(m) = {} /\ \A b \in Blocks : EntriesOf(m, b) = {}
  BY TableAssumption DEF EmptyTable, Entries, EntriesOf, Known
<1>3. ToSet(<<>>) = {} /\ IsInjective(<<>>)
  BY DEF ToSet, IsInjective
<1>4. Consistent(m)
  <2>1. /\ m.lru = <<>> /\ m.blocks = {} /\ m.entries = 0 /\ m.bytes = 0
        /\ \A b \in Blocks : m.refs[b] = 0 /\ m.chain[b] = <<>>
    BY DEF EmptyTable
  <2>2. Cardinality({}) = 0
    BY FS_EmptySet
  <2>3. m.bytes = EntryBytes * m.entries + BlockBytes * Cardinality(m.blocks)
    BY <2>1, <2>2, SizeFacts
  <2> HIDE DEF m
  <2>4. \A b \in Blocks : (b \in m.blocks) = (m.refs[b] > 0)
    BY <2>1
  <2> QED
    BY <1>2, <1>3, <2>1, <2>2, <2>3, <2>4 DEF Consistent
<1>5. Bounded(m)
  BY TableAssumption DEF EmptyTable, Bounded, OverBounds
<1> QED
  BY <1>1, <1>4, <1>5 DEF TableInv

\* A touched entry moves, nothing else changes.
LEMMA Touch_TableInv ==
  ASSUME NEW m, TableInv(m), NEW id \in Ids, Known(m, id)
  PROVE  TableInv(Touch(m, id)) /\ (Bounded(m) => Bounded(Touch(m, id)))
<1> DEFINE t == Touch(m, id)
<1>1. m \in Table /\ Consistent(m)
  BY DEF TableInv
<1>2. /\ m.lru \in Seq(Ids) /\ IsInjective(m.lru) /\ ToSet(m.lru) = Entries(m)
      /\ id \in ToSet(m.lru)
  BY <1>1 DEF Table, Consistent, Entries
<1>3. /\ Without(m.lru, id) \in Seq(Ids) /\ IsInjective(Without(m.lru, id))
      /\ ToSet(Without(m.lru, id)) = Entries(m) \ {id}
  BY <1>2, WithoutFacts
<1>4. t.lru = <<id>> \o Without(m.lru, id) /\ t = [m EXCEPT !.lru = t.lru]
  BY <1>1 DEF Touch, Table
<1>5. t.lru \in Seq(Ids) /\ IsInjective(t.lru) /\ ToSet(t.lru) = Entries(m)
  <2>1. id \notin ToSet(Without(m.lru, id))
    BY <1>3
  <2>2. /\ t.lru \in Seq(Ids) /\ IsInjective(t.lru)
        /\ ToSet(t.lru) = ToSet(Without(m.lru, id)) \cup {id}
    BY <1>3, <1>4, <2>1, ConsFacts
  <2> HIDE DEF t
  <2> QED
    BY <1>2, <1>3, <2>2
<1> HIDE DEF t
<1>6. t \in Table
  BY <1>1, <1>4, <1>5 DEF Table
<1>7. /\ t.limit = m.limit /\ t.blockOf = m.blockOf /\ t.blocks = m.blocks /\ t.refs = m.refs
      /\ t.chain = m.chain /\ t.entries = m.entries /\ t.bytes = m.bytes
  BY <1>1, <1>4 DEF Table
<1>8. Entries(t) = Entries(m) /\ \A b \in Blocks : EntriesOf(t, b) = EntriesOf(m, b)
  BY <1>7 DEF Entries, EntriesOf, Known
<1>9. Consistent(t)
  BY <1>1, <1>5, <1>7, <1>8 DEF Consistent
<1>10. Bounded(m) => Bounded(t)
  BY <1>7 DEF Bounded, OverBounds
<1> QED
  BY <1>6, <1>9, <1>10 DEF TableInv, t

\* The fields of a table that has lost the entry of id, whose text is b.
LEMMA RemovedFields ==
  ASSUME NEW m \in Table, NEW id \in Ids, NEW b \in Blocks, b = m.blockOf[id],
         Without(m.lru, id) \in Seq(Ids), Without(m.chain[b], id) \in Seq(Ids)
  PROVE  LET r == RemoveEntry(m, id)
             last == ~ m.refs[b] > 1
             fewer == Less(m.bytes, EntryBytes)
         IN  /\ r \in Table /\ r.limit = m.limit /\ r.source = m.source
             /\ r.lru = Without(m.lru, id)
             /\ r.blockOf = [m.blockOf EXCEPT ![id] = NoBlock]
             /\ r.blocks = IF last THEN m.blocks \ {b} ELSE m.blocks
             /\ r.refs = [m.refs EXCEPT ![b] = IF last THEN 0 ELSE m.refs[b] - 1]
             /\ r.chain = [m.chain EXCEPT ![b] = Without(m.chain[b], id)]
             /\ r.entries = Less(m.entries, 1)
             /\ r.bytes = IF last THEN Less(fewer, BlockBytes) ELSE fewer
<1> DEFINE fewer == Less(m.bytes, EntryBytes)
           t == [m EXCEPT !.lru        = Without(@, id),
                          !.blockOf[id] = NoBlock,
                          !.chain[b]   = Without(@, id),
                          !.bytes      = Less(@, EntryBytes),
                          !.entries    = Less(@, 1)]
<1>1. fewer \in Nat /\ Less(fewer, BlockBytes) \in Nat /\ Less(m.entries, 1) \in Nat
  <2>1. m.bytes \in Nat /\ m.entries \in Nat /\ EntryBytes \in Nat /\ BlockBytes \in Nat
    BY SizeFacts DEF Table
  <2> QED
    BY <2>1 DEF Less
<1>2. RemoveEntry(m, id) = ReleaseBlock(t, b)
  BY DEF RemoveEntry
<1>3. t \in Table
  <2> HIDE DEF fewer
  <2>1. fewer = Less(m.bytes, EntryBytes)
    BY DEF fewer
  <2> QED
    BY <1>1, <2>1 DEF Table
<1>4. /\ t.limit = m.limit /\ t.source = m.source /\ t.blocks = m.blocks /\ t.refs = m.refs
      /\ t.lru = Without(m.lru, id) /\ t.blockOf = [m.blockOf EXCEPT ![id] = NoBlock]
      /\ t.chain = [m.chain EXCEPT ![b] = Without(m.chain[b], id)]
      /\ t.entries = Less(m.entries, 1) /\ t.bytes = fewer
  BY DEF Table
<1> HIDE DEF t, fewer
<1>5. CASE m.refs[b] > 1
  <2> DEFINE r == [t EXCEPT !.refs[b] = @ - 1]
  <2>1. ReleaseBlock(t, b) = r
    BY <1>4, <1>5 DEF ReleaseBlock
  <2>2. t.refs[b] - 1 \in Nat
    BY <1>3, <1>4, <1>5 DEF Table
  <2>3. r \in Table
    BY <1>3, <2>2 DEF Table
  <2>4. /\ r.limit = t.limit /\ r.source = t.source /\ r.blocks = t.blocks
        /\ r.refs = [t.refs EXCEPT ![b] = t.refs[b] - 1]
        /\ r.lru = t.lru /\ r.blockOf = t.blockOf /\ r.chain = t.chain
        /\ r.entries = t.entries /\ r.bytes = t.bytes
    BY <1>3 DEF Table
  <2> HIDE DEF r
  <2> QED
    BY <1>2, <1>4, <1>5, <2>1, <2>3, <2>4 DEF fewer
<1>6. CASE ~ m.refs[b] > 1
  <2> DEFINE r == [t EXCEPT !.refs[b] = 0, !.blocks = @ \ {b}, !.bytes = Less(@, BlockBytes)]
  <2>1. ReleaseBlock(t, b) = r
    BY <1>4, <1>6 DEF ReleaseBlock
  <2>2. Less(t.bytes, BlockBytes) \in Nat
    BY <1>1, <1>4
  <2>3. r \in Table
    BY <1>3, <2>2 DEF Table
  <2>4. /\ r.limit = t.limit /\ r.source = t.source /\ r.blocks = t.blocks \ {b}
        /\ r.refs = [t.refs EXCEPT ![b] = 0]
        /\ r.lru = t.lru /\ r.blockOf = t.blockOf /\ r.chain = t.chain
        /\ r.entries = t.entries /\ r.bytes = Less(t.bytes, BlockBytes)
    BY <1>3 DEF Table
  <2> HIDE DEF r
  <2> QED
    BY <1>2, <1>4, <1>6, <2>1, <2>3, <2>4 DEF fewer
<1> QED
  BY <1>5, <1>6

\* Removing an entry that is there frees its block with the last reference and
\* leaves no trace of it in any list or counter.
LEMMA Remove_TableInv ==
  ASSUME NEW m, TableInv(m), NEW id \in Ids, Known(m, id)
  PROVE  LET r == RemoveEntry(m, id)
         IN  /\ TableInv(r) /\ r.limit = m.limit /\ ~Known(r, id)
             /\ Entries(r) = Entries(m) \ {id}
             /\ r.blockOf = [m.blockOf EXCEPT ![id] = NoBlock]
             /\ Len(r.lru) = Len(m.lru) - 1
             /\ Bounded(m) => Bounded(r)
<1> DEFINE r == RemoveEntry(m, id)
           b == m.blockOf[id]
           last == ~ m.refs[b] > 1
<1>1. m \in Table /\ Consistent(m)
  BY DEF TableInv
<1>2. b \in Blocks
  BY <1>1 DEF Known, Table
<1>3. /\ m.lru \in Seq(Ids) /\ IsInjective(m.lru) /\ ToSet(m.lru) = Entries(m)
       /\ \A c \in Blocks : /\ m.chain[c] \in Seq(Ids) /\ IsInjective(m.chain[c])
                             /\ ToSet(m.chain[c]) = EntriesOf(m, c)
  BY <1>1 DEF Table, Consistent
<1>4. /\ r \in Table /\ r.limit = m.limit /\ r.source = m.source
      /\ r.lru = Without(m.lru, id)
      /\ r.blockOf = [m.blockOf EXCEPT ![id] = NoBlock]
      /\ r.blocks = IF last THEN m.blocks \ {b} ELSE m.blocks
      /\ r.refs = [m.refs EXCEPT ![b] = IF last THEN 0 ELSE m.refs[b] - 1]
      /\ r.chain = [m.chain EXCEPT ![b] = Without(m.chain[b], id)]
      /\ r.entries = Less(m.entries, 1)
      /\ r.bytes = IF last THEN Less(Less(m.bytes, EntryBytes), BlockBytes)
                   ELSE Less(m.bytes, EntryBytes)
  <2>1. m.chain[b] \in Seq(Ids) /\ IsInjective(m.chain[b])
    BY <1>2, <1>3
  <2>2. Without(m.lru, id) \in Seq(Ids) /\ Without(m.chain[b], id) \in Seq(Ids)
    BY <1>3, <2>1, WithoutFacts
  <2> QED
    BY <1>1, <1>2, <2>2, RemovedFields
<1> HIDE DEF r
<1>5. id \in Entries(m) /\ id \in EntriesOf(m, b)
  BY DEF Entries, EntriesOf
<1>6. Entries(r) = Entries(m) \ {id}
  BY <1>1, <1>4 DEF Entries, Known, Table
<1>7. /\ EntriesOf(r, b) = EntriesOf(m, b) \ {id}
      /\ \A c \in Blocks : c # b => EntriesOf(r, c) = EntriesOf(m, c)
  BY <1>1, <1>2, <1>4, TableAssumption DEF EntriesOf, Table
<1>8. /\ Cardinality(Entries(r)) = Cardinality(Entries(m)) - 1 /\ Cardinality(Entries(m)) > 0
      /\ Cardinality(Entries(m)) \in Nat
  BY <1>1, <1>5, <1>6, EntriesFacts, Counting
<1>9. /\ Cardinality(EntriesOf(r, b)) = Cardinality(EntriesOf(m, b)) - 1
      /\ Cardinality(EntriesOf(m, b)) > 0 /\ Cardinality(EntriesOf(m, b)) \in Nat
  <2>1. IsFiniteSet(EntriesOf(m, b)) /\ Cardinality(EntriesOf(m, b)) \in Nat
    BY <1>1, <1>2, EntriesFacts
  <2> QED
    BY <1>5, <1>7, <2>1, Counting
<1>10. /\ m.refs[b] = Cardinality(EntriesOf(m, b)) /\ b \in m.blocks
      /\ m.entries = Cardinality(Entries(m))
      /\ m.bytes = EntryBytes * m.entries + BlockBytes * Cardinality(m.blocks)
  BY <1>1, <1>2, <1>9 DEF Consistent
<1>11. /\ r.lru \in Seq(Ids) /\ IsInjective(r.lru) /\ ToSet(r.lru) = Entries(r)
       /\ Len(r.lru) = Len(m.lru) - 1
  <2>1. id \in ToSet(m.lru)
    BY <1>5, <1>3
  <2>2. /\ Without(m.lru, id) \in Seq(Ids) /\ IsInjective(Without(m.lru, id))
        /\ ToSet(Without(m.lru, id)) = ToSet(m.lru) \ {id}
        /\ Len(Without(m.lru, id)) = Len(m.lru) - 1
    BY <1>3, <2>1, WithoutFacts
  <2> QED
    BY <1>4, <1>6, <1>3, <2>2
<1>12. ASSUME NEW c \in Blocks
       PROVE  /\ r.chain[c] \in Seq(Ids) /\ IsInjective(r.chain[c])
              /\ ToSet(r.chain[c]) = EntriesOf(r, c)
  <2>1. CASE c = b
    <3>1. r.chain[c] = Without(m.chain[b], id)
      BY <1>1, <1>4, <2>1 DEF Table
    <3>2. m.chain[b] \in Seq(Ids) /\ IsInjective(m.chain[b]) /\ ToSet(m.chain[b]) = EntriesOf(m, b)
      BY <1>2, <1>3
    <3>3. /\ Without(m.chain[b], id) \in Seq(Ids) /\ IsInjective(Without(m.chain[b], id))
          /\ ToSet(Without(m.chain[b], id)) = EntriesOf(m, b) \ {id}
      BY <3>2, WithoutFacts
    <3> QED
      BY <1>7, <2>1, <3>1, <3>3
  <2>2. CASE c # b
    <3>1. r.chain[c] = m.chain[c]
      BY <1>1, <1>4, <2>2 DEF Table
    <3> QED
      BY <1>7, <1>3, <2>2, <3>1
  <2> QED
    BY <2>1, <2>2
<1>13. ASSUME NEW c \in Blocks
       PROVE  r.refs[c] = Cardinality(EntriesOf(r, c)) /\ (c \in r.blocks) = (r.refs[c] > 0)
  <2>1. CASE c = b
    <3>1. r.refs[c] = IF last THEN 0 ELSE m.refs[b] - 1
      BY <1>1, <1>4, <2>1 DEF Table
    <3>2. (c \in r.blocks) = (~last)
      BY <1>4, <1>10, <2>1
    <3>3. last <=> m.refs[b] = 1
      BY <1>9, <1>10
    <3> QED
      BY <1>9, <1>10, <2>1, <3>1, <3>2, <3>3
  <2>2. CASE c # b
    <3>1. r.refs[c] = m.refs[c] /\ (c \in r.blocks <=> c \in m.blocks)
      BY <1>1, <1>4, <2>2 DEF Table
    <3>2. m.refs[c] = Cardinality(EntriesOf(m, c)) /\ (c \in m.blocks <=> m.refs[c] > 0)
      BY <1>1 DEF Consistent
    <3> QED
      BY <1>7, <2>2, <3>1, <3>2
  <2> QED
    BY <2>1, <2>2
<1>14. r.entries = Cardinality(Entries(r)) /\ r.entries \in Nat /\ r.entries = m.entries - 1
  BY <1>4, <1>8, <1>10 DEF Less
<1>15. r.bytes = EntryBytes * r.entries + BlockBytes * Cardinality(r.blocks) /\ r.bytes \in Nat
       /\ r.bytes <= m.bytes
  <2>1. /\ EntryBytes * m.entries = EntryBytes * r.entries + EntryBytes
        /\ EntryBytes * r.entries \in Nat /\ EntryBytes \in Nat
    <3>1. m.entries = r.entries + 1
      BY <1>8, <1>10, <1>14
    <3> QED
      BY <1>14, <3>1, SizeFacts
  <2>2. Cardinality(m.blocks) \in Nat /\ IsFiniteSet(m.blocks) /\ m.bytes \in Nat
    BY <1>1, EntriesFacts DEF Table
  <2>3. CASE last
    <3>1. r.blocks = m.blocks \ {b} /\ r.bytes = Less(Less(m.bytes, EntryBytes), BlockBytes)
      BY <1>4, <2>3
    <3>2. Cardinality(m.blocks) = Cardinality(r.blocks) + 1 /\ Cardinality(r.blocks) \in Nat
      BY <1>10, <2>2, <3>1, Counting, FS_CardinalityType, FS_RemoveElement
    <3>3. /\ BlockBytes * Cardinality(m.blocks) = BlockBytes * Cardinality(r.blocks) + BlockBytes
          /\ BlockBytes * Cardinality(r.blocks) \in Nat /\ BlockBytes \in Nat
      BY <3>2, SizeFacts
    <3> DEFINE e == EntryBytes * r.entries
               f == BlockBytes * Cardinality(r.blocks)
    <3>4. e \in Nat /\ f \in Nat /\ m.bytes = (e + EntryBytes) + (f + BlockBytes)
      BY <1>10, <2>1, <3>3
    <3> HIDE DEF e, f
    <3>5. r.bytes = e + f
      BY <2>1, <3>1, <3>3, <3>4 DEF Less
    <3> QED
      BY <2>1, <3>3, <3>4, <3>5 DEF e, f
  <2>4. CASE ~last
    <3>1. r.blocks = m.blocks /\ r.bytes = Less(m.bytes, EntryBytes)
      BY <1>4, <2>4
    <3> DEFINE e == EntryBytes * r.entries
               f == BlockBytes * Cardinality(r.blocks)
    <3>2. e \in Nat /\ f \in Nat /\ m.bytes = (e + EntryBytes) + f
      BY <1>10, <2>1, <2>2, <3>1, SizeFacts
    <3> HIDE DEF e, f
    <3>3. r.bytes = e + f
      BY <2>1, <3>1, <3>2 DEF Less
    <3> QED
      BY <2>1, <3>2, <3>3 DEF e, f
  <2> QED
    BY <2>3, <2>4
<1>16. Consistent(r)
  BY <1>11, <1>12, <1>13, <1>14, <1>15 DEF Consistent
<1>17. r.limit = m.limit /\ ~Known(r, id) /\ r.blockOf = [m.blockOf EXCEPT ![id] = NoBlock]
  BY <1>1, <1>4 DEF Known, Table
<1>18. Bounded(m) => Bounded(r)
  <2>1. /\ m.limit.entries \in Nat /\ m.limit.bytes \in Nat /\ m.entries \in Nat /\ m.bytes \in Nat
    BY <1>1, TableAssumption DEF Table
  <2> QED
    BY <1>14, <1>15, <1>17, <2>1 DEF Bounded, OverBounds
<1> QED
  BY <1>4, <1>6, <1>11, <1>16, <1>17, <1>18 DEF TableInv, r

\* An entry for an id that has none shares the block of its text.
LEMMA NewEntry_TableInv ==
  ASSUME NEW m, TableInv(m), NEW id \in Ids, ~Known(m, id), NEW b \in Blocks,
         NEW src \in {"ram", "disk"}
  PROVE  LET r == NewEntry(m, id, b, src)
         IN  /\ TableInv(r) /\ r.limit = m.limit
             /\ r.blockOf = [m.blockOf EXCEPT ![id] = b]
<1> DEFINE t == GetBlock(m, b)
           r == NewEntry(m, id, b, src)
           known == b \in m.blocks
<1>1. m \in Table /\ Consistent(m) /\ BlockBytes \in Nat /\ EntryBytes \in Nat
  BY SizeFacts DEF TableInv
<1>2. /\ t \in Table /\ t.limit = m.limit /\ t.lru = m.lru /\ t.blockOf = m.blockOf
      /\ t.source = m.source /\ t.refs = m.refs /\ t.chain = m.chain /\ t.entries = m.entries
      /\ t.blocks = m.blocks \cup {b} /\ t.bytes = IF known THEN m.bytes ELSE m.bytes + BlockBytes
  <2>1. CASE known
    <3>1. t = m /\ m.blocks = m.blocks \cup {b}
      BY <2>1 DEF GetBlock
    <3> HIDE DEF t
    <3> QED
      BY <1>1, <2>1, <3>1
  <2>2. CASE ~known
    <3>1. t = [m EXCEPT !.blocks = @ \cup {b}, !.bytes = @ + BlockBytes]
      BY <2>2 DEF GetBlock
    <3>2. m.bytes + BlockBytes \in Nat
      BY <1>1 DEF Table
    <3> HIDE DEF t
    <3>3. t \in Table
      BY <1>1, <3>1, <3>2 DEF Table
    <3> QED
      BY <1>1, <2>2, <3>1, <3>3 DEF Table
  <2> QED
    BY <2>1, <2>2
<1> HIDE DEF t
<1>3. /\ m.lru \in Seq(Ids) /\ IsInjective(m.lru) /\ ToSet(m.lru) = Entries(m)
      /\ \A c \in Blocks : /\ m.chain[c] \in Seq(Ids) /\ IsInjective(m.chain[c])
                            /\ ToSet(m.chain[c]) = EntriesOf(m, c)
  BY <1>1 DEF Table, Consistent
<1>4. id \notin Entries(m) /\ id \notin EntriesOf(m, b)
  BY TableAssumption DEF Entries, EntriesOf, Known
<1>5. /\ <<id>> \o m.lru \in Seq(Ids) /\ IsInjective(<<id>> \o m.lru)
      /\ ToSet(<<id>> \o m.lru) = Entries(m) \cup {id}
  BY <1>3, <1>4, ConsFacts
<1>6. /\ <<id>> \o m.chain[b] \in Seq(Ids) /\ IsInjective(<<id>> \o m.chain[b])
      /\ ToSet(<<id>> \o m.chain[b]) = EntriesOf(m, b) \cup {id}
  <2>1. m.chain[b] \in Seq(Ids) /\ IsInjective(m.chain[b]) /\ id \notin ToSet(m.chain[b])
    BY <1>3, <1>4
  <2> QED
    BY <1>3, <2>1, ConsFacts
<1>7. r = [t EXCEPT !.lru = <<id>> \o @, !.blockOf[id] = b, !.source[id] = src,
                    !.chain[b] = <<id>> \o @, !.refs[b] = @ + 1, !.entries = @ + 1,
                    !.bytes = @ + EntryBytes]
  BY DEF NewEntry, t
<1> HIDE DEF r
<1>8. t.entries + 1 \in Nat /\ t.bytes + EntryBytes \in Nat /\ t.refs[b] + 1 \in Nat
  BY <1>1, <1>2 DEF Table
<1>9. r \in Table
  <2>1. <<id>> \o t.lru \in Seq(Ids) /\ <<id>> \o t.chain[b] \in Seq(Ids)
    BY <1>2, <1>5, <1>6
  <2> QED
    BY <1>2, <1>7, <1>8, <2>1 DEF Table
<1>10. /\ r.limit = m.limit /\ r.lru = <<id>> \o m.lru /\ r.blockOf = [m.blockOf EXCEPT ![id] = b]
       /\ r.blocks = m.blocks \cup {b} /\ r.refs = [m.refs EXCEPT ![b] = m.refs[b] + 1]
       /\ r.chain = [m.chain EXCEPT ![b] = <<id>> \o m.chain[b]]
       /\ r.entries = m.entries + 1
       /\ r.bytes = (IF known THEN m.bytes ELSE m.bytes + BlockBytes) + EntryBytes
  <2>1. /\ r.limit = t.limit /\ r.lru = <<id>> \o t.lru /\ r.blockOf = [t.blockOf EXCEPT ![id] = b]
        /\ r.blocks = t.blocks /\ r.refs = [t.refs EXCEPT ![b] = t.refs[b] + 1]
        /\ r.chain = [t.chain EXCEPT ![b] = <<id>> \o t.chain[b]]
        /\ r.entries = t.entries + 1 /\ r.bytes = t.bytes + EntryBytes
    BY <1>2, <1>7 DEF Table
  <2> QED
    BY <1>2, <2>1
<1>11. Entries(r) = Entries(m) \cup {id}
  BY <1>1, <1>10, TableAssumption DEF Entries, Known, Table
<1>12. /\ EntriesOf(r, b) = EntriesOf(m, b) \cup {id}
       /\ \A c \in Blocks : c # b => EntriesOf(r, c) = EntriesOf(m, c)
  <2>1. \A i \in Ids : r.blockOf[i] = IF i = id THEN b ELSE m.blockOf[i]
    BY <1>1, <1>10 DEF Table
  <2>2. m.blockOf[id] = NoBlock /\ \A c \in Blocks : c # NoBlock
    BY TableAssumption DEF Known
  <2> QED
    BY <2>1, <2>2 DEF EntriesOf
<1>13. /\ Cardinality(Entries(r)) = Cardinality(Entries(m)) + 1
       /\ Cardinality(EntriesOf(r, b)) = Cardinality(EntriesOf(m, b)) + 1
  <2>1. IsFiniteSet(Entries(m)) /\ IsFiniteSet(EntriesOf(m, b))
    BY <1>1, EntriesFacts
  <2> QED
    BY <1>4, <1>11, <1>12, <2>1, Counting
<1>14. /\ m.refs[b] = Cardinality(EntriesOf(m, b)) /\ m.refs[b] \in Nat
       /\ (known <=> m.refs[b] > 0) /\ m.entries = Cardinality(Entries(m)) /\ m.entries \in Nat
       /\ m.bytes = EntryBytes * m.entries + BlockBytes * Cardinality(m.blocks)
  BY <1>1 DEF Consistent, Table
<1>15. ASSUME NEW c \in Blocks
       PROVE  /\ IsInjective(r.chain[c]) /\ ToSet(r.chain[c]) = EntriesOf(r, c)
              /\ r.refs[c] = Cardinality(EntriesOf(r, c)) /\ (c \in r.blocks) = (r.refs[c] > 0)
  <2>1. CASE c = b
    <3>1. r.chain[c] = <<id>> \o m.chain[b] /\ r.refs[c] = m.refs[b] + 1 /\ c \in r.blocks
      BY <1>1, <1>10, <2>1 DEF Table
    <3>2. (c \in r.blocks) = (r.refs[c] > 0)
      BY <1>14, <3>1
    <3> QED
      BY <1>6, <1>12, <1>13, <1>14, <2>1, <3>1, <3>2
  <2>2. CASE c # b
    <3>1. r.chain[c] = m.chain[c] /\ r.refs[c] = m.refs[c] /\ (c \in r.blocks <=> c \in m.blocks)
      BY <1>1, <1>10, <2>2 DEF Table
    <3>2. m.refs[c] = Cardinality(EntriesOf(m, c)) /\ (c \in m.blocks <=> m.refs[c] > 0)
      BY <1>1 DEF Consistent
    <3> QED
      BY <1>3, <1>12, <2>2, <3>1, <3>2
  <2> QED
    BY <2>1, <2>2
<1>16. r.bytes = EntryBytes * r.entries + BlockBytes * Cardinality(r.blocks)
  <2> DEFINE k == Cardinality(m.blocks)
             e == EntryBytes * m.entries
             f == BlockBytes * k
  <2>1. k \in Nat /\ IsFiniteSet(m.blocks)
    BY <1>1, EntriesFacts
  <2>2. e \in Nat /\ EntryBytes * r.entries = e + EntryBytes
    BY <1>10, <1>14, SizeFacts
  <2>3. f \in Nat /\ BlockBytes * (k + 1) = f + BlockBytes
    BY <2>1, SizeFacts
  <2>4. Cardinality(r.blocks) = IF known THEN k ELSE k + 1
    <3>1. known => r.blocks = m.blocks
      BY <1>10
    <3>2. ~known => Cardinality(r.blocks) = k + 1
      <4>1. ~known => Cardinality(m.blocks \cup {b}) = k + 1
        BY <2>1, Counting
      <4> QED
        BY <1>10, <4>1
    <3> QED
      BY <3>1, <3>2
  <2>5. BlockBytes * Cardinality(r.blocks) = IF known THEN f ELSE f + BlockBytes
    BY <2>3, <2>4
  <2>6. m.bytes = e + f
    BY <1>14
  <2> HIDE DEF e, f, k
  <2> QED
    BY <1>1, <1>10, <2>2, <2>3, <2>5, <2>6
<1>17. Consistent(r)
  <2>1. IsInjective(r.lru) /\ ToSet(r.lru) = Entries(r)
    BY <1>5, <1>10, <1>11
  <2>2. r.entries = Cardinality(Entries(r))
    BY <1>10, <1>13, <1>14
  <2> QED
    BY <1>15, <1>16, <2>1, <2>2 DEF Consistent
<1> QED
  BY <1>9, <1>10, <1>17 DEF TableInv, r

-----------------------------------------------------------------------------
(* The loops over the table. *)

\* One round of tool_memory_prune_locked(), and what has been reached when the
\* rounds of the set T of positions of the list are over: each has removed an
\* entry, or there was nothing to remove any more.
PruneRound(p, x, t) == IF OverBounds(t) /\ t.lru # <<>> THEN RemoveEntry(t, Last(t.lru)) ELSE t

Pruned(p, T, t) ==
  /\ TableInv(t) /\ t.limit = p.limit
  /\ \A i \in Ids : t.blockOf[i] \in {NoBlock, p.blockOf[i]}
  /\ Bounded(t) \/ Len(t.lru) + Cardinality(T) = Len(p.lru)

PruneLoop == INSTANCE Iteration WITH Op <- PruneRound, Pick <- Max, Holds <- Pruned

LEMMA MaxOf ==
  ASSUME NEW n \in Nat, NEW T \in SUBSET (1..n), T # {}
  PROVE  Max(T) \in T
<1>1. T \in SUBSET (0..n)
  OBVIOUS
<1>2. \E x \in T : \A y \in T : y <= x
  BY <1>1, PruneLoop!Greatest
<1>3. \E x \in T : \A y \in T : x >= y
  BY <1>2
<1> QED
  BY <1>3 DEF Max

\* The positions of a sequence, as the set a loop goes through.
LEMMA Positions ==
  ASSUME NEW C, NEW s \in Seq(C)
  PROVE  /\ DOMAIN s = 1..Len(s) /\ IsFiniteSet(DOMAIN s) /\ Cardinality(DOMAIN s) = Len(s)
         /\ \A T \in SUBSET (DOMAIN s) : T # {} => Max(T) \in T
<1>1. DOMAIN s = 1..Len(s) /\ Len(s) \in Nat
  OBVIOUS
<1>2. IsFiniteSet(1..Len(s)) /\ Cardinality(1..Len(s)) = Len(s)
  <2>1. IsFiniteSet(1..Len(s)) /\ Cardinality(1..Len(s)) = IF 1 > Len(s) THEN 0 ELSE Len(s) - 1 + 1
    BY <1>1, FS_Interval
  <2> QED
    BY <1>1, <2>1
<1> QED
  BY <1>1, <1>2, MaxOf

\* Nothing is left to count when the list is empty.
LEMMA EmptyBounded ==
  ASSUME NEW m, TableInv(m), m.lru = <<>>
  PROVE  Bounded(m)
<1>1. m \in Table /\ Consistent(m)
  BY DEF TableInv
<1>2. Entries(m) = {}
  BY <1>1 DEF Consistent, ToSet
<1>3. \A b \in Blocks : EntriesOf(m, b) = {}
  BY <1>2, TableAssumption DEF Entries, EntriesOf, Known
<1>4. m.blocks = {}
  <2>1. \A b \in Blocks : m.refs[b] = 0
    BY <1>1, <1>3, FS_EmptySet DEF Consistent
  <2>2. \A b \in Blocks : b \in m.blocks <=> m.refs[b] > 0
    BY <1>1 DEF Consistent
  <2> QED
    BY <1>1, <2>1, <2>2 DEF Table
<1>5. m.entries = 0 /\ m.bytes = 0
  <2>1. Cardinality({}) = 0
    BY FS_EmptySet
  <2>2. m.entries = 0 /\ Cardinality(m.blocks) = 0
    BY <1>1, <1>2, <1>4, <2>1 DEF Consistent
  <2>3. m.bytes = EntryBytes * 0 + BlockBytes * 0
    BY <1>1, <2>2 DEF Consistent
  <2> QED
    BY <2>2, <2>3, SizeFacts
<1>6. m.limit.entries \in Nat /\ m.limit.bytes \in Nat
  BY <1>1, TableAssumption DEF Table
<1> QED
  BY <1>5, <1>6 DEF Bounded, OverBounds

\* The loop ends within the bounds: it may run once for each entry, and a table
\* without entries is never over them.
LEMMA Prune_TableInv ==
  ASSUME NEW m, TableInv(m)
  PROVE  /\ TableInv(Prune(m)) /\ Bounded(Prune(m)) /\ Prune(m).limit = m.limit
         /\ \A i \in Ids : Prune(m).blockOf[i] \in {NoBlock, m.blockOf[i]}
<1> DEFINE S == DOMAIN m.lru
<1>1. m \in Table /\ m.lru \in Seq(Ids)
  BY DEF TableInv, Table
<1>2. /\ IsFiniteSet(S) /\ Cardinality(S) = Len(m.lru)
      /\ \A T \in SUBSET S : T # {} => Max(T) \in T
  BY <1>1, Positions
<1>3. Pruned(m, {}, m)
  <2>1. Len(m.lru) \in Nat /\ Cardinality({}) = 0
    BY <1>1, FS_EmptySet
  <2> QED
    BY <2>1 DEF Pruned
<1>4. ASSUME NEW T \in SUBSET S, NEW t, T # {}, Pruned(m, T \ {Max(T)}, t)
      PROVE  Pruned(m, T, PruneRound(m, Max(T), t))
  <2>1. /\ Cardinality(T) \in Nat /\ Cardinality(T \ {Max(T)}) = Cardinality(T) - 1
    BY <1>2, <1>4, FS_Subset, FS_RemoveElement, FS_CardinalityType
  <2>2. TableInv(t) /\ t \in Table /\ t.lru \in Seq(Ids) /\ Len(t.lru) \in Nat
    BY <1>4 DEF Pruned, TableInv, Table
  <2>3. CASE OverBounds(t) /\ t.lru # <<>>
    <3> DEFINE id == Last(t.lru)
               r == RemoveEntry(t, id)
    <3>1. id \in ToSet(t.lru)
      BY <2>2, <2>3 DEF Last, ToSet
    <3>2. id \in Ids /\ Known(t, id)
      BY <2>2, <3>1 DEF TableInv, Consistent, Entries
    <3>3. /\ TableInv(r) /\ r.limit = t.limit /\ Len(r.lru) = Len(t.lru) - 1
          /\ r.blockOf = [t.blockOf EXCEPT ![id] = NoBlock]
      BY <2>2, <3>2, Remove_TableInv
    <3>4. Len(t.lru) + Cardinality(T \ {Max(T)}) = Len(m.lru)
      BY <1>4, <2>3 DEF Pruned, Bounded
    <3>5. PruneRound(m, Max(T), t) = r
      BY <2>3 DEF PruneRound
    <3> HIDE DEF r, id
    <3>6. \A i \in Ids : r.blockOf[i] \in {NoBlock, m.blockOf[i]}
      <4>1. \A i \in Ids : t.blockOf[i] \in {NoBlock, m.blockOf[i]}
        BY <1>4 DEF Pruned
      <4>2. \A i \in Ids : r.blockOf[i] \in {NoBlock, t.blockOf[i]}
        BY <2>2, <3>3 DEF Table
      <4> QED
        BY <4>1, <4>2
    <3>7. Len(r.lru) + Cardinality(T) = Len(m.lru)
      BY <2>1, <2>2, <3>3, <3>4
    <3> QED
      BY <1>4, <3>3, <3>5, <3>6, <3>7 DEF Pruned
  <2>4. CASE ~(OverBounds(t) /\ t.lru # <<>>)
    <3>1. Bounded(t)
      BY <2>2, <2>4, EmptyBounded DEF Bounded
    <3>2. PruneRound(m, Max(T), t) = t
      BY <2>4 DEF PruneRound
    <3> QED
      BY <1>4, <3>1, <3>2 DEF Pruned
  <2> QED
    BY <2>3, <2>4
<1>5. Pruned(m, S, PruneLoop!FoldOf(m, m, S))
  <2>1. PruneLoop!Chooses(S)
    BY <1>2 DEF PruneLoop!Chooses
  <2>2. PruneLoop!StepsKeep(m, S)
    <3> HIDE DEF S
    <3> QED
      BY <1>4 DEF PruneLoop!StepsKeep
  <2>3. PruneLoop!IsFiniteSet(S)
    BY <1>2 DEF IsFiniteSet, PruneLoop!IsFiniteSet
  <2> HIDE DEF S
  <2> QED
    BY <1>3, <2>1, <2>2, <2>3, PruneLoop!FoldHolds
<1>6. Prune(m) = PruneLoop!FoldOf(m, m, S)
  BY DEF Prune, FoldLeft, MapThenFoldSet, PruneLoop!FoldOf, PruneLoop!IsFold, PruneRound
<1> DEFINE r == Prune(m)
<1>7. Pruned(m, S, r)
  BY <1>5, <1>6
<1> HIDE DEF r
<1>8. Bounded(r)
  <2>1. TableInv(r) /\ r.lru \in Seq(Ids) /\ Len(m.lru) \in Nat
    BY <1>1, <1>7 DEF Pruned, TableInv, Table
  <2>2. CASE Len(r.lru) + Cardinality(S) = Len(m.lru)
    <3>1. Len(r.lru) = 0
      BY <1>2, <2>1, <2>2
    <3>2. r.lru = <<>>
      BY <2>1, <3>1
    <3> QED
      BY <2>1, <3>2, EmptyBounded
  <2> QED
    BY <1>7, <2>2 DEF Pruned
<1> QED
  BY <1>7, <1>8 DEF Pruned, r

\* tool_memory_put_locked() gives the id its text, or nothing if the pruning has
\* taken it again; every other id keeps what it has or is pruned.
PutResult(m, ids, b, r) ==
  /\ TableInv(r) /\ Bounded(r) /\ r.limit = m.limit
  /\ \A i \in Ids : \/ r.blockOf[i] \in {NoBlock, m.blockOf[i]}
                    \/ i \in ids /\ r.blockOf[i] = b

LEMMA Put_TableInv ==
  ASSUME NEW m, TableInv(m), NEW id \in Ids, NEW b \in Blocks, NEW src \in {"ram", "disk"}
  PROVE  PutResult(m, {id}, b, Put(m, id, b, src))
<1> DEFINE kept == [m EXCEPT !.source[id] = IF src = "ram" THEN "ram" ELSE @]
           freed == IF Known(m, id) THEN RemoveEntry(m, id) ELSE m
           t == IF m.blockOf[id] = b THEN Touch(kept, id) ELSE NewEntry(freed, id, b, src)
<1>1. m \in Table /\ Consistent(m) /\ b # NoBlock
  BY TableAssumption DEF TableInv
<1>2. Put(m, id, b, src) = Prune(t)
  BY DEF Put
<1>3. /\ TableInv(t) /\ t.limit = m.limit
      /\ \A i \in Ids : \/ t.blockOf[i] \in {NoBlock, m.blockOf[i]}
                        \/ i = id /\ t.blockOf[i] = b
  <2>1. CASE m.blockOf[id] = b
    <3>1. kept \in Table
      BY <1>1 DEF Table
    <3>2. /\ kept.limit = m.limit /\ kept.lru = m.lru /\ kept.blockOf = m.blockOf
          /\ kept.blocks = m.blocks /\ kept.refs = m.refs /\ kept.chain = m.chain
          /\ kept.entries = m.entries /\ kept.bytes = m.bytes
      BY <1>1 DEF Table
    <3> HIDE DEF kept
    <3>3. Entries(kept) = Entries(m) /\ \A c \in Blocks : EntriesOf(kept, c) = EntriesOf(m, c)
      BY <3>2 DEF Entries, EntriesOf, Known
    <3>4. Consistent(kept)
      BY <1>1, <3>2, <3>3 DEF Consistent
    <3>5. Known(kept, id)
      BY <1>1, <2>1, <3>2 DEF Known
    <3>6. TableInv(Touch(kept, id))
      BY <3>1, <3>4, <3>5, Touch_TableInv DEF TableInv
    <3>7. Touch(kept, id).limit = kept.limit /\ Touch(kept, id).blockOf = kept.blockOf
      BY <3>1 DEF Touch, Table
    <3> QED
      BY <2>1, <3>2, <3>6, <3>7
  <2>2. CASE m.blockOf[id] # b
    <3>1. /\ TableInv(freed) /\ ~Known(freed, id) /\ freed.limit = m.limit
          /\ \A i \in Ids : freed.blockOf[i] \in {NoBlock, m.blockOf[i]}
          /\ freed.blockOf \in [Ids -> Blocks \cup {NoBlock}]
      <4>1. CASE Known(m, id)
        <5>1. /\ TableInv(freed) /\ ~Known(freed, id) /\ freed.limit = m.limit
              /\ freed.blockOf = [m.blockOf EXCEPT ![id] = NoBlock]
          BY <4>1, Remove_TableInv
        <5> HIDE DEF freed
        <5> QED
          BY <1>1, <5>1 DEF Table
      <4>2. CASE ~Known(m, id)
        BY <1>1, <4>2 DEF Table
      <4> QED
        BY <4>1, <4>2
    <3> HIDE DEF freed
    <3> DEFINE r == NewEntry(freed, id, b, src)
    <3>2. TableInv(r) /\ r.limit = freed.limit /\ r.blockOf = [freed.blockOf EXCEPT ![id] = b]
      BY <3>1, NewEntry_TableInv
    <3> HIDE DEF r
    <3>3. \A i \in Ids : r.blockOf[i] = IF i = id THEN b ELSE freed.blockOf[i]
      BY <3>1, <3>2
    <3>4. t = r
      BY <2>2 DEF r
    <3> HIDE DEF t
    <3> QED
      BY <3>1, <3>2, <3>3, <3>4
  <2> QED
    BY <2>1, <2>2
<1> HIDE DEF t
<1>4. /\ TableInv(Prune(t)) /\ Bounded(Prune(t)) /\ Prune(t).limit = t.limit
      /\ \A i \in Ids : Prune(t).blockOf[i] \in {NoBlock, t.blockOf[i]}
  BY <1>3, Prune_TableInv
<1> QED
  BY <1>2, <1>3, <1>4 DEF PutResult

\* tool_memory_remember() as a loop of puts.
RememberRound(p, x, t) == Put(t, p.ids[x], p.block, "ram")
Remembered(p, T, t) == PutResult(p.table, ToSet(p.ids), p.block, t)

RememberLoop == INSTANCE Iteration WITH Op <- RememberRound, Pick <- Max, Holds <- Remembered

LEMMA RememberAll_TableInv ==
  ASSUME NEW m, TableInv(m), Bounded(m), NEW ids \in Seq(Ids), NEW b \in Blocks
  PROVE  PutResult(m, ToSet(ids), b, RememberAll(m, ids, b))
<1> DEFINE S == DOMAIN ids
           p == [table |-> m, ids |-> ids, block |-> b]
<1>1. /\ S = 1..Len(ids) /\ IsFiniteSet(S)
      /\ \A T \in SUBSET S : T # {} => Max(T) \in T
  BY Positions
<1>2. Remembered(p, {}, m)
  BY DEF Remembered, PutResult
<1>3. ASSUME NEW T \in SUBSET S, NEW t, T # {}, Remembered(p, T \ {Max(T)}, t)
      PROVE  Remembered(p, T, RememberRound(p, Max(T), t))
  <2> DEFINE id == ids[Max(T)]
             r == Put(t, id, b, "ram")
  <2>1. id \in Ids /\ id \in ToSet(ids)
    BY <1>1, <1>3 DEF ToSet
  <2>2. PutResult(m, ToSet(ids), b, t)
    BY <1>3 DEF Remembered
  <2> HIDE DEF id
  <2>3. PutResult(t, {id}, b, r)
    BY <2>1, <2>2, Put_TableInv DEF PutResult
  <2>4. RememberRound(p, Max(T), t) = r
    BY DEF RememberRound, id
  <2> HIDE DEF r
  <2>5. PutResult(m, ToSet(ids), b, r)
    BY <2>1, <2>2, <2>3 DEF PutResult
  <2> QED
    BY <2>4, <2>5 DEF Remembered
<1>4. RememberAll(m, ids, b) = RememberLoop!FoldOf(p, m, S)
  BY DEF RememberAll, FoldLeft, MapThenFoldSet, RememberLoop!FoldOf, RememberLoop!IsFold,
         RememberRound
<1>5. Remembered(p, S, RememberLoop!FoldOf(p, m, S))
  <2>1. RememberLoop!Chooses(S) /\ RememberLoop!IsFiniteSet(S)
    BY <1>1 DEF RememberLoop!Chooses, IsFiniteSet, RememberLoop!IsFiniteSet
  <2> HIDE DEF S, p
  <2>2. RememberLoop!StepsKeep(p, S)
    BY <1>3 DEF RememberLoop!StepsKeep
  <2> QED
    BY <1>2, <2>1, <2>2, RememberLoop!FoldHolds
<1> QED
  BY <1>4, <1>5 DEF Remembered

\* The lookups for one message touch what they find.
TouchRound(p, x, t) == IF Known(t, p.ids[x]) THEN Touch(t, p.ids[x]) ELSE t
Touched(p, T, t) == TableInv(t) /\ Bounded(t) /\ t.blockOf = p.table.blockOf

TouchLoop == INSTANCE Iteration WITH Op <- TouchRound, Pick <- Max, Holds <- Touched

LEMMA TouchAll_TableInv ==
  ASSUME NEW m, TableInv(m), Bounded(m), NEW ids \in Seq(Ids)
  PROVE  /\ TableInv(TouchAll(m, ids)) /\ Bounded(TouchAll(m, ids))
         /\ TouchAll(m, ids).blockOf = m.blockOf
<1> DEFINE S == DOMAIN ids
           p == [table |-> m, ids |-> ids]
<1>1. /\ S = 1..Len(ids) /\ IsFiniteSet(S)
      /\ \A T \in SUBSET S : T # {} => Max(T) \in T
  BY Positions
<1>2. Touched(p, {}, m)
  BY DEF Touched
<1>3. ASSUME NEW T \in SUBSET S, NEW t, T # {}, Touched(p, T \ {Max(T)}, t)
      PROVE  Touched(p, T, TouchRound(p, Max(T), t))
  <2> DEFINE id == ids[Max(T)]
  <2>1. id \in Ids
    BY <1>1, <1>3
  <2>2. TableInv(t) /\ Bounded(t) /\ t.blockOf = m.blockOf /\ t \in Table
    BY <1>3 DEF Touched, TableInv
  <2>3. TouchRound(p, Max(T), t) = IF Known(t, id) THEN Touch(t, id) ELSE t
    BY DEF TouchRound
  <2> HIDE DEF id
  <2>4. ASSUME Known(t, id)
        PROVE  TableInv(Touch(t, id)) /\ Bounded(Touch(t, id)) /\ Touch(t, id).blockOf = t.blockOf
    <3>1. TableInv(Touch(t, id)) /\ Bounded(Touch(t, id))
      BY <2>1, <2>2, <2>4, Touch_TableInv
    <3>2. Touch(t, id).blockOf = t.blockOf
      BY <2>2 DEF Touch, Table
    <3> QED
      BY <3>1, <3>2
  <2> QED
    BY <2>2, <2>3, <2>4 DEF Touched
<1>4. TouchAll(m, ids) = TouchLoop!FoldOf(p, m, S)
  BY DEF TouchAll, FoldLeft, MapThenFoldSet, TouchLoop!FoldOf, TouchLoop!IsFold, TouchRound
<1>5. Touched(p, S, TouchLoop!FoldOf(p, m, S))
  <2>1. TouchLoop!Chooses(S) /\ TouchLoop!IsFiniteSet(S)
    BY <1>1 DEF TouchLoop!Chooses, IsFiniteSet, TouchLoop!IsFiniteSet
  <2> HIDE DEF S, p
  <2>2. TouchLoop!StepsKeep(p, S)
    BY <1>3 DEF TouchLoop!StepsKeep
  <2> QED
    BY <1>2, <2>1, <2>2, TouchLoop!FoldHolds
<1> QED
  BY <1>4, <1>5 DEF Touched

\* The records of a tool map, and those of an entry of the table whose block is
\* in the text.
Record == [id : Ids, block : Blocks]
RecordsOf(m, text) == {r \in Record : m.blockOf[r.id] = r.block /\ r.block \in ToSet(text)}

WriteRound(p, x, map) == WriteBlock(p.table, map, p.text[x])
Written(p, T, map) == map \in Seq(RecordsOf(p.table, p.text))

WriteLoop == INSTANCE Iteration WITH Op <- WriteRound, Pick <- Max, Holds <- Written

\* kv_tool_map_write() only writes entries of the table.
LEMMA MapOfRecords ==
  ASSUME NEW m, TableInv(m), NEW text \in Seq(Blocks)
  PROVE  MapOf(m, text) \in Seq(RecordsOf(m, text))
<1> DEFINE S == DOMAIN text
           p == [table |-> m, text |-> text]
           R == RecordsOf(m, text)
<1>1. /\ S = 1..Len(text) /\ IsFiniteSet(S)
      /\ \A T \in SUBSET S : T # {} => Max(T) \in T
  BY Positions
<1>2. Written(p, {}, <<>>)
  BY DEF Written
<1>3. ASSUME NEW T \in SUBSET S, NEW t, T # {}, Written(p, T \ {Max(T)}, t)
      PROVE  Written(p, T, WriteRound(p, Max(T), t))
  <2> DEFINE b == text[Max(T)]
             record == [i \in 1..Len(m.chain[b]) |-> [id |-> m.chain[b][i], block |-> b]]
  <2>1. b \in Blocks /\ b \in ToSet(text)
    BY <1>1, <1>3 DEF ToSet
  <2>2. t \in Seq(R)
    BY <1>3 DEF Written
  <2> HIDE DEF b
  <2>3. record \in Seq(R)
    <3>1. m.chain[b] \in Seq(Ids) /\ ToSet(m.chain[b]) = EntriesOf(m, b)
      BY <2>1 DEF TableInv, Table, Consistent
    <3>2. ASSUME NEW i \in 1..Len(m.chain[b]) PROVE record[i] \in R
      <4>1. m.chain[b][i] \in EntriesOf(m, b)
        BY <3>1 DEF ToSet
      <4> QED
        BY <2>1, <4>1 DEF EntriesOf, RecordsOf, Record
    <3>3. Len(m.chain[b]) \in Nat
      BY <3>1
    <3> HIDE DEF R
    <3>4. record \in [1..Len(m.chain[b]) -> R]
      BY <3>2
    <3> HIDE DEF record
    <3> QED
      BY <3>3, <3>4
  <2>4. WriteRound(p, Max(T), t) \in {t, t \o record}
    BY DEF WriteRound, WriteBlock, b
  <2> HIDE DEF record, R
  <2>5. t \o record \in Seq(R)
    BY <2>2, <2>3
  <2>6. WriteRound(p, Max(T), t) \in Seq(R)
    BY <2>2, <2>4, <2>5
  <2> QED
    BY <2>6 DEF Written, R
<1>4. MapOf(m, text) = WriteLoop!FoldOf(p, <<>>, S)
  BY DEF MapOf, FoldLeft, MapThenFoldSet, WriteLoop!FoldOf, WriteLoop!IsFold, WriteRound
<1>5. Written(p, S, WriteLoop!FoldOf(p, <<>>, S))
  <2>1. WriteLoop!Chooses(S) /\ WriteLoop!IsFiniteSet(S)
    BY <1>1 DEF WriteLoop!Chooses, IsFiniteSet, WriteLoop!IsFiniteSet
  <2> HIDE DEF S, p
  <2>2. WriteLoop!StepsKeep(p, S)
    BY <1>3 DEF WriteLoop!StepsKeep
  <2> QED
    BY <1>2, <2>1, <2>2, WriteLoop!FoldHolds
<1> QED
  BY <1>4, <1>5 DEF Written

-----------------------------------------------------------------------------
(* The inductive invariants. *)

DiskFile == [flag : BOOLEAN, count : Nat, map : Seq(Record), exists : BOOLEAN]

Workers ==
  {Idle} \cup [pc : {"store"}, file : Files, flag : BOOLEAN]
         \cup [pc : {"truncate", "write"}, file : Files]
         \cup [pc : {"flush"}, file : Files, rest : Seq(Record), count : Nat]
         \cup [pc : {"load"}, rest : Seq(Record)]

Stables == SUBSET (Files \X Ids)
Asking == [pc : {"restore"}, ids : Seq(Ids), left : SUBSET Files, stable : Stables]
Opened == [pc : {"count"}, ids : Seq(Ids), left : SUBSET Files, stable : Stables, file : Files,
              gone : BOOLEAN, copy : DiskFile]
Reading == [pc : {"record"}, ids : Seq(Ids), left : SUBSET Files, stable : Stables, file : Files,
            gone : BOOLEAN, copy : DiskFile, count : Nat, next : Nat \ {0}]
HalfRead == [pc : {"text"}, ids : Seq(Ids), left : SUBSET Files, stable : Stables, file : Files,
             gone : BOOLEAN, copy : DiskFile, count : Nat, next : Nat \ {0}, id : Ids, cut : BOOLEAN]
Readers == {Idle} \cup Asking \cup Opened \cup Reading \cup HalfRead

ReplayType ==
  /\ disk \in [Files -> DiskFile]
  /\ worker \in Workers
  /\ client \in [Clients -> Readers]
  /\ sampled \in [Ids -> Blocks \cup {NoBlock}]
  /\ torn \in SUBSET Ids

IInv == ReplayType /\ TableInv(mem) /\ Bounded(mem)

LEMMA WorkerKinds ==
  ASSUME worker \in Workers
  PROVE  /\ worker.pc \in {"idle", "store", "truncate", "write", "flush", "load"}
         /\ worker.pc = "idle" => worker = Idle
         /\ worker.pc = "store" => worker \in [pc : {"store"}, file : Files, flag : BOOLEAN]
         /\ worker.pc \in {"truncate", "write"} => worker \in [pc : {"truncate", "write"}, file : Files]
         /\ worker.pc = "flush" =>
              worker \in [pc : {"flush"}, file : Files, rest : Seq(Record), count : Nat]
         /\ worker.pc = "load" => worker \in [pc : {"load"}, rest : Seq(Record)]
BY DEF Workers, Idle

LEMMA ReaderKinds ==
  ASSUME NEW r \in Readers
  PROVE  /\ r.pc \in {"idle", "restore", "count", "record", "text"}
         /\ r.pc = "idle" => r = Idle
         /\ r.pc = "restore" => r \in Asking
         /\ r.pc = "count" => r \in Opened
         /\ r.pc = "record" => r \in Reading
         /\ r.pc = "text" => r \in HalfRead
BY DEF Readers, Idle, Asking, Opened, Reading, HalfRead

\* What the observer and a disappearing name leave of a reader.
LEMMA UnstableReader ==
  ASSUME NEW r \in Readers, NEW f
  PROVE  /\ Unstable(r, f) \in Readers /\ Unstable(r, f).pc = r.pc
         /\ r.pc \in {"count", "record", "text"} =>
              /\ Unstable(r, f).file = r.file /\ Unstable(r, f).gone = r.gone
              /\ Unstable(r, f).copy = r.copy
         /\ r.pc = "text" => /\ Unstable(r, f).id = r.id /\ Unstable(r, f).next = r.next
                             /\ Unstable(r, f).cut = r.cut
<1> DEFINE u == Unstable(r, f)
           kept == {p \in r.stable : p[1] # f}
<1>1. CASE r = Idle
  BY <1>1 DEF Unstable, Idle
<1>2. CASE r # Idle
  <2>1. u = [r EXCEPT !.stable = kept]
    BY <1>2 DEF Unstable
  <2>2. r \in Asking \/ r \in Opened \/ r \in Reading \/ r \in HalfRead
    BY <1>2 DEF Readers
  <2>3. kept \in Stables
    <3>1. r.stable \in Stables
      BY <2>2 DEF Asking, Opened, Reading, HalfRead
    <3> QED
      BY <3>1 DEF Stables
  <2> HIDE DEF kept, u
  <2>4. CASE r \in Asking
    BY <2>1, <2>3, <2>4 DEF Asking, Readers, u
  <2>5. CASE r \in Opened
    BY <2>1, <2>3, <2>5 DEF Opened, Readers, u
  <2>6. CASE r \in Reading
    BY <2>1, <2>3, <2>6 DEF Reading, Readers, u
  <2>7. CASE r \in HalfRead
    BY <2>1, <2>3, <2>7 DEF HalfRead, Readers, u
  <2> QED
    BY <2>2, <2>4, <2>5, <2>6, <2>7
<1> QED
  BY <1>1, <1>2

LEMMA CutReader ==
  ASSUME NEW r \in Readers, NEW f
  PROVE  /\ CutShort(r, f) \in Readers /\ CutShort(r, f).pc = r.pc
         /\ r.pc \in {"count", "record", "text"} =>
              /\ CutShort(r, f).file = r.file /\ CutShort(r, f).gone = r.gone
              /\ CutShort(r, f).copy = r.copy
         /\ r.pc = "text" => /\ CutShort(r, f).id = r.id /\ CutShort(r, f).next = r.next
                             /\ CutShort(r, f).cut = (r.cut \/ (r.file = f /\ ~ r.gone))
<1> DEFINE u == Unstable(r, f)
           v == CutShort(r, f)
<1>1. /\ u \in Readers /\ u.pc = r.pc
      /\ r.pc \in {"count", "record", "text"} => u.file = r.file /\ u.gone = r.gone /\ u.copy = r.copy
      /\ r.pc = "text" => u.id = r.id /\ u.next = r.next /\ u.cut = r.cut
  BY UnstableReader
<1>2. v = IF r.pc = "text" /\ r.file = f /\ ~ r.gone THEN [u EXCEPT !.cut = TRUE] ELSE u
  BY DEF CutShort
<1> HIDE DEF u, v
<1>3. CASE r.pc = "text"
  <2>1. u \in HalfRead /\ r \in HalfRead
    BY <1>1, <1>3, ReaderKinds
  <2>2. CASE r.file = f /\ ~ r.gone
    <3>1. v = [u EXCEPT !.cut = TRUE]
      BY <1>2, <1>3, <2>2
    <3>2. v \in HalfRead
      BY <2>1, <3>1 DEF HalfRead
    <3>3. /\ v.pc = u.pc /\ v.file = u.file /\ v.gone = u.gone /\ v.copy = u.copy
          /\ v.id = u.id /\ v.next = u.next /\ v.cut = TRUE
      BY <2>1, <3>1 DEF HalfRead
    <3> QED
      BY <1>1, <1>3, <2>2, <3>2, <3>3 DEF Readers, v
  <2>3. CASE ~(r.file = f /\ ~ r.gone)
    <3>1. v = u
      BY <1>2, <2>3
    <3>2. r.cut = (r.cut \/ (r.file = f /\ ~ r.gone))
      BY <2>1, <2>3 DEF HalfRead
    <3> QED
      BY <1>1, <1>3, <3>1, <3>2 DEF v
  <2> QED
    BY <2>2, <2>3
<1>4. CASE r.pc # "text"
  BY <1>1, <1>2, <1>4 DEF v
<1> QED
  BY <1>3, <1>4

LEMMA DetachReader ==
  ASSUME NEW r \in Readers, NEW f \in Files, disk \in [Files -> DiskFile]
  PROVE  /\ Detach(r, f) \in Readers /\ Detach(r, f).pc = r.pc
         /\ r.pc \in {"count", "record", "text"} =>
              /\ Detach(r, f).file = r.file
              /\ Detach(r, f).gone =>
                   \/ r.gone /\ Detach(r, f).copy = r.copy
                   \/ r.file = f /\ Detach(r, f).copy = disk[f]
              /\ Detach(r, f).gone = (r.gone \/ r.file = f)
              /\ r.gone => Detach(r, f).copy = r.copy
         /\ r.pc = "text" => /\ Detach(r, f).id = r.id /\ Detach(r, f).next = r.next
                             /\ Detach(r, f).cut = r.cut
<1> DEFINE d == Detach(r, f)
<1>1. CASE ~(r.pc \in {"count", "record", "text"} /\ r.file = f /\ ~r.gone)
  <2>1. d = r
    BY <1>1 DEF Detach
  <2>2. r.pc \in {"count", "record", "text"} => d.gone = (r.gone \/ r.file = f)
    <3>1. r.pc \in {"count", "record", "text"} => r.gone \in BOOLEAN
      BY ReaderKinds DEF Opened, Reading, HalfRead
    <3> QED
      BY <1>1, <2>1, <3>1
  <2> QED
    BY <2>1, <2>2
<1>2. CASE r.pc \in {"count", "record", "text"} /\ r.file = f /\ ~r.gone
  <2>1. d = [r EXCEPT !.gone = TRUE, !.copy = disk[f]]
    BY <1>2 DEF Detach
  <2>2. disk[f] \in DiskFile
    OBVIOUS
  <2> HIDE DEF d
  <2>3. CASE r.pc = "count"
    <3>1. r \in Opened
      BY <2>3, ReaderKinds
    <3> QED
      BY <1>2, <2>1, <2>2, <2>3, <3>1 DEF Opened, Readers, d
  <2>4. CASE r.pc = "record"
    <3>1. r \in Reading
      BY <2>4, ReaderKinds
    <3> QED
      BY <1>2, <2>1, <2>2, <2>4, <3>1 DEF Reading, Readers, d
  <2>5. CASE r.pc = "text"
    <3>1. r \in HalfRead
      BY <2>5, ReaderKinds
    <3> QED
      BY <1>2, <2>1, <2>2, <2>5, <3>1 DEF HalfRead, Readers, d
  <2> QED
    BY <1>2, <2>3, <2>4, <2>5
<1> QED
  BY <1>1, <1>2

LEMMA SeqGrows ==
  ASSUME NEW S, NEW T, S \subseteq T, NEW s \in Seq(S)
  PROVE  s \in Seq(T)
<1>1. Len(s) \in Nat /\ s \in [1..Len(s) -> S]
  OBVIOUS
<1>2. s \in [1..Len(s) -> T]
  BY <1>1
<1> QED
  BY <1>1, <1>2

LEMMA MessageType ==
  ASSUME NEW ids \in Messages
  PROVE  ids \in Seq(Ids)
<1>1. PICK n \in 1..MaxCalls : ids \in [1..n -> Ids]
  BY DEF Messages
<1> QED
  BY <1>1, ReplayAssumption

\* What is written of a text.
LEMMA MapType ==
  ASSUME TableInv(mem), NEW f \in Files
  PROVE  /\ MapOf(mem, TextOf[f]) \in Seq(RecordsOf(mem, TextOf[f]))
         /\ MapOf(mem, TextOf[f]) \in Seq(Record) /\ Len(MapOf(mem, TextOf[f])) \in Nat
<1>1. TextOf[f] \in Seq(Blocks)
  BY ReplayAssumption
<1>2. MapOf(mem, TextOf[f]) \in Seq(RecordsOf(mem, TextOf[f]))
  BY <1>1, MapOfRecords
<1>3. RecordsOf(mem, TextOf[f]) \subseteq Record
  BY DEF RecordsOf
<1>4. MapOf(mem, TextOf[f]) \in Seq(Record)
  BY <1>2, <1>3, SeqGrows
<1> QED
  BY <1>2, <1>4

LEMMA Init_IInv ==
  ASSUME Init
  PROVE  IInv
<1>1. NoFile \in DiskFile
  BY DEF NoFile, DiskFile
<1>2. ReplayType
  BY <1>1 DEF Init, ReplayType, Workers, Readers
<1> QED
  BY <1>2, EmptyTable_TableInv DEF Init, IInv

\* A put gives a table that is within its bounds again.
LEMMA PutKeeps ==
  ASSUME TableInv(mem), NEW id \in Ids, NEW b \in Blocks
  PROVE  TableInv(Put(mem, id, b, "disk")) /\ Bounded(Put(mem, id, b, "disk"))
BY Put_TableInv DEF PutResult

LEMMA Remember_IInv ==
  ASSUME IInv, NEW ids \in Messages, NEW b \in Blocks, Remember(ids, b)
  PROVE  IInv'
<1>1. PutResult(mem, ToSet(ids), b, RememberAll(mem, ids, b))
  BY MessageType, RememberAll_TableInv DEF IInv
<1>2. ReplayType'
  BY DEF IInv, ReplayType, Remember
<1> QED
  BY <1>1, <1>2 DEF IInv, Remember, PutResult

LEMMA StoreBegin_IInv ==
  ASSUME IInv, NEW f \in Files, StoreBegin(f)
  PROVE  IInv'
<1>1. (CountDsml(TextOf[f]) > 0) \in BOOLEAN
  OBVIOUS
<1>2. worker' \in Workers
  BY <1>1 DEF StoreBegin, Workers
<1> QED
  BY <1>2 DEF IInv, ReplayType, StoreBegin

LEMMA StoreRename_IInv ==
  ASSUME IInv, StoreRename
  PROVE  IInv'
<1> DEFINE f == worker.file
           map == MapOf(mem, TextOf[f])
<1>1. f \in Files /\ worker.flag \in BOOLEAN
  BY WorkerKinds DEF IInv, ReplayType, StoreRename
<1>2. map \in Seq(Record) /\ Len(map) \in Nat
  BY <1>1, MapType DEF IInv
<1>3. disk' = [disk EXCEPT ![f] = [flag |-> worker.flag, count |-> Len(map), map |-> map,
                                   exists |-> TRUE]]
  BY DEF StoreRename
<1> HIDE DEF map
<1>4. disk' \in [Files -> DiskFile] /\ worker' \in Workers
  BY <1>1, <1>2, <1>3 DEF IInv, ReplayType, StoreRename, DiskFile, Workers
<1> QED
  BY <1>4 DEF IInv, ReplayType, StoreRename

LEMMA StoreFails_IInv ==
  ASSUME IInv, StoreFails
  PROVE  IInv'
BY DEF IInv, ReplayType, StoreFails, Workers

LEMMA RewriteBegin_IInv ==
  ASSUME IInv, NEW f \in Files, RewriteBegin(f)
  PROVE  IInv'
<1>1. worker' \in Workers
  BY DEF RewriteBegin, Workers
<1> QED
  BY <1>1 DEF IInv, ReplayType, RewriteBegin

LEMMA RewriteTruncate_IInv ==
  ASSUME IInv, RewriteTruncate
  PROVE  IInv'
<1>1. worker \in [pc : {"truncate", "write"}, file : Files]
  BY WorkerKinds DEF IInv, ReplayType, RewriteTruncate
<1>2. worker' \in Workers
  BY <1>1 DEF RewriteTruncate, Workers
<1>3. disk' \in [Files -> DiskFile]
  <2> DEFINE f == worker.file
  <2>1. f \in Files /\ disk[f] \in DiskFile
    BY <1>1 DEF IInv, ReplayType
  <2>2. disk' = [disk EXCEPT ![f].map = <<>>, ![f].count = 0]
    BY DEF RewriteTruncate
  <2>3. <<>> \in Seq(Record)
    OBVIOUS
  <2> HIDE DEF f
  <2> QED
    BY <2>1, <2>2, <2>3 DEF IInv, ReplayType, DiskFile
<1>4. client' \in [Clients -> Readers]
  BY CutReader DEF IInv, ReplayType, RewriteTruncate
<1> QED
  BY <1>2, <1>3, <1>4 DEF IInv, ReplayType, RewriteTruncate

LEMMA RewriteWrite_IInv ==
  ASSUME IInv, RewriteWrite
  PROVE  IInv'
<1> DEFINE f == worker.file
           map == MapOf(mem, TextOf[f])
<1>1. f \in Files
  BY WorkerKinds DEF IInv, ReplayType, RewriteWrite
<1>2. map \in Seq(Record) /\ Len(map) \in Nat
  BY <1>1, MapType DEF IInv
<1>3. worker' = IF map = <<>> THEN Idle ELSE [pc |-> "flush", file |-> f, rest |-> map,
                                               count |-> Len(map)]
  BY DEF RewriteWrite
<1> HIDE DEF map
<1>4. worker' \in Workers
  BY <1>1, <1>2, <1>3 DEF Workers
<1> QED
  BY <1>4 DEF IInv, ReplayType, RewriteWrite

LEMMA RewriteFlush_IInv ==
  ASSUME IInv, NEW n, RewriteFlush(n)
  PROVE  IInv'
<1> DEFINE f == worker.file
           rest == worker.rest
<1>1. worker \in [pc : {"flush"}, file : Files, rest : Seq(Record), count : Nat]
  BY WorkerKinds DEF IInv, ReplayType, RewriteFlush
<1>2. n \in 0..Len(rest) /\ rest \in Seq(Record) /\ f \in Files /\ worker.count \in Nat
  BY <1>1 DEF RewriteFlush
<1>3. disk[f] \in DiskFile /\ disk[f].map \in Seq(Record)
  BY <1>2 DEF IInv, ReplayType, DiskFile
<1>4. SubSeq(rest, 1, n) \in Seq(Record) /\ SubSeq(rest, n + 1, Len(rest)) \in Seq(Record)
  <2> HIDE DEF rest
  <2> QED
    BY <1>2
<1>5. disk[f].map \o SubSeq(rest, 1, n) \in Seq(Record)
  BY <1>3, <1>4
<1>6. worker' = [worker EXCEPT !.rest = SubSeq(rest, n + 1, Len(rest))]
  BY <1>1 DEF RewriteFlush
<1>7. worker' \in Workers
  <2> HIDE DEF rest
  <2> QED
    BY <1>1, <1>4, <1>6 DEF Workers
<1>8. disk' = [disk EXCEPT ![f].map = disk[f].map \o SubSeq(rest, 1, n), ![f].count = worker.count]
  BY <1>2 DEF IInv, ReplayType, RewriteFlush
<1>9. disk' \in [Files -> DiskFile]
  <2> HIDE DEF rest, f
  <2> QED
    BY <1>2, <1>3, <1>5, <1>8 DEF IInv, ReplayType, DiskFile
<1> QED
  BY <1>7, <1>9 DEF IInv, ReplayType, RewriteFlush

LEMMA RewriteHeader_IInv ==
  ASSUME IInv, RewriteHeader
  PROVE  IInv'
<1>1. worker.file \in Files
  BY WorkerKinds DEF IInv, ReplayType, RewriteHeader
<1>2. disk' \in [Files -> DiskFile] /\ worker' \in Workers
  BY <1>1 DEF IInv, ReplayType, RewriteHeader, DiskFile, Workers
<1> QED
  BY <1>2 DEF IInv, ReplayType, RewriteHeader

LEMMA RewriteFails_IInv ==
  ASSUME IInv, RewriteFails
  PROVE  IInv'
BY DEF IInv, ReplayType, RewriteFails, Workers

LEMMA Unlink_IInv ==
  ASSUME IInv, NEW f \in Files, Unlink(f)
  PROVE  IInv'
<1>1. disk' \in [Files -> DiskFile]
  BY DEF IInv, ReplayType, Unlink, DiskFile, NoFile
<1>2. client' \in [Clients -> Readers]
  BY UnstableReader, DetachReader DEF IInv, ReplayType, Unlink
<1> QED
  BY <1>1, <1>2 DEF IInv, ReplayType, Unlink

LEMMA LoadBegin_IInv ==
  ASSUME IInv, NEW f \in Files, LoadBegin(f)
  PROVE  IInv'
<1>1. disk[f].map \in Seq(Record)
  BY DEF IInv, ReplayType, DiskFile
<1>2. worker' \in Workers
  BY <1>1 DEF LoadBegin, Workers
<1> QED
  BY <1>2 DEF IInv, ReplayType, LoadBegin

LEMMA LoadRecord_IInv ==
  ASSUME IInv, LoadRecord
  PROVE  IInv'
<1>1. worker \in [pc : {"load"}, rest : Seq(Record)]
  BY WorkerKinds DEF IInv, ReplayType, LoadRecord
<1>2. CASE worker.rest = <<>>
  BY <1>2 DEF IInv, ReplayType, LoadRecord, Workers
<1>3. CASE worker.rest # <<>>
  <2>1. worker.rest[1] \in Record /\ Tail(worker.rest) \in Seq(Record)
    BY <1>1, <1>3
  <2>2. worker' \in Workers
    BY <1>1, <1>3, <2>1 DEF LoadRecord, Workers
  <2>3. TableInv(mem') /\ Bounded(mem')
    <3>1. worker.rest[1].id \in Ids /\ worker.rest[1].block \in Blocks
      BY <2>1 DEF Record
    <3> QED
      BY <1>3, <3>1, PutKeeps DEF IInv, LoadRecord
  <2> QED
    BY <2>2, <2>3 DEF IInv, ReplayType, LoadRecord
<1> QED
  BY <1>2, <1>3

\* A request of a client changes nothing but the table and that client.
LEMMA ReaderStep ==
  ASSUME IInv, NEW c \in Clients, NEW r \in Readers, client' = [client EXCEPT ![c] = r],
         UNCHANGED <<disk, worker, sampled>>, torn' \in SUBSET Ids, TableInv(mem'), Bounded(mem')
  PROVE  IInv'
BY DEF IInv, ReplayType

LEMMA Ask_IInv ==
  ASSUME IInv, NEW c \in Clients, NEW ids \in LongMessages, Ask(c, ids)
  PROVE  IInv'
<1> DEFINE r == [pc |-> "restore", ids |-> ids, left |-> Files, stable |-> OnDisk(disk, ids)]
<1>1. ids \in Seq(Ids)
  BY MessageType DEF LongMessages
<1>2. OnDisk(disk, ids) \in Stables
  <2>1. ToSet(ids) \subseteq Ids
    BY <1>1 DEF ToSet
  <2> QED
    BY <2>1 DEF OnDisk, Stables
<1>3. r \in Readers
  BY <1>1, <1>2 DEF Readers, Asking
<1> QED
  BY <1>3, ReaderStep DEF Ask, IInv, ReplayType

LEMMA OpenFile_IInv ==
  ASSUME IInv, NEW c \in Clients, NEW f \in Files, OpenFile(c, f)
  PROVE  IInv'
<1> DEFINE r == client[c]
           opened == [pc |-> "count", ids |-> r.ids, left |-> r.left \ {f}, stable |-> r.stable,
                      file |-> f, gone |-> FALSE, copy |-> NoFile]
           skipped == [r EXCEPT !.left = @ \ {f}]
<1>1. r \in Asking
  BY ReaderKinds DEF IInv, ReplayType, OpenFile
<1>2. opened \in Readers
  BY <1>1 DEF Readers, Asking, Opened, DiskFile, NoFile
<1>3. skipped \in Readers
  <2> HIDE DEF r
  <2> QED
    BY <1>1 DEF Readers, Asking
<1>4. client' = [client EXCEPT ![c] = IF disk[f].exists /\ disk[f].flag THEN opened ELSE skipped]
  BY DEF OpenFile
<1> HIDE DEF opened, skipped
<1> QED
  BY <1>2, <1>3, <1>4, ReaderStep DEF OpenFile, IInv, ReplayType

\* What a reader sees of its file.
LEMMA ContentType ==
  ASSUME ReplayType, NEW r \in Opened \cup Reading \cup HalfRead
  PROVE  Content(r) \in DiskFile
BY DEF ReplayType, Content, Opened, Reading, HalfRead

LEMMA ClosedType ==
  ASSUME NEW r \in Opened \cup Reading \cup HalfRead
  PROVE  Closed(r) \in Readers
BY DEF Closed, Readers, Asking, Opened, Reading, HalfRead

LEMMA ReadCount_IInv ==
  ASSUME IInv, NEW c \in Clients, ReadCount(c)
  PROVE  IInv'
<1> DEFINE r == client[c]
           file == Content(r)
           record == [pc |-> "record", ids |-> r.ids, left |-> r.left, stable |-> r.stable,
                      file |-> r.file, gone |-> r.gone, copy |-> r.copy, count |-> file.count,
                      next |-> 1]
<1>1. r \in Opened
  BY ReaderKinds DEF IInv, ReplayType, ReadCount
<1>2. file.count \in Nat
  BY <1>1, ContentType DEF IInv, DiskFile
<1>3. Closed(r) \in Readers
  BY <1>1, ClosedType
<1>4. client' = [client EXCEPT ![c] = IF file.count = 0 THEN Closed(r) ELSE record]
  BY DEF ReadCount
<1> HIDE DEF file, r
<1>5. record \in Readers
  BY <1>1, <1>2 DEF Readers, Opened, Reading
<1> HIDE DEF record
<1> QED
  BY <1>3, <1>4, <1>5, ReaderStep DEF ReadCount, IInv, ReplayType

LEMMA ReadRecord_IInv ==
  ASSUME IInv, NEW c \in Clients, ReadRecord(c)
  PROVE  IInv'
<1> DEFINE r == client[c]
           map == Content(r).map
           rec == map[r.next]
<1>1. r \in Reading /\ ~ AtEnd(r)
  BY ReaderKinds DEF IInv, ReplayType, ReadRecord
<1>2. r.next \in 1..Len(map) /\ map \in Seq(Record)
  BY <1>1, ContentType DEF IInv, DiskFile, Reading, AtEnd
<1>3. rec.id \in Ids /\ rec.block \in Blocks
  <2>1. rec \in Record
    BY <1>2
  <2> QED
    BY <2>1 DEF Record
<1>4. /\ mem' = IF rec.id \in ToSet(r.ids) THEN Put(mem, rec.id, rec.block, "disk") ELSE mem
      /\ client' = [client EXCEPT ![c].next = r.next + 1]
  BY DEF ReadRecord
<1>5. client' = [client EXCEPT ![c] = [r EXCEPT !.next = r.next + 1]]
  BY <1>4
<1> HIDE DEF rec, map
<1>6. [r EXCEPT !.next = r.next + 1] \in Readers
  <2> HIDE DEF r
  <2> QED
    BY <1>1 DEF Readers, Reading
<1>7. TableInv(mem') /\ Bounded(mem')
  BY <1>3, <1>4, PutKeeps DEF IInv
<1> QED
  BY <1>5, <1>6, <1>7, ReaderStep DEF ReadRecord, IInv, ReplayType

\* What a reader becomes between the id and the text of a record, and after it.
HalfOf(r, id) ==
  [pc |-> "text", ids |-> r.ids, left |-> r.left, stable |-> r.stable, file |-> r.file,
   gone |-> r.gone, copy |-> r.copy, count |-> r.count, next |-> r.next, id |-> id, cut |-> FALSE]
NextOf(r) ==
  [pc |-> "record", ids |-> r.ids, left |-> r.left, stable |-> r.stable, file |-> r.file,
   gone |-> r.gone, copy |-> r.copy, count |-> r.count, next |-> r.next + 1]

LEMMA ReadId_IInv ==
  ASSUME IInv, NEW c \in Clients, ReadId(c)
  PROVE  IInv'
<1> DEFINE r == client[c]
           map == Content(r).map
           id == map[r.next].id
<1>1. r \in Reading /\ ~ AtEnd(r)
  BY ReaderKinds DEF IInv, ReplayType, ReadId
<1>2. r.next \in 1..Len(map) /\ map \in Seq(Record)
  BY <1>1, ContentType DEF IInv, DiskFile, Reading, AtEnd
<1>3. id \in Ids
  <2>1. map[r.next] \in Record
    BY <1>2
  <2> QED
    BY <2>1 DEF Record
<1>4. client' = [client EXCEPT ![c] = HalfOf(r, id)]
  BY DEF ReadId, HalfOf
<1> HIDE DEF id
<1>5. HalfOf(r, id) \in Readers
  <2> HIDE DEF r
  <2> QED
    BY <1>1, <1>3 DEF Readers, Reading, HalfRead, HalfOf
<1> QED
  BY <1>4, <1>5, ReaderStep DEF ReadId, IInv, ReplayType

LEMMA ReadText_IInv ==
  ASSUME IInv, NEW c \in Clients, ReadText(c)
  PROVE  IInv'
<1> DEFINE r == client[c]
           map == Content(r).map
<1>1. r \in HalfRead
  BY ReaderKinds DEF IInv, ReplayType, ReadText
<1>2. map \in Seq(Record) /\ r.id \in Ids /\ r.next \in Nat \ {0}
  BY <1>1, ContentType DEF IInv, DiskFile, HalfRead
<1>3. NextOf(r) \in Readers /\ Closed(r) \in Readers
  <2>1. Closed(r) \in Readers
    BY <1>1, ClosedType
  <2> HIDE DEF r
  <2>2. NextOf(r) \in Reading
    BY <1>1 DEF Reading, HalfRead, NextOf
  <2> QED
    BY <2>1, <2>2 DEF Readers
<1>4. IF r.next > Len(map) THEN client' = [client EXCEPT ![c] = Closed(r)] /\ mem' = mem /\ torn' = torn
      ELSE /\ mem' = IF r.id \in ToSet(r.ids) THEN Put(mem, r.id, map[r.next].block, "disk") ELSE mem
           /\ torn' = IF r.cut /\ r.id \in ToSet(r.ids) THEN torn \cup {r.id} ELSE torn
           /\ client' = [client EXCEPT ![c] = NextOf(r)]
  BY DEF ReadText, NextOf
<1>5. UNCHANGED <<disk, worker, sampled>> /\ torn \in SUBSET Ids
  BY DEF ReadText, IInv, ReplayType
<1> HIDE DEF map, r
<1>6. torn' \in SUBSET Ids
  BY <1>2, <1>4, <1>5
<1>7. CASE r.next > Len(map)
  BY <1>3, <1>4, <1>5, <1>6, <1>7, ReaderStep DEF IInv
<1>8. CASE ~ r.next > Len(map)
  <2>1. map[r.next] \in Record
    BY <1>2, <1>8
  <2>2. TableInv(mem') /\ Bounded(mem')
    BY <1>2, <1>4, <1>8, <2>1, PutKeeps DEF IInv, Record
  <2> QED
    BY <1>3, <1>4, <1>5, <1>6, <1>8, <2>2, ReaderStep
<1> QED
  BY <1>7, <1>8

LEMMA CloseFile_IInv ==
  ASSUME IInv, NEW c \in Clients, CloseFile(c)
  PROVE  IInv'
<1>1. client[c] \in Reading
  BY ReaderKinds DEF IInv, ReplayType, CloseFile
<1>2. Closed(client[c]) \in Readers
  BY <1>1, ClosedType
<1> QED
  BY <1>2, ReaderStep DEF CloseFile, IInv, ReplayType

LEMMA Attach_IInv ==
  ASSUME IInv, NEW c \in Clients, Attach(c)
  PROVE  IInv'
<1>1. client[c] \in Asking
  BY ReaderKinds DEF IInv, ReplayType, Attach
<1>2. TableInv(mem') /\ Bounded(mem')
  <2>1. client[c].ids \in Seq(Ids)
    BY <1>1 DEF Asking
  <2> QED
    BY <2>1, TouchAll_TableInv DEF Attach, IInv
<1>3. Idle \in Readers
  BY DEF Readers
<1> QED
  BY <1>2, <1>3, ReaderStep DEF Attach, IInv, ReplayType

LEMMA Crash_IInv ==
  ASSUME IInv, Crash
  PROVE  IInv'
<1>1. mem.limit \in Limits
  BY DEF IInv, TableInv, Table
<1>2. TableInv(mem') /\ Bounded(mem')
  BY <1>1, EmptyTable_TableInv DEF Crash
<1> QED
  BY <1>2 DEF IInv, ReplayType, Crash, Workers, Readers

LEMMA Next_IInv ==
  ASSUME IInv, [Next]_vars
  PROVE  IInv'
<1>1. ASSUME NEW ids \in Messages, NEW b \in Blocks, Remember(ids, b) PROVE IInv'
  BY <1>1, Remember_IInv
<1>2. ASSUME NEW f \in Files, StoreBegin(f) \/ RewriteBegin(f) \/ Unlink(f) \/ LoadBegin(f)
      PROVE IInv'
  BY <1>2, StoreBegin_IInv, RewriteBegin_IInv, Unlink_IInv, LoadBegin_IInv
<1>3. CASE StoreRename \/ StoreFails \/ RewriteTruncate \/ RewriteWrite \/ RewriteHeader
           \/ RewriteFails
  BY <1>3, StoreRename_IInv, StoreFails_IInv, RewriteTruncate_IInv, RewriteWrite_IInv,
     RewriteHeader_IInv, RewriteFails_IInv
<1>4. ASSUME NEW n, RewriteFlush(n) PROVE IInv'
  BY <1>4, RewriteFlush_IInv
<1>5. CASE LoadRecord
  BY <1>5, LoadRecord_IInv
<1>6. ASSUME NEW c \in Clients,
             \/ \E ids \in LongMessages : Ask(c, ids)
             \/ \E f \in Files : OpenFile(c, f)
             \/ ReadCount(c) \/ ReadRecord(c) \/ ReadId(c) \/ ReadText(c) \/ CloseFile(c)
             \/ Attach(c)
      PROVE  IInv'
  BY <1>6, Ask_IInv, OpenFile_IInv, ReadCount_IInv, ReadRecord_IInv, ReadId_IInv, ReadText_IInv,
     CloseFile_IInv, Attach_IInv
<1>7. CASE Crash
  BY <1>7, Crash_IInv
<1>8. CASE UNCHANGED vars
  BY <1>8 DEF vars, IInv, ReplayType
<1> QED
  BY <1>1, <1>2, <1>3, <1>4, <1>5, <1>6, <1>7, <1>8 DEF Next

THEOREM ReplayInvariant == Spec => []IInv
<1>1. Init => IInv
  BY Init_IInv
<1>2. IInv /\ [Next]_vars => IInv'
  BY Next_IInv
<1> QED
  BY <1>1, <1>2, PTL DEF Spec

\* In every state the table's lists, trees, reference counts and counters agree
\* and its bounds hold, whatever the worker and the clients interleave, however
\* large the limits and however many ids, texts, files and clients there are.
THEOREM ReplayTable == Spec => []TableConsistent
<1>1. IInv => TableConsistent
  BY DEF IInv, TableInv, TableConsistent
<1> QED
  BY <1>1, ReplayInvariant, PTL

-----------------------------------------------------------------------------
(* Replay is exact.  s is the text sampled under each id, x the torn ids.  *)

\* The records that lead to the text sampled under their id, or whose id is torn,
\* and those whose text is also one of file f.
SampledRecords(s, x) == {r \in Record : r.id \in x \/ s[r.id] = r.block}
RecordsIn(f, s, x) == {r \in SampledRecords(s, x) : r.block \in ToSet(TextOf[f])}

\* Wherever a record is on its way between the table and a file, it is exact.
TableExact(m, s, x) == \A i \in Ids \ x : m.blockOf[i] \in {NoBlock, s[i]}
FilesExact(d, s, x) == \A f \in Files : d[f].map \in Seq(RecordsIn(f, s, x))
WorkerExact(w, s, x) ==
  /\ w.pc = "flush" => w.rest \in Seq(RecordsIn(w.file, s, x))
  /\ w.pc = "load" => w.rest \in Seq(SampledRecords(s, x))
ReaderExact(r, s, x) ==
  r.pc \in {"count", "record", "text"} /\ r.gone => r.copy.map \in Seq(RecordsIn(r.file, s, x))

ExactInv ==
  /\ TableExact(mem, sampled, torn) /\ FilesExact(disk, sampled, torn)
  /\ WorkerExact(worker, sampled, torn)
  /\ \A c \in Clients : ReaderExact(client[c], sampled, torn)

\* A file that a reader holds by name is there; a reader between the id and the
\* text of a record whose file was not cut short finds that record where it was.
\* Seen is the file as reader r sees it among the files d.
Seen(d, r) == IF r.gone THEN r.copy ELSE d[r.file]
Held(d, r) ==
  /\ r.pc \in {"count", "record", "text"} /\ ~ r.gone => d[r.file].exists
  /\ r.pc = "text" /\ ~ r.cut =>
       r.next \in 1..Len(Seen(d, r).map) /\ Seen(d, r).map[r.next].id = r.id
HeldInv ==
  /\ worker.pc = "store" => ~ disk[worker.file].exists
  /\ \A c \in Clients : Held(disk, client[c])

\* A text sampled under a fresh id and an id that gets torn leave every record
\* exact, wherever it is.
LEMMA FreshSample ==
  ASSUME NEW s, NEW t, \A i \in Ids : s[i] # NoBlock => t[i] = s[i], NEW x, NEW y, x \subseteq y
  PROVE  /\ SampledRecords(s, x) \subseteq SampledRecords(t, y)
         /\ \A f \in Files : RecordsIn(f, s, x) \subseteq RecordsIn(f, t, y)
<1>1. SampledRecords(s, x) \subseteq SampledRecords(t, y)
  BY TableAssumption DEF SampledRecords, Record
<1> QED
  BY <1>1 DEF RecordsIn

LEMMA ExactGrows ==
  ASSUME IInv, ExactInv, NEW t, \A i \in Ids : sampled[i] # NoBlock => t[i] = sampled[i],
         NEW y, torn \subseteq y
  PROVE  /\ FilesExact(disk, t, y) /\ WorkerExact(worker, t, y)
         /\ \A c \in Clients : ReaderExact(client[c], t, y)
<1>1. /\ SampledRecords(sampled, torn) \subseteq SampledRecords(t, y)
      /\ \A f \in Files : RecordsIn(f, sampled, torn) \subseteq RecordsIn(f, t, y)
  BY FreshSample
<1>2. FilesExact(disk, t, y)
  BY <1>1, SeqGrows DEF ExactInv, FilesExact
<1>3. WorkerExact(worker, t, y)
  <2>1. ASSUME worker.pc = "flush" PROVE worker.rest \in Seq(RecordsIn(worker.file, t, y))
    <3>1. worker.file \in Files
      BY <2>1, WorkerKinds DEF IInv, ReplayType
    <3>2. worker.rest \in Seq(RecordsIn(worker.file, sampled, torn))
      BY <2>1 DEF ExactInv, WorkerExact
    <3> QED
      BY <1>1, <3>1, <3>2, SeqGrows
  <2>2. ASSUME worker.pc = "load" PROVE worker.rest \in Seq(SampledRecords(t, y))
    <3>1. worker.rest \in Seq(SampledRecords(sampled, torn))
      BY <2>2 DEF ExactInv, WorkerExact
    <3> QED
      BY <1>1, <3>1, SeqGrows
  <2> QED
    BY <2>1, <2>2 DEF WorkerExact
<1>4. ASSUME NEW c \in Clients PROVE ReaderExact(client[c], t, y)
  <2> DEFINE r == client[c]
  <2>1. ReaderExact(r, sampled, torn) /\ r \in Readers
    BY DEF ExactInv, IInv, ReplayType
  <2> HIDE DEF r
  <2>2. ASSUME r.pc \in {"count", "record", "text"}, r.gone
        PROVE  r.copy.map \in Seq(RecordsIn(r.file, t, y))
    <3>1. r.file \in Files
      BY <2>1, <2>2, ReaderKinds DEF Opened, Reading, HalfRead
    <3>2. r.copy.map \in Seq(RecordsIn(r.file, sampled, torn))
      BY <2>1, <2>2 DEF ReaderExact
    <3> QED
      BY <1>1, <3>1, <3>2, SeqGrows
  <2>3. ReaderExact(r, t, y)
    BY <2>2 DEF ReaderExact
  <2> QED
    BY <2>3 DEF r
<1> QED
  BY <1>2, <1>3, <1>4

LEMMA PutExact ==
  ASSUME IInv, NEW x, TableExact(mem, sampled, x), NEW id \in Ids, NEW b \in Blocks,
         id \in x \/ sampled[id] = b
  PROVE  TableExact(Put(mem, id, b, "disk"), sampled, x)
<1> DEFINE r == Put(mem, id, b, "disk")
<1>1. PutResult(mem, {id}, b, r)
  BY Put_TableInv DEF IInv
<1> HIDE DEF r
<1>2. ASSUME NEW i \in Ids, r.blockOf[i] \notin {NoBlock, mem.blockOf[i]}
      PROVE  i = id /\ r.blockOf[i] = b
  BY <1>1, <1>2 DEF PutResult
<1>3. TableExact(r, sampled, x)
  BY <1>2 DEF TableExact
<1> QED
  BY <1>3 DEF r

\* What the worker writes for a text.
LEMMA MapExact ==
  ASSUME IInv, ExactInv, NEW f \in Files
  PROVE  MapOf(mem, TextOf[f]) \in Seq(RecordsIn(f, sampled, torn))
<1>1. MapOf(mem, TextOf[f]) \in Seq(RecordsOf(mem, TextOf[f]))
  BY MapType DEF IInv
<1>2. RecordsOf(mem, TextOf[f]) \subseteq RecordsIn(f, sampled, torn)
  BY TableAssumption DEF ExactInv, TableExact, RecordsOf, RecordsIn, SampledRecords, Record
<1> QED
  BY <1>1, <1>2, SeqGrows

\* What a client reads.
LEMMA ContentExact ==
  ASSUME IInv, FilesExact(disk, sampled, torn), NEW r \in Opened \cup Reading \cup HalfRead,
         ReaderExact(r, sampled, torn)
  PROVE  Content(r).map \in Seq(RecordsIn(r.file, sampled, torn))
<1>1. r.file \in Files /\ r.pc \in {"count", "record", "text"}
  BY DEF Opened, Reading, HalfRead
<1> QED
  BY <1>1 DEF FilesExact, ReaderExact, Content

\* A request of a client changes nothing but the table and that client.
LEMMA ReaderStepExact ==
  ASSUME IInv, ExactInv, NEW c \in Clients, NEW r, client' = [client EXCEPT ![c] = r],
         ReaderExact(r, sampled, torn), UNCHANGED <<disk, worker, sampled, torn>>, TableExact(mem', sampled, torn)
  PROVE  ExactInv'
BY DEF IInv, ReplayType, ExactInv

LEMMA IdleExact == WorkerExact(Idle, sampled, torn) /\ ReaderExact(Idle, sampled, torn)
BY DEF WorkerExact, ReaderExact, Idle

LEMMA Init_Exact ==
  ASSUME Init
  PROVE  ExactInv
<1>1. ASSUME NEW f \in Files PROVE disk[f].map \in Seq(RecordsIn(f, sampled, torn))
  <2>1. disk[f].map = <<>>
    BY DEF Init, NoFile
  <2> QED
    BY <2>1
<1>2. \A i \in Ids : mem.blockOf[i] = NoBlock
  BY DEF Init, EmptyTable
<1> QED
  BY <1>1, <1>2, IdleExact DEF Init, ExactInv, TableExact, FilesExact

LEMMA Remember_Exact ==
  ASSUME IInv, ExactInv, NEW ids \in Messages, NEW b \in Blocks, Remember(ids, b)
  PROVE  ExactInv'
<1>1. PutResult(mem, ToSet(ids), b, mem')
  BY MessageType, RememberAll_TableInv DEF IInv, Remember
<1>2. \A i \in Ids : sampled'[i] = IF i \in ToSet(ids) THEN b ELSE sampled[i]
  BY DEF Remember
<1>3. \A i \in ToSet(ids) : sampled[i] = NoBlock
  BY DEF Remember
<1>4. TableExact(mem', sampled', torn)
  BY <1>1, <1>2, <1>3 DEF ExactInv, TableExact, PutResult
<1>5. \A i \in Ids : sampled[i] # NoBlock => sampled'[i] = sampled[i]
  BY <1>2, <1>3
<1>6. FilesExact(disk, sampled', torn) /\ WorkerExact(worker, sampled', torn)
      /\ \A c \in Clients : ReaderExact(client[c], sampled', torn)
  BY <1>5, ExactGrows
<1> QED
  BY <1>4, <1>6 DEF Remember, ExactInv

LEMMA StoreRename_Exact ==
  ASSUME IInv, ExactInv, StoreRename
  PROVE  ExactInv'
<1> DEFINE f == worker.file
           map == MapOf(mem, TextOf[f])
<1>1. f \in Files
  BY WorkerKinds DEF IInv, ReplayType, StoreRename
<1>2. map \in Seq(RecordsIn(f, sampled, torn))
  BY <1>1, MapExact
<1>3. disk' = [disk EXCEPT ![f] = [flag |-> worker.flag, count |-> Len(map), map |-> map,
                                   exists |-> TRUE]]
  BY DEF StoreRename
<1> HIDE DEF map, f
<1>4. FilesExact(disk', sampled, torn)
  BY <1>1, <1>2, <1>3 DEF IInv, ReplayType, ExactInv, FilesExact
<1> QED
  BY <1>4, IdleExact DEF StoreRename, ExactInv

LEMMA RewriteTruncate_Exact ==
  ASSUME IInv, ExactInv, RewriteTruncate
  PROVE  ExactInv'
<1>1. worker \in [pc : {"truncate", "write"}, file : Files]
  BY WorkerKinds DEF IInv, ReplayType, RewriteTruncate
<1>2. WorkerExact(worker', sampled, torn)
  BY <1>1 DEF RewriteTruncate, WorkerExact
<1>3. FilesExact(disk', sampled, torn)
  <2> DEFINE f == worker.file
  <2>1. f \in Files /\ disk[f] \in DiskFile
    BY <1>1 DEF IInv, ReplayType
  <2>2. disk' = [disk EXCEPT ![f].map = <<>>, ![f].count = 0]
    BY DEF RewriteTruncate
  <2>3. <<>> \in Seq(RecordsIn(f, sampled, torn))
    OBVIOUS
  <2> HIDE DEF f
  <2>4. \A g \in Files : disk'[g].map \in {<<>>, disk[g].map} /\ (g # f => disk'[g].map = disk[g].map)
    BY <2>1, <2>2 DEF IInv, ReplayType, DiskFile
  <2> QED
    BY <2>3, <2>4 DEF ExactInv, FilesExact
<1>4. ASSUME NEW c \in Clients PROVE ReaderExact(client'[c], sampled, torn)
  <2> DEFINE r == client[c]
             u == CutShort(r, worker.file)
  <2>1. r \in Readers /\ ReaderExact(r, sampled, torn) /\ client'[c] = u
    BY DEF IInv, ReplayType, ExactInv, RewriteTruncate
  <2> HIDE DEF r
  <2>2. ReaderExact(u, sampled, torn)
    BY <2>1, CutReader DEF ReaderExact
  <2> QED
    BY <2>1, <2>2
<1> QED
  BY <1>2, <1>3, <1>4 DEF RewriteTruncate, ExactInv

LEMMA RewriteWrite_Exact ==
  ASSUME IInv, ExactInv, RewriteWrite
  PROVE  ExactInv'
<1> DEFINE f == worker.file
           map == MapOf(mem, TextOf[f])
<1>1. f \in Files
  BY WorkerKinds DEF IInv, ReplayType, RewriteWrite
<1>2. map \in Seq(RecordsIn(f, sampled, torn))
  BY <1>1, MapExact
<1>3. worker' = IF map = <<>> THEN Idle ELSE [pc |-> "flush", file |-> f, rest |-> map,
                                               count |-> Len(map)]
  BY DEF RewriteWrite
<1> HIDE DEF map, f
<1>4. WorkerExact(worker', sampled, torn)
  BY <1>2, <1>3, IdleExact DEF WorkerExact
<1> QED
  BY <1>4 DEF ExactInv, RewriteWrite

LEMMA RewriteFlush_Exact ==
  ASSUME IInv, ExactInv, NEW n, RewriteFlush(n)
  PROVE  ExactInv'
<1> DEFINE f == worker.file
           rest == worker.rest
           R == RecordsIn(f, sampled, torn)
<1>1. worker \in [pc : {"flush"}, file : Files, rest : Seq(Record), count : Nat]
  BY WorkerKinds DEF IInv, ReplayType, RewriteFlush
<1>2. /\ n \in 0..Len(rest) /\ rest \in Seq(R) /\ f \in Files
      /\ disk[f] \in DiskFile /\ disk[f].map \in Seq(R)
  BY <1>1 DEF RewriteFlush, ExactInv, WorkerExact, FilesExact, IInv, ReplayType
<1>3. /\ disk' = [disk EXCEPT ![f].map = disk[f].map \o SubSeq(rest, 1, n), ![f].count = worker.count]
      /\ worker' = [worker EXCEPT !.rest = SubSeq(rest, n + 1, Len(rest))]
  BY <1>1, <1>2 DEF IInv, ReplayType, RewriteFlush
<1>4. worker'.rest = SubSeq(rest, n + 1, Len(rest)) /\ worker'.pc = "flush" /\ worker'.file = f
  BY <1>1, <1>3
<1> HIDE DEF R, f, rest
<1>5. SubSeq(rest, 1, n) \in Seq(R) /\ SubSeq(rest, n + 1, Len(rest)) \in Seq(R)
  BY <1>2
<1>6. disk[f].map \o SubSeq(rest, 1, n) \in Seq(R)
  BY <1>2, <1>5
<1>7. FilesExact(disk', sampled, torn)
  <2>1. \A g \in Files : disk'[g].map = IF g = f THEN disk[f].map \o SubSeq(rest, 1, n)
                                        ELSE disk[g].map
    BY <1>2, <1>3 DEF IInv, ReplayType, DiskFile
  <2> QED
    BY <1>6, <2>1 DEF ExactInv, FilesExact, R
<1>8. WorkerExact(worker', sampled, torn)
  BY <1>4, <1>5 DEF WorkerExact, R
<1> QED
  BY <1>7, <1>8 DEF ExactInv, RewriteFlush

LEMMA RewriteHeader_Exact ==
  ASSUME IInv, ExactInv, RewriteHeader
  PROVE  ExactInv'
<1>1. worker.file \in Files
  BY WorkerKinds DEF IInv, ReplayType, RewriteHeader
<1>2. \A g \in Files : disk'[g].map = disk[g].map
  BY <1>1 DEF IInv, ReplayType, RewriteHeader, DiskFile
<1>3. FilesExact(disk', sampled, torn)
  BY <1>2 DEF ExactInv, FilesExact
<1> QED
  BY <1>3, IdleExact DEF RewriteHeader, ExactInv

LEMMA Unlink_Exact ==
  ASSUME IInv, ExactInv, NEW f \in Files, Unlink(f)
  PROVE  ExactInv'
<1>1. FilesExact(disk', sampled, torn)
  <2>1. <<>> \in Seq(RecordsIn(f, sampled, torn))
    OBVIOUS
  <2>2. \A g \in Files : disk'[g].map = IF g = f THEN <<>> ELSE disk[g].map
    BY DEF IInv, ReplayType, Unlink, NoFile
  <2> QED
    BY <2>1, <2>2 DEF ExactInv, FilesExact
<1>2. ASSUME NEW c \in Clients PROVE ReaderExact(client'[c], sampled, torn)
  <2> DEFINE r == client[c]
             u == Unstable(r, f)
             d == Detach(u, f)
  <2>1. r \in Readers /\ ReaderExact(r, sampled, torn) /\ client'[c] = d
    BY DEF IInv, ReplayType, ExactInv, Unlink
  <2> HIDE DEF r
  <2>2. u \in Readers /\ ReaderExact(u, sampled, torn)
    BY <2>1, UnstableReader DEF ReaderExact
  <2>3. disk[f].map \in Seq(RecordsIn(f, sampled, torn)) /\ disk \in [Files -> DiskFile]
    BY DEF ExactInv, FilesExact, IInv, ReplayType
  <2> HIDE DEF u
  <2>4. /\ d.pc = u.pc
        /\ u.pc \in {"count", "record", "text"} =>
             /\ d.file = u.file
             /\ d.gone =>
                  \/ u.gone /\ d.copy = u.copy
                  \/ u.file = f /\ d.copy = disk[f]
    BY <2>2, <2>3, DetachReader
  <2> HIDE DEF d
  <2>5. ReaderExact(d, sampled, torn)
    BY <2>2, <2>3, <2>4 DEF ReaderExact
  <2> QED
    BY <2>1, <2>5
<1> QED
  BY <1>1, <1>2 DEF Unlink, ExactInv, WorkerExact

LEMMA LoadBegin_Exact ==
  ASSUME IInv, ExactInv, NEW f \in Files, LoadBegin(f)
  PROVE  ExactInv'
<1>1. disk[f].map \in Seq(SampledRecords(sampled, torn))
  BY SeqGrows DEF ExactInv, FilesExact, RecordsIn
<1>2. WorkerExact(worker', sampled, torn)
  BY <1>1 DEF LoadBegin, WorkerExact
<1> QED
  BY <1>2 DEF LoadBegin, ExactInv

LEMMA LoadRecord_Exact ==
  ASSUME IInv, ExactInv, LoadRecord
  PROVE  ExactInv'
<1>1. worker \in [pc : {"load"}, rest : Seq(Record)]
  BY WorkerKinds DEF IInv, ReplayType, LoadRecord
<1>2. worker.rest \in Seq(SampledRecords(sampled, torn))
  BY <1>1 DEF ExactInv, WorkerExact
<1>3. CASE worker.rest = <<>>
  BY <1>3, IdleExact DEF LoadRecord, ExactInv
<1>4. CASE worker.rest # <<>>
  <2> DEFINE rest == worker.rest
  <2>1. rest[1] \in SampledRecords(sampled, torn) /\ Tail(rest) \in Seq(SampledRecords(sampled, torn))
    <3> HIDE DEF rest
    <3> QED
      BY <1>2, <1>4 DEF rest
  <2>2. WorkerExact(worker', sampled, torn)
    BY <1>1, <1>4, <2>1 DEF LoadRecord, WorkerExact
  <2>3. TableExact(mem', sampled, torn)
    <3>1. /\ rest[1].id \in Ids /\ rest[1].block \in Blocks
          /\ rest[1].id \in torn \/ sampled[rest[1].id] = rest[1].block
      BY <2>1 DEF SampledRecords, Record
    <3>2. TableExact(Put(mem, rest[1].id, rest[1].block, "disk"), sampled, torn)
      BY <3>1, PutExact DEF ExactInv
    <3> QED
      BY <1>4, <3>2 DEF LoadRecord
  <2> QED
    BY <2>2, <2>3 DEF LoadRecord, ExactInv
<1> QED
  BY <1>3, <1>4

LEMMA Ask_Exact ==
  ASSUME IInv, ExactInv, NEW c \in Clients, NEW ids \in LongMessages, Ask(c, ids)
  PROVE  ExactInv'
<1> DEFINE r == [pc |-> "restore", ids |-> ids, left |-> Files, stable |-> OnDisk(disk, ids)]
<1>1. ReaderExact(r, sampled, torn)
  BY DEF ReaderExact
<1> QED
  BY <1>1, ReaderStepExact DEF Ask, ExactInv

LEMMA OpenFile_Exact ==
  ASSUME IInv, ExactInv, NEW c \in Clients, NEW f \in Files, OpenFile(c, f)
  PROVE  ExactInv'
<1> DEFINE r == client[c]
           opened == [pc |-> "count", ids |-> r.ids, left |-> r.left \ {f}, stable |-> r.stable,
                      file |-> f, gone |-> FALSE, copy |-> NoFile]
           skipped == [r EXCEPT !.left = @ \ {f}]
<1>1. r \in Asking
  BY ReaderKinds DEF IInv, ReplayType, OpenFile
<1>2. ReaderExact(opened, sampled, torn)
  BY DEF ReaderExact
<1>3. ReaderExact(skipped, sampled, torn)
  <2> HIDE DEF r
  <2>1. skipped.pc = "restore"
    BY <1>1 DEF Asking
  <2> QED
    BY <2>1 DEF ReaderExact
<1>4. client' = [client EXCEPT ![c] = IF disk[f].exists /\ disk[f].flag THEN opened ELSE skipped]
  BY DEF OpenFile
<1> HIDE DEF opened, skipped
<1> QED
  BY <1>2, <1>3, <1>4, ReaderStepExact DEF OpenFile, ExactInv

LEMMA ClosedExact ==
  ASSUME NEW r
  PROVE  ReaderExact(Closed(r), sampled, torn)
BY DEF Closed, ReaderExact

LEMMA ReadCount_Exact ==
  ASSUME IInv, ExactInv, NEW c \in Clients, ReadCount(c)
  PROVE  ExactInv'
<1> DEFINE r == client[c]
           file == Content(r)
           record == [pc |-> "record", ids |-> r.ids, left |-> r.left, stable |-> r.stable,
                      file |-> r.file, gone |-> r.gone, copy |-> r.copy, count |-> file.count,
                      next |-> 1]
<1>1. ReaderExact(r, sampled, torn) /\ r.pc = "count"
  BY DEF ExactInv, ReadCount
<1>2. client' = [client EXCEPT ![c] = IF file.count = 0 THEN Closed(r) ELSE record]
  BY DEF ReadCount
<1> HIDE DEF file, r
<1>3. ReaderExact(record, sampled, torn)
  BY <1>1 DEF ReaderExact
<1> HIDE DEF record
<1> QED
  BY <1>2, <1>3, ClosedExact, ReaderStepExact DEF ReadCount, ExactInv

\* The record a client is at.
LEMMA NextRecord ==
  ASSUME IInv, ExactInv, NEW c \in Clients, client[c].pc = "record", ~ AtEnd(client[c])
  PROVE  LET r == client[c]
             rec == Content(r).map[r.next]
         IN  /\ r \in Reading /\ r.file \in Files
             /\ rec.id \in Ids /\ rec.block \in Blocks
             /\ rec.id \in torn \/ sampled[rec.id] = rec.block
<1> DEFINE r == client[c]
           map == Content(r).map
           rec == map[r.next]
<1>1. r \in Reading /\ r.file \in Files /\ r.next \in Nat \ {0}
  BY ReaderKinds DEF IInv, ReplayType, Reading
<1>2. map \in Seq(RecordsIn(r.file, sampled, torn))
  BY <1>1, ContentExact DEF ExactInv
<1>3. r.next \in 1..Len(map)
  BY <1>1, <1>2 DEF AtEnd
<1>4. rec \in RecordsIn(r.file, sampled, torn)
  BY <1>2, <1>3
<1> HIDE DEF rec
<1>5. /\ rec.id \in Ids /\ rec.block \in Blocks
      /\ rec.id \in torn \/ sampled[rec.id] = rec.block
  BY <1>4 DEF RecordsIn, SampledRecords, Record
<1> QED
  BY <1>1, <1>5 DEF rec

LEMMA ReadRecord_Exact ==
  ASSUME IInv, ExactInv, NEW c \in Clients, ReadRecord(c)
  PROVE  ExactInv'
<1> DEFINE r == client[c]
           rec == Content(r).map[r.next]
           read == [r EXCEPT !.next = r.next + 1]
<1>1. /\ r \in Reading /\ ReaderExact(r, sampled, torn)
      /\ rec.id \in Ids /\ rec.block \in Blocks
      /\ rec.id \in torn \/ sampled[rec.id] = rec.block
  BY NextRecord DEF ReadRecord, ExactInv
<1>2. /\ mem' = IF rec.id \in ToSet(r.ids) THEN Put(mem, rec.id, rec.block, "disk") ELSE mem
      /\ client' = [client EXCEPT ![c] = read]
  BY DEF ReadRecord
<1> HIDE DEF rec
<1>3. TableExact(mem', sampled, torn)
  BY <1>1, <1>2, PutExact DEF ExactInv
<1>4. ReaderExact(read, sampled, torn)
  <2> HIDE DEF r
  <2>1. /\ read.pc = "record" /\ read.gone = r.gone /\ read.copy = r.copy /\ read.file = r.file
        /\ r.pc = "record"
    BY <1>1 DEF Reading
  <2> QED
    BY <1>1, <2>1 DEF ReaderExact
<1> HIDE DEF read
<1> QED
  BY <1>2, <1>3, <1>4, ReaderStepExact DEF ReadRecord

LEMMA ReadId_Exact ==
  ASSUME IInv, ExactInv, NEW c \in Clients, ReadId(c)
  PROVE  ExactInv'
<1> DEFINE r == client[c]
           id == Content(r).map[r.next].id
<1>1. r \in Reading /\ ReaderExact(r, sampled, torn)
  BY ReaderKinds DEF IInv, ReplayType, ReadId, ExactInv
<1>2. client' = [client EXCEPT ![c] = HalfOf(r, id)]
  BY DEF ReadId, HalfOf
<1> HIDE DEF id, r
<1>3. ReaderExact(HalfOf(r, id), sampled, torn)
  BY <1>1 DEF ReaderExact, HalfOf, Reading
<1> QED
  BY <1>2, <1>3, ReaderStepExact DEF ReadId, ExactInv

LEMMA ReadText_Exact ==
  ASSUME IInv, ExactInv, HeldInv, NEW c \in Clients, ReadText(c)
  PROVE  ExactInv'
<1> DEFINE r == client[c]
           map == Content(r).map
<1>1. r \in HalfRead /\ ReaderExact(r, sampled, torn) /\ Held(disk, r)
  BY ReaderKinds DEF IInv, ReplayType, ReadText, ExactInv, HeldInv
<1>2. map \in Seq(RecordsIn(r.file, sampled, torn)) /\ map = Seen(disk, r).map
  BY <1>1, ContentExact DEF ExactInv, Content, Seen
<1>3. r.id \in Ids /\ r.file \in Files /\ r.next \in Nat \ {0} /\ r.pc = "text" /\ r.cut \in BOOLEAN
  BY <1>1 DEF HalfRead
<1>4. /\ IF r.next > Len(map) THEN client' = [client EXCEPT ![c] = Closed(r)] /\ mem' = mem /\ torn' = torn
         ELSE /\ mem' = IF r.id \in ToSet(r.ids) THEN Put(mem, r.id, map[r.next].block, "disk") ELSE mem
              /\ torn' = IF r.cut /\ r.id \in ToSet(r.ids) THEN torn \cup {r.id} ELSE torn
              /\ client' = [client EXCEPT ![c] = NextOf(r)]
      /\ UNCHANGED <<disk, worker, sampled>>
  BY DEF ReadText, NextOf
<1>5. torn \subseteq torn'
  BY <1>4
<1>6. /\ FilesExact(disk, sampled, torn') /\ WorkerExact(worker, sampled, torn')
      /\ \A d \in Clients : ReaderExact(client[d], sampled, torn')
  BY <1>5, ExactGrows
<1>7. TableExact(mem, sampled, torn')
  BY <1>5 DEF ExactInv, TableExact
<1>8. client \in [Clients -> Readers]
  BY DEF IInv, ReplayType
<1>9. ReaderExact(r, sampled, torn')
  BY <1>6
<1> HIDE DEF map, r
<1>10. CASE r.next > Len(map)
  <2>1. client' = [client EXCEPT ![c] = Closed(r)] /\ mem' = mem /\ torn' = torn
    BY <1>4, <1>10
  <2>2. ReaderExact(Closed(r), sampled, torn')
    BY ClosedExact, <2>1
  <2>3. \A d \in Clients : ReaderExact(client'[d], sampled, torn')
    BY <1>6, <1>8, <2>1, <2>2
  <2> QED
    BY <1>4, <1>6, <1>7, <2>1, <2>3 DEF ExactInv
<1>11. CASE ~ r.next > Len(map)
  <2>1. map[r.next] \in RecordsIn(r.file, sampled, torn)
    BY <1>2, <1>3, <1>11
  <2>2. /\ map[r.next].block \in Blocks
        /\ map[r.next].id \in torn \/ sampled[map[r.next].id] = map[r.next].block
    BY <2>1 DEF RecordsIn, SampledRecords, Record
  <2>3. ASSUME r.id \in ToSet(r.ids) PROVE r.id \in torn' \/ sampled[r.id] = map[r.next].block
    <3>1. CASE r.cut
      BY <1>4, <1>11, <2>3, <3>1
    <3>2. CASE ~ r.cut
      <4>1. map[r.next].id = r.id
        BY <1>1, <1>2, <1>3, <3>2 DEF Held
      <4> QED
        BY <1>5, <2>2, <4>1
    <3> QED
      BY <3>1, <3>2
  <2>4. TableExact(mem', sampled, torn')
    <3>1. CASE r.id \in ToSet(r.ids)
      <4>1. TableExact(Put(mem, r.id, map[r.next].block, "disk"), sampled, torn')
        BY <1>3, <1>7, <2>2, <2>3, <3>1, PutExact
      <4> QED
        BY <1>4, <1>11, <3>1, <4>1
    <3>2. CASE r.id \notin ToSet(r.ids)
      BY <1>4, <1>7, <1>11, <3>2
    <3> QED
      BY <3>1, <3>2
  <2>5. ReaderExact(NextOf(r), sampled, torn')
    BY <1>3, <1>9 DEF ReaderExact, NextOf
  <2>6. client' = [client EXCEPT ![c] = NextOf(r)]
    BY <1>4, <1>11
  <2>7. \A d \in Clients : ReaderExact(client'[d], sampled, torn')
    BY <1>6, <1>8, <2>5, <2>6
  <2> QED
    BY <1>4, <1>6, <2>4, <2>7 DEF ExactInv
<1> QED
  BY <1>10, <1>11

LEMMA CloseFile_Exact ==
  ASSUME IInv, ExactInv, NEW c \in Clients, CloseFile(c)
  PROVE  ExactInv'
BY ClosedExact, ReaderStepExact DEF CloseFile, ExactInv

LEMMA Attach_Exact ==
  ASSUME IInv, ExactInv, NEW c \in Clients, Attach(c)
  PROVE  ExactInv'
<1>1. client[c].ids \in Seq(Ids)
  BY ReaderKinds DEF IInv, ReplayType, Attach, Asking
<1>2. mem'.blockOf = mem.blockOf
  BY <1>1, TouchAll_TableInv DEF Attach, IInv
<1>3. TableExact(mem', sampled, torn)
  BY <1>2 DEF ExactInv, TableExact
<1> QED
  BY <1>3, IdleExact, ReaderStepExact DEF Attach

LEMMA Crash_Exact ==
  ASSUME IInv, ExactInv, Crash
  PROVE  ExactInv'
<1>1. TableExact(mem', sampled, torn)
  BY DEF Crash, TableExact, EmptyTable
<1> QED
  BY <1>1, IdleExact DEF Crash, ExactInv

\* What readers hold.  A request of a client changes nothing but the table and
\* that client.
LEMMA ReaderHeld ==
  ASSUME IInv, HeldInv, NEW c \in Clients, NEW r, client' = [client EXCEPT ![c] = r],
         Held(disk, r), UNCHANGED <<disk, worker>>
  PROVE  HeldInv'
BY DEF IInv, ReplayType, HeldInv

LEMMA ClosedHeld ==
  ASSUME NEW r
  PROVE  Held(disk, Closed(r))
BY DEF Held, Closed

LEMMA IdleHeld ==
  ASSUME NEW d
  PROVE  Held(d, Idle)
BY DEF Held, Idle

LEMMA Init_Held ==
  ASSUME Init
  PROVE  HeldInv
BY IdleHeld DEF Init, HeldInv, Idle

LEMMA OpenFile_Held ==
  ASSUME IInv, HeldInv, NEW c \in Clients, NEW f \in Files, OpenFile(c, f)
  PROVE  HeldInv'
<1> DEFINE r == client[c]
           opened == [pc |-> "count", ids |-> r.ids, left |-> r.left \ {f}, stable |-> r.stable,
                      file |-> f, gone |-> FALSE, copy |-> NoFile]
           skipped == [r EXCEPT !.left = @ \ {f}]
<1>1. r \in Asking
  BY ReaderKinds DEF IInv, ReplayType, OpenFile
<1>2. disk[f].exists => Held(disk, opened)
  BY DEF Held
<1>3. Held(disk, skipped)
  <2> HIDE DEF r
  <2>1. skipped.pc = "restore"
    BY <1>1 DEF Asking
  <2> QED
    BY <2>1 DEF Held
<1>4. client' = [client EXCEPT ![c] = IF disk[f].exists /\ disk[f].flag THEN opened ELSE skipped]
  BY DEF OpenFile
<1> HIDE DEF opened, skipped
<1> QED
  BY <1>2, <1>3, <1>4, ReaderHeld DEF OpenFile

LEMMA ReadCount_Held ==
  ASSUME IInv, HeldInv, NEW c \in Clients, ReadCount(c)
  PROVE  HeldInv'
<1> DEFINE r == client[c]
           file == Content(r)
           record == [pc |-> "record", ids |-> r.ids, left |-> r.left, stable |-> r.stable,
                      file |-> r.file, gone |-> r.gone, copy |-> r.copy, count |-> file.count,
                      next |-> 1]
<1>1. Held(disk, r) /\ r.pc = "count"
  BY DEF HeldInv, ReadCount
<1>2. client' = [client EXCEPT ![c] = IF file.count = 0 THEN Closed(r) ELSE record]
  BY DEF ReadCount
<1> HIDE DEF file, r
<1>3. Held(disk, record)
  BY <1>1 DEF Held
<1> HIDE DEF record
<1> QED
  BY <1>2, <1>3, ClosedHeld, ReaderHeld DEF ReadCount

LEMMA ReadRecord_Held ==
  ASSUME IInv, HeldInv, NEW c \in Clients, ReadRecord(c)
  PROVE  HeldInv'
<1> DEFINE r == client[c]
           read == [r EXCEPT !.next = r.next + 1]
<1>1. Held(disk, r) /\ r.pc = "record" /\ r \in Reading
  BY ReaderKinds DEF HeldInv, ReadRecord, IInv, ReplayType
<1>2. client' = [client EXCEPT ![c] = read]
  BY DEF ReadRecord
<1> HIDE DEF r
<1>3. read.pc = "record" /\ read.gone = r.gone /\ read.file = r.file
  BY <1>1 DEF Reading
<1>4. Held(disk, read)
  BY <1>1, <1>3 DEF Held
<1> HIDE DEF read
<1> QED
  BY <1>2, <1>4, ReaderHeld DEF ReadRecord

LEMMA ReadId_Held ==
  ASSUME IInv, HeldInv, NEW c \in Clients, ReadId(c)
  PROVE  HeldInv'
<1> DEFINE r == client[c]
           map == Content(r).map
<1>1. Held(disk, r) /\ r.pc = "record" /\ r \in Reading /\ ~ AtEnd(r)
  BY ReaderKinds DEF HeldInv, ReadId, IInv, ReplayType
<1>2. r.next \in 1..Len(map) /\ map = Seen(disk, r).map
  BY <1>1, ContentType DEF IInv, DiskFile, Reading, AtEnd, Content, Seen
<1>3. client' = [client EXCEPT ![c] = HalfOf(r, map[r.next].id)]
  BY DEF ReadId, HalfOf
<1> HIDE DEF r, map
<1>4. Seen(disk, HalfOf(r, map[r.next].id)) = Seen(disk, r)
  BY DEF Seen, HalfOf
<1>5. Held(disk, HalfOf(r, map[r.next].id))
  BY <1>1, <1>2, <1>4 DEF Held, HalfOf
<1> QED
  BY <1>3, <1>5, ReaderHeld DEF ReadId

LEMMA ReadText_Held ==
  ASSUME IInv, HeldInv, NEW c \in Clients, ReadText(c)
  PROVE  HeldInv'
<1> DEFINE r == client[c]
<1>1. Held(disk, r) /\ r.pc = "text"
  BY DEF HeldInv, ReadText
<1>2. /\ client' = [client EXCEPT ![c] = Closed(r)] \/ client' = [client EXCEPT ![c] = NextOf(r)]
      /\ UNCHANGED <<disk, worker>>
  BY DEF ReadText, NextOf
<1> HIDE DEF r
<1>3. Held(disk, NextOf(r))
  BY <1>1 DEF Held, NextOf
<1> QED
  BY <1>2, <1>3, ClosedHeld, ReaderHeld

\* A client closes its file, or asks, or attaches.
LEMMA OtherReader_Held ==
  ASSUME IInv, HeldInv, NEW c \in Clients,
         CloseFile(c) \/ Attach(c) \/ \E ids \in LongMessages : Ask(c, ids)
  PROVE  HeldInv'
<1>1. CASE CloseFile(c)
  BY <1>1, ClosedHeld, ReaderHeld DEF CloseFile
<1>2. CASE Attach(c)
  BY <1>2, IdleHeld, ReaderHeld DEF Attach
<1>3. ASSUME NEW ids \in LongMessages, Ask(c, ids) PROVE HeldInv'
  <2> DEFINE r == [pc |-> "restore", ids |-> ids, left |-> Files, stable |-> OnDisk(disk, ids)]
  <2>1. Held(disk, r)
    BY DEF Held
  <2> QED
    BY <1>3, <2>1, ReaderHeld DEF Ask
<1> QED
  BY <1>1, <1>2, <1>3

\* A file that is stored under a new name has no reader.
LEMMA StoreRename_Held ==
  ASSUME IInv, HeldInv, StoreRename
  PROVE  HeldInv'
<1> DEFINE f == worker.file
<1>1. f \in Files /\ ~ disk[f].exists
  BY WorkerKinds DEF IInv, ReplayType, StoreRename, HeldInv
<1>2. \A g \in Files : g # f => disk'[g] = disk[g]
  BY DEF IInv, ReplayType, StoreRename
<1>3. ASSUME NEW c \in Clients PROVE Held(disk', client'[c])
  <2> DEFINE r == client[c]
  <2>1. Held(disk, r) /\ r \in Readers /\ client' = client
    BY DEF HeldInv, IInv, ReplayType, StoreRename
  <2> HIDE DEF r
  <2>2. r.pc \in {"count", "record", "text"} /\ ~ r.gone => r.file \in Files /\ r.file # f
    BY <1>1, <2>1, ReaderKinds DEF Opened, Reading, HalfRead, Held
  <2>3. Held(disk', r)
    BY <1>2, <2>1, <2>2 DEF Held, Seen
  <2> QED
    BY <2>1, <2>3 DEF r
<1> QED
  BY <1>3 DEF StoreRename, HeldInv, Idle

\* A file that is cut short takes the record away from those who are inside it.
LEMMA RewriteTruncate_Held ==
  ASSUME IInv, HeldInv, RewriteTruncate
  PROVE  HeldInv'
<1> DEFINE f == worker.file
<1>1. f \in Files /\ worker \in [pc : {"truncate", "write"}, file : Files]
  BY WorkerKinds DEF IInv, ReplayType, RewriteTruncate
<1>2. /\ \A g \in Files : disk'[g].exists = disk[g].exists
      /\ \A g \in Files : g # f => disk'[g] = disk[g]
  BY <1>1 DEF IInv, ReplayType, RewriteTruncate, DiskFile
<1>3. worker'.pc = "write"
  BY <1>1 DEF RewriteTruncate
<1>4. ASSUME NEW c \in Clients PROVE Held(disk', client'[c])
  <2> DEFINE r == client[c]
             v == CutShort(r, f)
  <2>1. Held(disk, r) /\ r \in Readers /\ client'[c] = v
    BY DEF HeldInv, IInv, ReplayType, RewriteTruncate
  <2> HIDE DEF r
  <2>2. /\ v.pc = r.pc
        /\ r.pc \in {"count", "record", "text"} => v.file = r.file /\ v.gone = r.gone /\ v.copy = r.copy
        /\ r.pc = "text" => /\ v.id = r.id /\ v.next = r.next
                            /\ v.cut = (r.cut \/ (r.file = f /\ ~ r.gone))
    BY <2>1, CutReader
  <2>3. r.pc \in {"count", "record", "text"} => r.file \in Files
    BY <2>1, ReaderKinds DEF Opened, Reading, HalfRead
  <2> HIDE DEF v, f
  <2>4. v.pc \in {"count", "record", "text"} /\ ~ v.gone => disk'[v.file].exists
    BY <1>2, <2>1, <2>2, <2>3 DEF Held
  <2>5. ASSUME v.pc = "text", ~ v.cut
        PROVE  v.next \in 1..Len(Seen(disk', v).map) /\ Seen(disk', v).map[v.next].id = v.id
    <3>1. Seen(disk', v) = Seen(disk, r)
      BY <1>2, <2>2, <2>3, <2>5 DEF Seen
    <3> QED
      BY <2>1, <2>2, <2>5, <3>1 DEF Held
  <2> QED
    BY <2>1, <2>4, <2>5 DEF Held
<1> QED
  BY <1>3, <1>4 DEF HeldInv

\* The worker adds records to a file, or sets its flag.
LEMMA FileGrows_Held ==
  ASSUME IInv, HeldInv, NEW n, RewriteFlush(n) \/ RewriteHeader
  PROVE  HeldInv'
<1> DEFINE f == worker.file
<1>1. worker \in [pc : {"flush"}, file : Files, rest : Seq(Record), count : Nat]
  BY WorkerKinds DEF IInv, ReplayType, RewriteFlush, RewriteHeader
<1>2. \A g \in Files : /\ disk'[g].exists = disk[g].exists
                       /\ Len(disk'[g].map) >= Len(disk[g].map) /\ Len(disk'[g].map) \in Nat
                       /\ \A k \in 1..Len(disk[g].map) : disk'[g].map[k] = disk[g].map[k]
  <2>1. CASE RewriteHeader
    <3>1. \A g \in Files : disk'[g].exists = disk[g].exists /\ disk'[g].map = disk[g].map
      BY <1>1, <2>1 DEF IInv, ReplayType, RewriteHeader, DiskFile
    <3>2. \A g \in Files : disk[g].map \in Seq(Record)
      BY DEF IInv, ReplayType, DiskFile
    <3>3. \A g \in Files : Len(disk[g].map) \in Nat
      BY <3>2
    <3> QED
      BY <3>1, <3>3
  <2>2. CASE RewriteFlush(n)
    <3> DEFINE more == SubSeq(worker.rest, 1, n)
    <3>1. worker.rest \in Seq(Record) /\ n \in 0..Len(worker.rest)
      BY <1>1, <2>2 DEF RewriteFlush
    <3>2. more \in Seq(Record)
      BY <3>1
    <3>3. disk' = [disk EXCEPT ![f].map = disk[f].map \o more, ![f].count = worker.count]
      BY <1>1, <2>2 DEF IInv, ReplayType, RewriteFlush
    <3> HIDE DEF more
    <3>4. \A g \in Files : /\ disk'[g].exists = disk[g].exists
                           /\ disk'[g].map = IF g = f THEN disk[g].map \o more ELSE disk[g].map
      BY <1>1, <3>3 DEF IInv, ReplayType, DiskFile
    <3>5. ASSUME NEW g \in Files
          PROVE  /\ Len(disk'[g].map) >= Len(disk[g].map) /\ Len(disk'[g].map) \in Nat
                 /\ \A k \in 1..Len(disk[g].map) : disk'[g].map[k] = disk[g].map[k]
      <4>1. PICK old : old = disk[g].map /\ old \in Seq(Record)
        BY DEF IInv, ReplayType, DiskFile
      <4>2. disk'[g].map = old \o more \/ disk'[g].map = old
        BY <3>4, <4>1
      <4>3. /\ Len(old \o more) = Len(old) + Len(more) /\ Len(old) \in Nat /\ Len(more) \in Nat
            /\ \A k \in 1..Len(old) : (old \o more)[k] = old[k]
        BY <3>2, <4>1
      <4> QED
        BY <4>1, <4>2, <4>3
    <3> QED
      BY <3>4, <3>5
  <2> QED
    BY <2>1, <2>2
<1>3. worker'.pc # "store" /\ client' = client
  <2>1. CASE RewriteHeader
    BY <2>1 DEF RewriteHeader, Idle
  <2>2. CASE RewriteFlush(n)
    <3> DEFINE rest == SubSeq(worker.rest, n + 1, Len(worker.rest))
    <3>1. worker' = [worker EXCEPT !.rest = rest] /\ client' = client
      BY <1>1, <2>2 DEF RewriteFlush
    <3> HIDE DEF rest
    <3> QED
      BY <1>1, <3>1
  <2> QED
    BY <2>1, <2>2
<1>4. ASSUME NEW c \in Clients PROVE Held(disk', client'[c])
  <2> DEFINE r == client[c]
  <2>1. Held(disk, r) /\ r \in Readers /\ client' = client
    BY <1>3 DEF HeldInv, IInv, ReplayType
  <2> HIDE DEF r
  <2>2. r.pc \in {"count", "record", "text"} => r.file \in Files /\ r.gone \in BOOLEAN
    BY <2>1, ReaderKinds DEF Opened, Reading, HalfRead
  <2>3. ASSUME r.pc = "text", ~ r.cut
        PROVE  r.next \in 1..Len(Seen(disk', r).map) /\ Seen(disk', r).map[r.next].id = r.id
    <3>1. r.next \in 1..Len(Seen(disk, r).map) /\ Seen(disk, r).map[r.next].id = r.id
      BY <2>1, <2>3 DEF Held
    <3>2. CASE r.gone
      BY <3>1, <3>2 DEF Seen
    <3>3. CASE ~ r.gone
      <4>1. PICK g \in Files : g = r.file
        BY <2>2, <2>3
      <4>2. Seen(disk, r) = disk[g] /\ Seen(disk', r) = disk'[g]
        BY <3>3, <4>1 DEF Seen
      <4>3. PICK m \in Nat : m = Len(disk[g].map)
        BY <4>1 DEF IInv, ReplayType, DiskFile
      <4> QED
        BY <1>2, <3>1, <4>2, <4>3
    <3> QED
      BY <3>2, <3>3
  <2>4. Held(disk', r)
    BY <1>2, <2>1, <2>2, <2>3 DEF Held
  <2> QED
    BY <2>1, <2>4 DEF r
<1> QED
  BY <1>3, <1>4 DEF HeldInv

\* The readers of a removed file keep what it held.
LEMMA Unlink_Held ==
  ASSUME IInv, HeldInv, NEW f \in Files, Unlink(f)
  PROVE  HeldInv'
<1>1. /\ disk \in [Files -> DiskFile]
      /\ \A g \in Files : g # f => disk'[g] = disk[g]
  BY DEF IInv, ReplayType, Unlink
<1>2. ASSUME NEW c \in Clients PROVE Held(disk', client'[c])
  <2> DEFINE r == client[c]
             u == Unstable(r, f)
             d == Detach(u, f)
  <2>1. Held(disk, r) /\ r \in Readers /\ client'[c] = d
    BY DEF HeldInv, IInv, ReplayType, Unlink
  <2> HIDE DEF r
  <2>2. /\ u \in Readers /\ u.pc = r.pc
        /\ r.pc \in {"count", "record", "text"} => u.file = r.file /\ u.gone = r.gone /\ u.copy = r.copy
        /\ r.pc = "text" => u.id = r.id /\ u.next = r.next /\ u.cut = r.cut
    BY <2>1, UnstableReader
  <2> HIDE DEF u
  <2>3. /\ d.pc = u.pc
        /\ u.pc \in {"count", "record", "text"} =>
             /\ d.file = u.file
             /\ d.gone =>
                  \/ u.gone /\ d.copy = u.copy
                  \/ u.file = f /\ d.copy = disk[f]
             /\ d.gone = (u.gone \/ u.file = f)
             /\ u.gone => d.copy = u.copy
        /\ u.pc = "text" => d.id = u.id /\ d.next = u.next /\ d.cut = u.cut
    BY <1>1, <2>2, DetachReader
  <2> HIDE DEF d
  <2>4. r.pc \in {"count", "record", "text"} => r.file \in Files
    BY <2>1, ReaderKinds DEF Opened, Reading, HalfRead
  <2>5. d.pc \in {"count", "record", "text"} /\ ~ d.gone => disk'[d.file].exists
    BY <1>1, <2>1, <2>2, <2>3, <2>4 DEF Held
  <2>6. ASSUME d.pc = "text", ~ d.cut
        PROVE  d.next \in 1..Len(Seen(disk', d).map) /\ Seen(disk', d).map[d.next].id = d.id
    <3>1. Seen(disk', d) = Seen(disk, r)
      <4>1. CASE r.gone
        BY <2>2, <2>3, <2>6, <4>1 DEF Seen
      <4>2. CASE ~ r.gone
        BY <1>1, <2>2, <2>3, <2>4, <2>6, <4>2 DEF Seen
      <4> QED
        BY <4>1, <4>2
    <3> QED
      BY <2>1, <2>2, <2>3, <2>6, <3>1 DEF Held
  <2> QED
    BY <2>1, <2>5, <2>6 DEF Held
<1> QED
  BY <1>2 DEF Unlink, HeldInv, Idle

LEMMA Next_Exact ==
  ASSUME IInv, ExactInv, HeldInv, [Next]_vars
  PROVE  ExactInv'
<1>1. ASSUME NEW ids \in Messages, NEW b \in Blocks, Remember(ids, b) PROVE ExactInv'
  BY <1>1, Remember_Exact
<1>2. ASSUME NEW f \in Files, StoreBegin(f) \/ RewriteBegin(f) PROVE ExactInv'
  <2>1. WorkerExact(worker', sampled, torn)
    BY <1>2 DEF StoreBegin, RewriteBegin, WorkerExact
  <2> QED
    BY <1>2, <2>1 DEF StoreBegin, RewriteBegin, ExactInv
<1>3. ASSUME NEW f \in Files, Unlink(f) \/ LoadBegin(f) PROVE ExactInv'
  BY <1>3, Unlink_Exact, LoadBegin_Exact
<1>4. CASE StoreFails \/ RewriteFails
  BY <1>4, IdleExact DEF StoreFails, RewriteFails, ExactInv
<1>5. CASE StoreRename \/ RewriteTruncate \/ RewriteWrite \/ RewriteHeader
  BY <1>5, StoreRename_Exact, RewriteTruncate_Exact, RewriteWrite_Exact, RewriteHeader_Exact
<1>6. ASSUME NEW n, RewriteFlush(n) PROVE ExactInv'
  BY <1>6, RewriteFlush_Exact
<1>7. CASE LoadRecord
  BY <1>7, LoadRecord_Exact
<1>8. ASSUME NEW c \in Clients,
             \/ \E ids \in LongMessages : Ask(c, ids)
             \/ \E f \in Files : OpenFile(c, f)
             \/ ReadCount(c) \/ ReadRecord(c) \/ ReadId(c) \/ ReadText(c) \/ CloseFile(c)
             \/ Attach(c)
      PROVE  ExactInv'
  BY <1>8, Ask_Exact, OpenFile_Exact, ReadCount_Exact, ReadRecord_Exact, ReadId_Exact,
     ReadText_Exact, CloseFile_Exact, Attach_Exact
<1>9. CASE Crash
  BY <1>9, Crash_Exact
<1>10. CASE UNCHANGED vars
  BY <1>10 DEF vars, ExactInv
<1> QED
  BY <1>1, <1>2, <1>3, <1>4, <1>5, <1>6, <1>7, <1>8, <1>9, <1>10 DEF Next

LEMMA Next_Held ==
  ASSUME IInv, HeldInv, [Next]_vars
  PROVE  HeldInv'
<1>1. ASSUME NEW ids \in Messages, NEW b \in Blocks, Remember(ids, b) PROVE HeldInv'
  BY <1>1 DEF Remember, HeldInv
<1>2. ASSUME NEW f \in Files, StoreBegin(f) \/ RewriteBegin(f) \/ LoadBegin(f) PROVE HeldInv'
  BY <1>2 DEF StoreBegin, RewriteBegin, LoadBegin, HeldInv
<1>3. ASSUME NEW f \in Files, Unlink(f) PROVE HeldInv'
  BY <1>3, Unlink_Held
<1>4. CASE StoreFails \/ RewriteFails
  BY <1>4 DEF StoreFails, RewriteFails, HeldInv, Idle
<1>5. CASE StoreRename \/ RewriteTruncate \/ RewriteHeader
  BY <1>5, StoreRename_Held, RewriteTruncate_Held, FileGrows_Held
<1>6. CASE RewriteWrite
  BY <1>6 DEF RewriteWrite, HeldInv, Idle
<1>7. ASSUME NEW n, RewriteFlush(n) PROVE HeldInv'
  BY <1>7, FileGrows_Held
<1>8. CASE LoadRecord
  <2>1. worker'.pc # "store"
    <3>1. worker \in [pc : {"load"}, rest : Seq(Record)]
      BY <1>8, WorkerKinds DEF IInv, ReplayType, LoadRecord
    <3> QED
      BY <1>8, <3>1 DEF LoadRecord, Idle
  <2> QED
    BY <1>8, <2>1 DEF LoadRecord, HeldInv
<1>9. ASSUME NEW c \in Clients,
             \/ \E ids \in LongMessages : Ask(c, ids)
             \/ \E f \in Files : OpenFile(c, f)
             \/ ReadCount(c) \/ ReadRecord(c) \/ ReadId(c) \/ ReadText(c) \/ CloseFile(c)
             \/ Attach(c)
      PROVE  HeldInv'
  BY <1>9, OpenFile_Held, ReadCount_Held, ReadRecord_Held, ReadId_Held, ReadText_Held,
     OtherReader_Held
<1>10. CASE Crash
  BY <1>10, IdleHeld DEF Crash, HeldInv, Idle
<1>11. CASE UNCHANGED vars
  BY <1>11 DEF vars, HeldInv
<1> QED
  BY <1>1, <1>2, <1>3, <1>4, <1>5, <1>6, <1>7, <1>8, <1>9, <1>10, <1>11 DEF Next

\* Every record on its way is exact, and every reader finds what it holds.
LEMMA ReplayRecords == Spec => [](IInv /\ ExactInv /\ HeldInv)
<1>1. Init => IInv /\ ExactInv /\ HeldInv
  BY Init_IInv, Init_Exact, Init_Held
<1>2. IInv /\ ExactInv /\ HeldInv /\ [Next]_vars => (IInv /\ ExactInv /\ HeldInv)'
  BY Next_IInv, Next_Exact, Next_Held
<1> QED
  BY <1>1, <1>2, PTL DEF Spec

\* An id never leads to anything but the text the model sampled under it, unless a
\* client thread took its text from a file that kv_cache_rewrite_tool_map() had cut
\* short after the thread read the id (kv_tool_map_load_from_pos()): no other order
\* of remembering, storing, rewriting, loading and reading, and no crash between
\* them, replays a wrong text.
THEOREM ReplayIsExact == Spec => []ReplayExact
<1>1. ExactInv => ReplayExact
  BY DEF ExactInv, TableExact, ReplayExact
<1> QED
  BY <1>1, ReplayRecords, PTL

\* The cache files hold blocks of their own text only, each under an id that was
\* sampled with it or is torn, also when a rewrite is half done or a crash has cut a
\* map short (kv_tool_map_write(), kv_cache_rewrite_tool_map()).
THEOREM MapsAreExact == Spec => []MapsExact
<1>1. ASSUME ExactInv, NEW f \in Files, NEW k \in 1..Len(disk[f].map)
      PROVE  /\ disk[f].map[k].id \notin torn => sampled[disk[f].map[k].id] = disk[f].map[k].block
             /\ disk[f].map[k].block \in ToSet(TextOf[f])
  <2>1. disk[f].map \in Seq(RecordsIn(f, sampled, torn))
    BY <1>1 DEF ExactInv, FilesExact
  <2>2. disk[f].map[k] \in RecordsIn(f, sampled, torn)
    BY <2>1
  <2> QED
    BY <2>2 DEF RecordsIn, SampledRecords
<1>2. ExactInv => MapsExact
  BY <1>1 DEF MapsExact
<1> QED
  BY <1>2, ReplayRecords, PTL
=============================================================================
