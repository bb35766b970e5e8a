--------------------------- MODULE KVServerProofs ---------------------------
(***************************************************************************)
(* Proofs about KVServer, for every vocabulary, every set of requests,     *)
(* every option of the cache and every number of requests and faults:      *)
(* cache files hold what their name says and fit the budget, decoding      *)
(* always continues the bytes of the request, and the session is saved     *)
(* before it is replaced.                                                  *)
(***************************************************************************)
EXTENDS KVServer, SessionProofs, FiniteSetTheorems, SequenceTheorems

-----------------------------------------------------------------------------
(* The size of the files, as a sum that takes them in any order. *)

AddFile(p, f, t) == FileSize(f) + t
AnyOf(T) == CHOOSE x \in T : TRUE
IsSize(p, T, t) == t \in Nat

FilesSum == INSTANCE Iteration WITH Op <- AddFile, Pick <- AnyOf, Holds <- IsSize

-----------------------------------------------------------------------------
(* Texts as the concatenation of their tokens: what FlattenSeq of the community *)
(* modules computes, for sequences of any length. *)

\* f holds the concatenations of the first elements of s, up to n of them.
Concats(f, s, n) ==
  \A i \in 1..n : f[i] = IF i = 1 THEN s[i] ELSE f[i - 1] \o s[i]

LEMMA ConcatsExist ==
  ASSUME NEW C, NEW s \in Seq(Seq(C)), NEW n \in 0..Len(s)
  PROVE  \E f \in [1..n -> Seq(C)] : Concats(f, s, n)
<1> DEFINE Good(k) == \E f \in [1..k -> Seq(C)] : Concats(f, s, k)
           Bad == {k \in 0..Len(s) : ~Good(k)}
<1>1. Good(0)
  <2> DEFINE g == [i \in 1..0 |-> <<>>]
  <2>1. g \in [1..0 -> Seq(C)] /\ 1..0 = {}
    OBVIOUS
  <2> HIDE DEF g
  <2>2. Concats(g, s, 0)
    BY <2>1 DEF Concats
  <2> QED
    BY <2>1, <2>2
<1>2. ASSUME NEW k \in 0..Len(s), k + 1 <= Len(s), Good(k)
      PROVE  Good(k + 1)
  <2>1. PICK f \in [1..k -> Seq(C)] : Concats(f, s, k)
    BY <1>2
  <2> DEFINE last == IF k = 0 THEN s[1] ELSE f[k] \o s[k + 1]
             g == [i \in 1..(k + 1) |-> IF i = k + 1 THEN last ELSE f[i]]
  <2>2. s[k + 1] \in Seq(C)
    BY <1>2
  <2>3. last \in Seq(C)
    BY <2>2
  <2>4. g \in [1..(k + 1) -> Seq(C)]
    BY <2>3
  <2>5. ASSUME NEW i \in 1..(k + 1)
        PROVE  g[i] = IF i = 1 THEN s[i] ELSE g[i - 1] \o s[i]
    <3>1. CASE i = k + 1
      <4>1. i = 1 => k = 0 /\ g[i] = s[i]
        BY <3>1
      <4>2. i # 1 => k # 0 /\ i - 1 = k /\ k \in 1..(k + 1) /\ g[i - 1] = f[k]
        BY <3>1
      <4>3. i # 1 => g[i] = f[k] \o s[i]
        BY <3>1, <4>2
      <4> QED
        BY <4>1, <4>2, <4>3
    <3>2. CASE i # k + 1
      <4>1. i \in 1..k /\ g[i] = f[i]
        BY <3>2
      <4>2. i # 1 => i - 1 \in 1..k /\ g[i - 1] = f[i - 1]
        BY <4>1
      <4>3. f[i] = IF i = 1 THEN s[i] ELSE f[i - 1] \o s[i]
        BY <2>1, <4>1 DEF Concats
      <4> HIDE DEF g
      <4> QED
        BY <4>1, <4>2, <4>3
    <3> QED
      BY <3>1, <3>2
  <2> HIDE DEF g
  <2>6. Concats(g, s, k + 1)
    BY <2>5 DEF Concats
  <2> QED
    BY <2>4, <2>6
<1> HIDE DEF Good
<1>3. Bad = {}
  <2>1. SUFFICES ASSUME Bad # {} PROVE FALSE
    OBVIOUS
  <2>2. Bad \subseteq Nat
    OBVIOUS
  <2>3. PICK m \in Bad : \A k \in Bad : m <= k
    <3> HIDE DEF Bad
    <3> QED
      BY <2>1, <2>2, FilesSum!Least
  <2>4. m # 0
    BY <1>1
  <2>5. m - 1 \in 0..Len(s) /\ m - 1 \notin Bad
    BY <2>3, <2>4
  <2>6. Good(m - 1)
    BY <2>5
  <2>7. Good((m - 1) + 1)
    BY <1>2, <2>5, <2>6
  <2> QED
    BY <2>7
<1>4. Good(n)
  BY <1>3
<1> QED
  BY <1>4 DEF Good

\* FlattenSeq is the last of them.
LEMMA FlattenIsConcat ==
  ASSUME NEW C, NEW s \in Seq(Seq(C)), s # <<>>
  PROVE  \E f \in [1..Len(s) -> Seq(C)] : Concats(f, s, Len(s)) /\ FlattenSeq(s) = f[Len(s)]
<1> DEFINE n == Len(s)
           Def(f) == [i \in 1..n |-> IF i = 1 THEN s[i] ELSE f[i - 1] \o s[i]]
           flat == CHOOSE f : f = Def(f)
<1>1. n \in Nat \ {0}
  OBVIOUS
<1>2. PICK f \in [1..n -> Seq(C)] : Concats(f, s, n)
  <2>1. Len(s) \in 0..Len(s)
    BY <1>1
  <2> QED
    BY <2>1, ConcatsExist
<1>3. f = Def(f)
  BY <1>2 DEF Concats
<1>4. flat = Def(flat)
  BY <1>3
<1>5. FlattenSeq(s) = flat[n]
  BY <1>1 DEF FlattenSeq
<1>6. ASSUME NEW g, g = Def(g)
      PROVE  \A i \in 1..n : g[i] = f[i]
  <2> DEFINE Differ == {i \in 1..n : g[i] # f[i]}
  <2>1. SUFFICES ASSUME Differ # {} PROVE FALSE
    OBVIOUS
  <2>2. PICK m \in Differ : \A k \in Differ : m <= k
    <3>1. Differ \subseteq Nat
      OBVIOUS
    <3> HIDE DEF Differ
    <3> QED
      BY <2>1, <3>1, FilesSum!Least
  <2>3. g[m] = IF m = 1 THEN s[m] ELSE g[m - 1] \o s[m]
    BY <1>6
  <2>4. m # 1 => g[m - 1] = f[m - 1]
    BY <2>2
  <2>5. f[m] = IF m = 1 THEN s[m] ELSE f[m - 1] \o s[m]
    BY <1>2, <2>2 DEF Concats
  <2>6. g[m] # f[m]
    BY <2>2
  <2> HIDE DEF Differ
  <2> QED
    BY <2>3, <2>4, <2>5, <2>6
<1>7. flat[n] = f[n]
  <2> HIDE DEF flat
  <2> QED
    BY <1>1, <1>4, <1>6
<1> QED
  BY <1>2, <1>5, <1>7

LEMMA FlattenEmpty == FlattenSeq(<<>>) = <<>>
BY DEF FlattenSeq

LEMMA FlattenType ==
  ASSUME NEW C, NEW s \in Seq(Seq(C))
  PROVE  FlattenSeq(s) \in Seq(C)
<1>1. CASE s = <<>>
  <2>1. <<>> \in Seq(C)
    OBVIOUS
  <2> QED
    BY <1>1, <2>1, FlattenEmpty
<1>2. CASE s # <<>>
  <2>1. PICK f \in [1..Len(s) -> Seq(C)] : FlattenSeq(s) = f[Len(s)]
    BY <1>2, FlattenIsConcat
  <2>2. Len(s) \in 1..Len(s)
    BY <1>2
  <2> QED
    BY <2>1, <2>2
<1> QED
  BY <1>1, <1>2

LEMMA FlattenLonger ==
  ASSUME NEW C, NEW s \in Seq(Seq(C)), NEW t \in Seq(Seq(C)), NEW n \in Nat \ {0},
         Len(s) = n, Len(t) = n + 1, \A i \in 1..n : t[i] = s[i]
  PROVE  FlattenSeq(t) = FlattenSeq(s) \o t[n + 1]
<1>1. s # <<>> /\ t # <<>>
  OBVIOUS
<1>2. PICK f \in [1..n -> Seq(C)] : Concats(f, s, n) /\ FlattenSeq(s) = f[n]
  BY <1>1, FlattenIsConcat
<1>3. PICK h \in [1..(n + 1) -> Seq(C)] : Concats(h, t, n + 1) /\ FlattenSeq(t) = h[n + 1]
  BY <1>1, FlattenIsConcat
<1> DEFINE Differ == {i \in 1..n : h[i] # f[i]}
<1>4. Differ = {}
  <2>1. SUFFICES ASSUME Differ # {} PROVE FALSE
    OBVIOUS
  <2>2. PICK m \in Differ : \A k \in Differ : m <= k
    <3>1. Differ \subseteq Nat
      OBVIOUS
    <3> HIDE DEF Differ
    <3> QED
      BY <2>1, <3>1, FilesSum!Least
  <2>3. m \in 1..n /\ m \in 1..(n + 1) /\ h[m] # f[m] /\ t[m] = s[m]
    BY <2>2
  <2>4. h[m] = IF m = 1 THEN t[m] ELSE h[m - 1] \o t[m]
    BY <1>3, <2>3 DEF Concats
  <2>5. f[m] = IF m = 1 THEN s[m] ELSE f[m - 1] \o s[m]
    BY <1>2, <2>3 DEF Concats
  <2>6. m # 1 => h[m - 1] = f[m - 1]
    BY <2>2, <2>3
  <2> HIDE DEF Differ
  <2> QED
    BY <2>3, <2>4, <2>5, <2>6
<1>5. h[n] = f[n]
  <2>1. n \in 1..n
    BY <1>1
  <2> QED
    BY <1>4, <2>1
<1>6. h[n + 1] = h[n] \o t[n + 1]
  <2>1. n + 1 \in 1..(n + 1) /\ n + 1 # 1 /\ (n + 1) - 1 = n
    OBVIOUS
  <2> QED
    BY <1>3, <2>1 DEF Concats
<1> QED
  BY <1>2, <1>3, <1>5, <1>6

LEMMA FlattenSingle ==
  ASSUME NEW C, NEW e \in Seq(C)
  PROVE  FlattenSeq(<<e>>) = e
<1>1. <<e>> \in Seq(Seq(C)) /\ <<e>> # <<>> /\ Len(<<e>>) = 1 /\ <<e>>[1] = e
  OBVIOUS
<1>2. PICK f \in [1..1 -> Seq(C)] : Concats(f, <<e>>, 1) /\ FlattenSeq(<<e>>) = f[1]
  BY <1>1, FlattenIsConcat
<1> QED
  BY <1>1, <1>2 DEF Concats

\* One more token adds its text.
LEMMA FlattenAppend ==
  ASSUME NEW C, NEW s \in Seq(Seq(C)), NEW e \in Seq(C)
  PROVE  FlattenSeq(Append(s, e)) = FlattenSeq(s) \o e
<1>1. CASE s = <<>>
  <2>1. Append(s, e) = <<e>> /\ <<>> \o e = e
    BY <1>1
  <2> QED
    BY <1>1, <2>1, FlattenSingle, FlattenEmpty
<1>2. CASE s # <<>>
  <2>1. /\ Append(s, e) \in Seq(Seq(C)) /\ Len(s) \in Nat \ {0} /\ Len(Append(s, e)) = Len(s) + 1
        /\ \A i \in 1..Len(s) : Append(s, e)[i] = s[i]
        /\ Append(s, e)[Len(s) + 1] = e
    BY <1>2
  <2> QED
    BY <2>1, FlattenLonger
<1> QED
  BY <1>1, <1>2

LEMMA Associative ==
  ASSUME NEW S
  PROVE  \A a, b, c \in Seq(S) : (a \o b) \o c = a \o (b \o c)
BY ConcatAssociative

\* The text of two parts is the texts of the parts.
LEMMA FlattenConcat ==
  ASSUME NEW C, NEW s \in Seq(Seq(C)), NEW t \in Seq(Seq(C))
  PROVE  FlattenSeq(s \o t) = FlattenSeq(s) \o FlattenSeq(t)
<1> DEFINE P(k) == SubSeq(t, 1, k)
           Good(k) == FlattenSeq(s \o P(k)) = FlattenSeq(s) \o FlattenSeq(P(k))
           Bad == {k \in 0..Len(t) : ~Good(k)}
<1>1. Good(0)
  <2>1. P(0) = <<>> /\ s \o <<>> = s
    BY SubSeqEmpty
  <2>2. FlattenSeq(s) \o <<>> = FlattenSeq(s)
    BY FlattenType, ConcatEmptySeq
  <2> QED
    BY <2>1, <2>2, FlattenEmpty
<1>2. ASSUME NEW k \in 0..Len(t), k + 1 <= Len(t), Good(k)
      PROVE  Good(k + 1)
  <2>1. t[k + 1] \in Seq(C) /\ P(k) \in Seq(Seq(C)) /\ s \o P(k) \in Seq(Seq(C))
    BY <1>2
  <2>2. P(k + 1) = Append(P(k), t[k + 1])
    BY <1>2
  <2> HIDE DEF P
  <2>3. s \o P(k + 1) = Append(s \o P(k), t[k + 1])
    <3>1. /\ Append(P(k), t[k + 1]) = P(k) \o <<t[k + 1]>>
          /\ Append(s \o P(k), t[k + 1]) = (s \o P(k)) \o <<t[k + 1]>>
      BY <2>1, AppendIsConcat
    <3>2. <<t[k + 1]>> \in Seq(Seq(C))
      BY <2>1
    <3>3. \A a, b, c \in Seq(Seq(C)) : (a \o b) \o c = a \o (b \o c)
      <4> DEFINE S == Seq(C)
      <4> HIDE DEF S
      <4>1. \A a, b, c \in Seq(S) : (a \o b) \o c = a \o (b \o c)
        BY Associative
      <4> QED
        BY <4>1 DEF S
    <3>4. (s \o P(k)) \o <<t[k + 1]>> = s \o (P(k) \o <<t[k + 1]>>)
      BY <2>1, <3>2, <3>3
    <3> QED
      BY <2>2, <3>1, <3>4
  <2>4. FlattenSeq(P(k + 1)) = FlattenSeq(P(k)) \o t[k + 1]
    BY <2>1, <2>2, FlattenAppend
  <2>5. FlattenSeq(s \o P(k + 1)) = FlattenSeq(s \o P(k)) \o t[k + 1]
    BY <2>1, <2>3, FlattenAppend
  <2>6. (FlattenSeq(s) \o FlattenSeq(P(k))) \o t[k + 1] = FlattenSeq(s) \o (FlattenSeq(P(k)) \o t[k + 1])
    <3>1. FlattenSeq(s) \in Seq(C) /\ FlattenSeq(P(k)) \in Seq(C)
      BY <2>1, FlattenType
    <3>2. \A a, b, c \in Seq(C) : (a \o b) \o c = a \o (b \o c)
      BY Associative
    <3> QED
      BY <2>1, <3>1, <3>2
  <2> QED
    BY <1>2, <2>4, <2>5, <2>6
<1>3. Bad = {}
  <2> HIDE DEF Good
  <2>1. SUFFICES ASSUME Bad # {} PROVE FALSE
    OBVIOUS
  <2>2. PICK m \in Bad : \A k \in Bad : m <= k
    <3>1. Bad \subseteq Nat
      OBVIOUS
    <3> HIDE DEF Bad
    <3> QED
      BY <2>1, <3>1, FilesSum!Least
  <2>3. m # 0
    BY <1>1
  <2>4. m - 1 \in 0..Len(t) /\ m - 1 \notin Bad
    BY <2>2, <2>3
  <2>5. Good(m - 1)
    BY <2>4
  <2>6. Good((m - 1) + 1)
    BY <1>2, <2>4, <2>5
  <2> QED
    BY <2>6
<1>4. Good(Len(t)) /\ P(Len(t)) = t
  <2>1. Len(t) \in 0..Len(t) /\ P(Len(t)) = t
    OBVIOUS
  <2> HIDE DEF Good
  <2> QED
    BY <1>3, <2>1
<1> QED
  BY <1>4

\* A text that begins with another is that one and the rest.
LEMMA PrefixAndRest ==
  ASSUME NEW C, NEW s \in Seq(C), NEW p \in Seq(C), Len(p) <= Len(s), SubSeq(s, 1, Len(p)) = p
  PROVE  /\ SubSeq(s, Len(p) + 1, Len(s)) \in Seq(C)
         /\ p \o SubSeq(s, Len(p) + 1, Len(s)) = s
OBVIOUS

-----------------------------------------------------------------------------
(* The server. *)


\* What is assumed of the tokenizer: ds4_tokenize_rendered_chat() loses nothing.
TokenizerExact(Char) ==
  /\ Token \subseteq Seq(Char) /\ Requests \subseteq Seq(Char)
  /\ Sampled \cup {ThinkOpen, ThinkClose, Eos} \subseteq Token
  /\ \A text \in Seq(Char) : Tokenize(text) \in TokenSeqs /\ Text(Tokenize(text)) = text

-----------------------------------------------------------------------------
(* The inductive invariant. *)

Phases == {"prefix", "full", "canon"}
JobSet == [text : Requests, prompt : TokenSeqs, cached : Nat, cold : Nat,
           output : TokenSeqs, phase : Phases]
FileSet == [tokens : TokenSeqs, graph : TokenSeqs \cup {Broken}, ctx : Nat, cap : Nat,
            hits : 0..MaxHits]
Returns == {"idle", "load", "sync", "full", "decode", "sample", "down"}

\* Where the worker is, a store counting as the place it returns to.
Storing == pc \in {"store", "write", "evict"}
At == IF Storing THEN store.next ELSE pc

WorkerType ==
  /\ pc \in Pcs
  /\ store \in [tokens : TokenSeqs, note : BOOLEAN, next : Returns]
  /\ ~Storing => store = NoStore
  /\ lastStore \in Nat /\ lastEvicted \in TokenSeqs
  /\ disk \subseteq FileSet
  /\ At \notin {"idle", "down"} => job \in JobSet
  /\ job \in JobSet \cup {NoJob}

\* A sync is in progress exactly while the worker is in one, or in a store made
\* by its progress callback; a file is written only of what may be saved.
Calls ==
  /\ sync # NoSync <=> At \in {"progress", "sync"}
  /\ At = "progress" \/ (Storing /\ At = "sync") => sync.progress
  /\ pc = "write" => Storable

\* What the job, the session and the sync in progress have to do with each other.
Preparing == {"lookup", "load", "evicted", "plan", "full", "progress", "sync"}
Serving ==
  /\ At \in {"decode", "sample"} =>
       valid /\ Text(checkpoint) = job.text \o Text(job.output)
  /\ At \in Preparing /\ job.phase # "canon" => Text(job.prompt) = job.text /\ job.output = <<>>
  /\ At \in {"progress", "sync"} /\ job.phase = "full" => sync.prompt = job.prompt
  /\ At \in {"lookup", "evicted", "plan"} => job.phase = "prefix"
  /\ At = "load" => job.phase \in {"prefix", "canon"}

IInv == SessionInv /\ WorkerType /\ Calls /\ FilesExact /\ Serving

-----------------------------------------------------------------------------
(* Texts. *)

LEMMA TextFacts ==
  ASSUME NEW Char, TokenizerExact(Char), NEW s \in TokenSeqs
  PROVE  s \in Seq(Seq(Char)) /\ Text(s) \in Seq(Char) /\ Len(Text(s)) \in Nat
<1>1. s \in Seq(Seq(Char))
  BY SeqMonotonic DEF TokenizerExact, TokenSeqs
<1>2. Text(s) \in Seq(Char)
  BY <1>1, FlattenType DEF Text
<1> QED
  BY <1>1, <1>2

LEMMA TextConcat ==
  ASSUME NEW Char, TokenizerExact(Char), NEW s \in TokenSeqs, NEW t \in TokenSeqs
  PROVE  s \o t \in TokenSeqs /\ Text(s \o t) = Text(s) \o Text(t)
<1>1. s \in Seq(Seq(Char)) /\ t \in Seq(Seq(Char))
  BY TextFacts
<1>2. Text(s \o t) = Text(s) \o Text(t)
  BY <1>1, FlattenConcat DEF Text
<1>3. s \o t \in TokenSeqs
  BY DEF TokenSeqs
<1> QED
  BY <1>2, <1>3

\* A sampled token adds its text, behind what was there before.
LEMMA TextAppend ==
  ASSUME NEW Char, TokenizerExact(Char), NEW s \in TokenSeqs, NEW out \in TokenSeqs,
         NEW text \in Seq(Char), NEW e \in Token, Text(s) = text \o Text(out)
  PROVE  Text(Append(s, e)) = text \o Text(Append(out, e))
<1>1. /\ s \in Seq(Seq(Char)) /\ out \in Seq(Seq(Char)) /\ e \in Seq(Char)
      /\ Text(out) \in Seq(Char)
  BY TextFacts DEF TokenizerExact
<1>2. Text(Append(s, e)) = Text(s) \o e /\ Text(Append(out, e)) = Text(out) \o e
  BY <1>1, FlattenAppend DEF Text
<1>3. (text \o Text(out)) \o e = text \o (Text(out) \o e)
  BY <1>1, Associative
<1> QED
  BY <1>2, <1>3

\* build_prompt_from_exact_prefix_and_text_suffix() spells the text.
LEMMA ContinueText ==
  ASSUME NEW Char, TokenizerExact(Char), NEW tokens \in TokenSeqs, NEW text \in Seq(Char),
         StartsWith(text, Text(tokens))
  PROVE  Continue(tokens, text) \in TokenSeqs /\ Text(Continue(tokens, text)) = text
<1> DEFINE head == Text(tokens)
           rest == Drop(text, Len(head))
<1>1. head \in Seq(Char) /\ Len(head) <= Len(text) /\ SubSeq(text, 1, Len(head)) = head
  BY TextFacts DEF StartsWith, Take
<1>2. rest \in Seq(Char) /\ head \o rest = text
  <2> HIDE DEF head
  <2> QED
    BY <1>1, PrefixAndRest DEF Drop
<1>3. Tokenize(rest) \in TokenSeqs /\ Text(Tokenize(rest)) = rest
  BY <1>2 DEF TokenizerExact
<1>4. Continue(tokens, text) = tokens \o Tokenize(rest)
  BY DEF Continue
<1> HIDE DEF head, rest
<1>5. Text(tokens) = head
  BY DEF head
<1> QED
  BY <1>2, <1>3, <1>4, <1>5, TextConcat

\* The requests and their jobs.
LEMMA JobFacts ==
  ASSUME NEW Char, TokenizerExact(Char), job \in JobSet
  PROVE  /\ job.text \in Requests /\ job.text \in Seq(Char) /\ job.prompt \in TokenSeqs
         /\ job.output \in TokenSeqs /\ job.cached \in Nat /\ job.cold \in Nat
         /\ job.phase \in Phases /\ Len(job.prompt) \in Nat
BY DEF JobSet, TokenizerExact, TokenSeqs

LEMMA WantedText ==
  ASSUME NEW Char, TokenizerExact(Char), job \in JobSet
  PROVE  Wanted \in Seq(Char) /\ Len(Wanted) \in Nat
<1>1. Wanted \in Seq(Char)
  BY JobFacts, TextFacts DEF Wanted
<1> QED
  BY <1>1

\* There is a longest file.
LEMMA BestIsCandidate ==
  ASSUME NEW Char, TokenizerExact(Char), job \in JobSet, disk \subseteq FileSet, Candidates # {}
  PROVE  Best \in Candidates
<1> DEFINE Lens == {Len(FileText(f)) : f \in Candidates}
<1>1. Len(Wanted) \in Nat
  BY WantedText
<1>2. \A f \in Candidates : f.tokens \in TokenSeqs
  BY DEF Candidates, FileSet
<1>3. Lens \in SUBSET (0..Len(Wanted))
  <2>1. ASSUME NEW f \in Candidates PROVE Len(FileText(f)) \in 0..Len(Wanted)
    <3>1. Len(FileText(f)) \in Nat
      BY <1>2, TextFacts DEF FileText
    <3>2. Len(FileText(f)) <= Len(Wanted)
      BY DEF Candidates, StartsWith
    <3> QED
      BY <1>1, <3>1, <3>2
  <2> QED
    BY <2>1
<1>4. Lens # {}
  OBVIOUS
<1>5. PICK m \in Lens : \A k \in Lens : k <= m
  <2> HIDE DEF Lens
  <2> QED
    BY <1>1, <1>3, <1>4, FilesSum!Greatest
<1>6. PICK f \in Candidates : Len(FileText(f)) = m
  BY <1>5
<1>7. \A g \in Candidates : Len(FileText(g)) <= Len(FileText(f))
  BY <1>5, <1>6
<1> QED
  BY <1>6, <1>7 DEF Best
-----------------------------------------------------------------------------
(* Files. *)

\* Fewer files are still exact.
LEMMA FewerFiles ==
  ASSUME disk \subseteq FileSet, FilesExact, disk' \subseteq disk
  PROVE  disk' \subseteq FileSet /\ FilesExact'
BY DEF FilesExact, FileText

\* A file can be loaded: its state is that of its tokens.
LEMMA FileFacts ==
  ASSUME disk \subseteq FileSet, FilesExact, NEW f \in disk
  PROVE  /\ f \in FileSet /\ f.tokens \in TokenSeqs /\ f.graph = f.tokens
         /\ f.tokens # <<>> /\ Len(f.tokens) \in Nat
<1>1. f \in FileSet /\ f.tokens \in TokenSeqs /\ f.graph = f.tokens /\ Len(f.tokens) >= MinTokens
  BY DEF FilesExact, FileSet
<1>2. Len(f.tokens) \in Nat
  BY <1>1 DEF TokenSeqs
<1> QED
  BY <1>1, <1>2, KVAssumption DEF TokenSeqs

\* What a store may save is the state of the tokens it is asked to store: also
\* from inside the progress callback.
LEMMA LiveFileExact ==
  ASSUME IInv, Storing, Storable
  PROVE  /\ LiveFile \in FileSet /\ LiveFile.graph = LiveFile.tokens
         /\ LiveFile.tokens = store.tokens /\ Len(LiveFile.tokens) >= MinTokens
<1>1. At \in Returns /\ At = store.next
  BY DEF IInv, WorkerType, At, Storing
<1>2. Observable
  BY <1>1 DEF IInv, Calls, Observable, Returns
<1>3. valid /\ graph = checkpoint /\ checkpoint = store.tokens /\ Len(store.tokens) >= MinTokens
  BY <1>2 DEF Storable, CanSave, IInv, SessionInv, GraphExact
<1>4. checkpoint \in TokenSeqs /\ conf.ctx \in Nat /\ conf.cap \in Nat /\ 0 \in 0..MaxHits
  BY Sizes, KVAssumption DEF IInv, SessionInv, SessionType
<1> QED
  BY <1>3, <1>4 DEF LiveFile, FileSet

-----------------------------------------------------------------------------
(* kv_cache_store_live_prefix() and kv_cache_evict() *)

\* A step that leaves the session and the job alone and the worker where it is.
LEMMA StayingHere ==
  ASSUME IInv, UNCHANGED <<sessionVars, job>>, At' = At, WorkerType', FilesExact',
         Storing' => Storing, (pc = "write" => Storable)'
  PROVE  IInv'
<1>1. SessionInv'
  BY Unchanged_SessionInv DEF IInv
<1>2. UNCHANGED <<conf, checkpoint, valid, graph, sync, job>>
  BY DEF sessionVars
<1>3. Calls'
  BY <1>2 DEF IInv, Calls
<1>4. Serving'
  BY <1>2 DEF IInv, Serving, Text
<1> QED
  BY <1>1, <1>3, <1>4 DEF IInv

LEMMA StoreReturns ==
  ASSUME IInv, Storing, Return, UNCHANGED <<sessionVars, job, lastEvicted>>,
         lastStore' \in Nat, disk' \subseteq FileSet, FilesExact'
  PROVE  IInv'
<1>1. store.next \in Returns /\ store \in [tokens : TokenSeqs, note : BOOLEAN, next : Returns]
  BY DEF IInv, WorkerType
<1>2. pc' = store.next /\ store' = NoStore /\ ~Storing' /\ pc' \in Pcs /\ pc' # "write"
  BY <1>1 DEF Return, Returns, Storing, Pcs
<1>3. At' = At
  BY <1>2 DEF At
<1>4. NoStore \in [tokens : TokenSeqs, note : BOOLEAN, next : Returns]
  BY DEF NoStore, TokenSeqs, Returns
<1>5. WorkerType'
  BY <1>2, <1>3, <1>4 DEF IInv, WorkerType
<1> QED
  BY <1>2, <1>3, <1>5, StayingHere

LEMMA StoreContinues ==
  ASSUME IInv, Storing, UNCHANGED <<sessionVars, job, store, lastEvicted>>,
         pc' \in {"write", "evict"}, pc' = "write" => Storable,
         lastStore' \in Nat, disk' \subseteq FileSet, FilesExact'
  PROVE  IInv'
<1>1. Storing' /\ pc' \in Pcs /\ At' = At
  BY DEF Storing, Pcs, At
<1>2. WorkerType'
  BY <1>1 DEF IInv, WorkerType
<1>3. (pc = "write" => Storable)'
  BY DEF Storable, CanSave, sessionVars
<1> QED
  BY <1>1, <1>2, <1>3, StayingHere

LEMMA NoteStoreType ==
  ASSUME WorkerType, NoteStore
  PROVE  lastStore' \in Nat
<1>1. Len(store.tokens) \in Nat /\ lastStore \in Nat
  BY DEF WorkerType, TokenSeqs
<1> QED
  BY <1>1 DEF NoteStore

LEMMA StoreSkipped_IInv ==
  ASSUME IInv, StoreSkipped
  PROVE  IInv'
<1>1. disk \subseteq FileSet /\ FilesExact /\ lastStore \in Nat
  BY DEF IInv, WorkerType
<1>2. Storing /\ Return /\ UNCHANGED <<sessionVars, job, lastStore, lastEvicted, disk>>
  BY DEF StoreSkipped, Storing
<1>3. disk' \subseteq FileSet /\ FilesExact'
  BY <1>1, <1>2, FewerFiles
<1> QED
  BY <1>1, <1>2, <1>3, StoreReturns

LEMMA StoreExists_IInv ==
  ASSUME IInv, StoreExists
  PROVE  IInv'
<1>1. disk \subseteq FileSet /\ FilesExact /\ WorkerType
  BY DEF IInv, WorkerType
<1>2. Storing /\ Return /\ NoteStore /\ UNCHANGED <<sessionVars, job, lastEvicted, disk>>
  BY DEF StoreExists, Storing
<1>3. disk' \subseteq FileSet /\ FilesExact' /\ lastStore' \in Nat
  BY <1>1, <1>2, FewerFiles, NoteStoreType
<1> QED
  BY <1>2, <1>3, StoreReturns

LEMMA StoreReplaces_IInv ==
  ASSUME IInv, StoreReplaces
  PROVE  IInv'
<1>1. disk \subseteq FileSet /\ FilesExact /\ lastStore \in Nat
  BY DEF IInv, WorkerType
<1>2. /\ Storing /\ Storable /\ pc' = "write" /\ disk' \subseteq disk
      /\ UNCHANGED <<sessionVars, job, store, lastStore, lastEvicted>>
  BY DEF StoreReplaces, Storing
<1>3. disk' \subseteq FileSet /\ FilesExact'
  BY <1>1, <1>2, FewerFiles
<1> QED
  BY <1>1, <1>2, <1>3, StoreContinues

LEMMA StoreWrite_IInv ==
  ASSUME IInv, StoreWrite
  PROVE  IInv'
<1>1. disk \subseteq FileSet /\ FilesExact /\ WorkerType /\ lastStore \in Nat
  BY DEF IInv, WorkerType
<1>2. Storing /\ Storable /\ UNCHANGED <<sessionVars, job, lastEvicted>>
  BY DEF StoreWrite, Storing, IInv, Calls
<1>3. CASE /\ disk' = (disk \ FileNamed(Text(store.tokens))) \cup {LiveFile}
           /\ NoteStore /\ pc' = "evict" /\ UNCHANGED store
  <2>1. /\ LiveFile \in FileSet /\ LiveFile.graph = LiveFile.tokens
        /\ LiveFile.tokens = store.tokens /\ Len(LiveFile.tokens) >= MinTokens
    BY <1>2, LiveFileExact
  <2>2. \A f \in disk' : f = LiveFile \/ (f \in disk /\ FileText(f) # FileText(LiveFile))
    <3> HIDE DEF LiveFile
    <3> QED
      BY <1>3, <2>1 DEF FileNamed, FileText
  <2>3. FilesExact'
    <3> HIDE DEF LiveFile
    <3> DEFINE L == LiveFile
    <3>1. /\ L.graph = L.tokens /\ Len(L.tokens) >= MinTokens
          /\ \A f \in disk' : f = L \/ (f \in disk /\ FileText(f) # FileText(L))
      BY <2>1, <2>2
    <3> HIDE DEF L
    <3> QED
      BY <1>1, <3>1 DEF FilesExact, FileText
  <2>4. disk' \subseteq FileSet
    BY <1>1, <2>1, <2>2
  <2>5. lastStore' \in Nat
    BY <1>1, <1>3, NoteStoreType
  <2> QED
    BY <1>2, <1>3, <2>3, <2>4, <2>5, StoreContinues
<1>4. CASE Return /\ UNCHANGED <<disk, lastStore>>
  <2>1. disk' \subseteq FileSet /\ FilesExact'
    BY <1>1, <1>4, FewerFiles
  <2> QED
    BY <1>1, <1>2, <1>4, <2>1, StoreReturns
<1> QED
  BY <1>3, <1>4 DEF StoreWrite

LEMMA Evict_IInv ==
  ASSUME IInv, Evict
  PROVE  IInv'
<1>1. disk \subseteq FileSet /\ FilesExact /\ lastStore \in Nat
  BY DEF IInv, WorkerType
<1>2. /\ Storing /\ disk' \subseteq disk
      /\ UNCHANGED <<sessionVars, job, lastStore, lastEvicted>>
      /\ Return \/ (pc' = "evict" /\ UNCHANGED store)
  BY DEF Evict, Storing
<1>3. disk' \subseteq FileSet /\ FilesExact'
  BY <1>1, <1>2, FewerFiles
<1>4. CASE Return
  BY <1>1, <1>2, <1>3, <1>4, StoreReturns
<1>5. CASE pc' = "evict" /\ UNCHANGED store
  BY <1>1, <1>2, <1>3, <1>5, StoreContinues
<1> QED
  BY <1>2, <1>4, <1>5

-----------------------------------------------------------------------------
(* generate_job(): where the prompt's prefix comes from *)

\* The worker's place after a step that is not part of a store.
Placed == /\ pc \in Pcs \ {"write"}
          /\ store \in [tokens : TokenSeqs, note : BOOLEAN, next : Returns]
          /\ ~Storing => store = NoStore

LEMMA GoesTo ==
  ASSUME IInv, ~Storing, pc' \in Pcs \ {"store", "write", "evict"}, UNCHANGED store
  PROVE  Placed' /\ At' = pc' /\ ~Storing'
BY DEF Placed, At, Storing, IInv, WorkerType

LEMMA GoesToStore ==
  ASSUME NEW tokens \in TokenSeqs, NEW note \in BOOLEAN, NEW next \in Returns,
         CallStore(tokens, note, next)
  PROVE  Placed' /\ At' = next /\ Storing'
BY DEF CallStore, Placed, At, Storing, Pcs

\* Outside a store, sync and the files are where the invariant says.
LEMMA Here ==
  ASSUME IInv, ~Storing
  PROVE  /\ At = pc /\ store = NoStore
         /\ sync # NoSync <=> pc \in {"progress", "sync"}
         /\ SessionInv /\ checkpoint \in TokenSeqs /\ Len(checkpoint) \in Nat
         /\ disk \subseteq FileSet /\ FilesExact
         /\ lastStore \in Nat /\ lastEvicted \in TokenSeqs
         /\ pc \notin {"idle", "down"} => job \in JobSet
         /\ job \in JobSet \cup {NoJob}
<1>1. At = pc
  BY DEF At
<1> QED
  BY <1>1 DEF IInv, WorkerType, Calls, SessionInv, SessionType, TokenSeqs

\* A step that leaves the session and the files alone and is outside a sync.
LEMMA SessionAndFilesStay ==
  ASSUME IInv, ~Storing, UNCHANGED <<sessionVars, disk>>
  PROVE  /\ SessionInv' /\ disk' \subseteq FileSet /\ FilesExact'
         /\ UNCHANGED <<conf, checkpoint, valid, graph, sync>>
<1>1. SessionInv' /\ UNCHANGED <<conf, checkpoint, valid, graph, sync>>
  BY Unchanged_SessionInv DEF IInv, sessionVars
<1>2. disk' \subseteq FileSet /\ FilesExact'
  BY Here, FewerFiles
<1> QED
  BY <1>1, <1>2

LEMMA Request_IInv ==
  ASSUME NEW Char, TokenizerExact(Char), IInv, NEW text \in Requests, Request(text)
  PROVE  IInv'
<1>1. /\ pc = "idle" /\ ~Storing /\ UNCHANGED <<sessionVars, disk>>
      /\ pc' = "lookup" /\ UNCHANGED <<store, lastStore, lastEvicted>>
      /\ job' = [text |-> text, prompt |-> Tokenize(text), cached |-> 0, cold |-> 0,
                 output |-> <<>>, phase |-> "prefix"]
  BY DEF Request, Storing
<1>2. Tokenize(text) \in TokenSeqs /\ Text(Tokenize(text)) = text /\ <<>> \in TokenSeqs
  BY EmptyCheckpoint DEF TokenizerExact
<1>3. job' \in JobSet
  BY <1>1, <1>2 DEF JobSet, Phases
<1>4. Placed' /\ At' = "lookup" /\ ~Storing'
  BY <1>1, GoesTo DEF Pcs
<1>5. Text(job'.prompt) = job'.text /\ job'.output = <<>> /\ job'.phase = "prefix"
  BY <1>1, <1>2
<1>6. Serving'
  BY <1>4, <1>5 DEF Serving, Text
<1> QED
  BY <1>1, <1>3, <1>4, <1>6, SessionAndFilesStay, Here DEF IInv, WorkerType, Calls, Placed

LEMMA LookupLive_IInv ==
  ASSUME NEW Char, TokenizerExact(Char), IInv, LookupLive
  PROVE  IInv'
<1> DEFINE prompt == IF TokenHit THEN job.prompt ELSE Continue(checkpoint, job.text)
<1>1. /\ pc = "lookup" /\ ~Storing /\ UNCHANGED <<sessionVars, disk>>
      /\ pc' = "plan" /\ UNCHANGED <<store, lastStore, lastEvicted>>
      /\ job' = [job EXCEPT !.cached = Pos, !.prompt = prompt]
      /\ TokenHit \/ TextHit
  BY DEF LookupLive, Storing
<1>2. job \in JobSet /\ Text(job.prompt) = job.text /\ job.output = <<>> /\ job.phase = "prefix"
  BY <1>1, Here DEF IInv, Serving, Preparing
<1>3. prompt \in TokenSeqs /\ Text(prompt) = job.text
  <2>1. CASE TokenHit
    BY <1>2, <2>1, JobFacts
  <2>2. CASE ~TokenHit
    <3>1. Continue(checkpoint, job.text) \in TokenSeqs
          /\ Text(Continue(checkpoint, job.text)) = job.text
      BY <1>1, <1>2, <2>2, Here, JobFacts, ContinueText DEF TextHit
    <3> QED
      BY <2>2, <3>1
  <2> QED
    BY <2>1, <2>2
<1>4. job' \in JobSet /\ job'.prompt = prompt /\ job'.text = job.text /\ job'.output = <<>>
      /\ job'.phase = "prefix"
  <2> HIDE DEF prompt
  <2> QED
    BY <1>1, <1>2, <1>3, Here DEF JobSet, Pos
<1>5. Placed' /\ At' = "plan" /\ ~Storing'
  BY <1>1, GoesTo DEF Pcs
<1> HIDE DEF prompt
<1>6. Serving'
  BY <1>3, <1>4, <1>5 DEF Serving, Text
<1> QED
  BY <1>1, <1>4, <1>5, <1>6, SessionAndFilesStay, Here DEF IInv, WorkerType, Calls, Placed

LEMMA LookupElsewhere_IInv ==
  ASSUME IInv, LookupElsewhere
  PROVE  IInv'
<1>1. /\ pc = "lookup" /\ ~Storing /\ UNCHANGED <<sessionVars, disk, job>> /\ lastStore' = 0
      /\ \/ CallStore(checkpoint, FALSE, "load") /\ lastEvicted' = checkpoint
         \/ pc' = "load" /\ UNCHANGED <<store, lastEvicted>>
  BY DEF LookupElsewhere, Storing
<1>2. Placed' /\ At' = "load" /\ lastEvicted' \in TokenSeqs
  <2>1. CASE CallStore(checkpoint, FALSE, "load") /\ lastEvicted' = checkpoint
    BY <1>1, <2>1, Here, GoesToStore DEF Returns
  <2>2. CASE pc' = "load" /\ UNCHANGED <<store, lastEvicted>>
    BY <1>1, <2>2, Here, GoesTo DEF Pcs
  <2> QED
    BY <1>1, <2>1, <2>2
<1>3. job \in JobSet /\ Text(job.prompt) = job.text /\ job.output = <<>> /\ job.phase = "prefix"
  BY <1>1, Here DEF IInv, Serving, Preparing
<1>4. Serving'
  BY <1>1, <1>2, <1>3 DEF Serving, Text
<1> QED
  BY <1>1, <1>2, <1>3, <1>4, SessionAndFilesStay, Here DEF IInv, WorkerType, Calls, Placed

\* What the invariant says of a worker that looks for a file.
LEMMA Loading ==
  ASSUME IInv, pc = "load"
  PROVE  /\ ~Storing /\ job \in JobSet /\ job.phase \in {"prefix", "canon"}
         /\ job.phase # "canon" => Text(job.prompt) = job.text /\ job.output = <<>>
         /\ AfterMiss \in {"full", "evicted"}
         /\ AfterMiss = "evicted" => job.phase = "prefix"
<1>1. ~Storing
  BY DEF Storing
<1> QED
  BY <1>1, Here DEF IInv, Serving, Preparing, AfterMiss

LEMMA LoadMisses_IInv ==
  ASSUME IInv, LoadMisses
  PROVE  IInv'
<1>1. /\ pc = "load" /\ UNCHANGED <<job, store, lastStore, lastEvicted, disk>>
      /\ pc' = AfterMiss
      /\ ds4_session_invalidate \/ UNCHANGED sessionVars
  BY DEF LoadMisses
<1>2. ~Storing /\ Placed' /\ At' = AfterMiss /\ ~Storing' /\ sync = NoSync
  BY <1>1, Loading, GoesTo, Here DEF Pcs
<1>3. SessionInv' /\ sync' = sync
  <2>1. CASE ds4_session_invalidate
    BY <1>2, <2>1, Here, Invalidate_SessionInv DEF ds4_session_invalidate
  <2>2. CASE UNCHANGED sessionVars
    BY <1>2, <2>2, Here, Unchanged_SessionInv DEF sessionVars
  <2> QED
    BY <1>1, <2>1, <2>2
<1>4. Serving'
  BY <1>1, <1>2, Loading DEF Serving, Text
<1>5. disk' \subseteq FileSet /\ FilesExact'
  BY <1>1, <1>2, Here, FewerFiles
<1> QED
  BY <1>1, <1>2, <1>3, <1>4, <1>5, Loading, Here DEF IInv, WorkerType, Calls, Placed

LEMMA LoadFails_IInv ==
  ASSUME IInv, LoadFails
  PROVE  IInv'
<1>1. /\ pc = "load" /\ UNCHANGED <<job, store, lastStore, lastEvicted, disk>>
      /\ pc' = AfterMiss /\ LoadPayloadFails
  BY DEF LoadFails
<1>2. ~Storing /\ Placed' /\ At' = AfterMiss /\ ~Storing' /\ sync = NoSync
  BY <1>1, Loading, GoesTo, Here DEF Pcs
<1>3. SessionInv' /\ sync' = sync
  BY <1>1, <1>2, Here, LoadPayloadFails_SessionInv DEF LoadPayloadFails
<1>4. Serving'
  BY <1>1, <1>2, Loading DEF Serving, Text
<1>5. disk' \subseteq FileSet /\ FilesExact'
  BY <1>1, <1>2, Here, FewerFiles
<1> QED
  BY <1>1, <1>2, <1>3, <1>4, <1>5, Loading, Here DEF IInv, WorkerType, Calls, Placed

\* Counting a hit does not touch what a file holds.
LEMMA Touched ==
  ASSUME disk \subseteq FileSet, FilesExact, NEW f \in disk, NEW n \in 0..MaxHits,
         disk' \subseteq (disk \ {f}) \cup {[f EXCEPT !.hits = n]}
  PROVE  disk' \subseteq FileSet /\ FilesExact'
<1> DEFINE g == [f EXCEPT !.hits = n]
<1>1. g \in FileSet /\ g.tokens = f.tokens /\ g.graph = f.graph
  BY DEF FileSet
<1>2. \A h \in disk' : h = g \/ (h \in disk /\ h # f)
  OBVIOUS
<1> HIDE DEF g
<1>3. disk' \subseteq FileSet
  BY <1>1, <1>2
<1>4. FilesExact'
  BY <1>1, <1>2 DEF FilesExact, FileText
<1> QED
  BY <1>3, <1>4

LEMMA LoadHits_IInv ==
  ASSUME NEW Char, TokenizerExact(Char), IInv, LoadHits
  PROVE  IInv'
<1> DEFINE f == Best
           n == Min2(f.hits + 1, MaxHits)
           cached == IF job.phase = "canon" THEN job.cached ELSE Len(f.tokens)
           prompt == Continue(f.tokens, Wanted)
<1>1. /\ pc = "load" /\ Candidates # {} /\ LoadPayload(f)
      /\ UNCHANGED <<store, lastEvicted>>
      /\ job' = [job EXCEPT !.cached = cached, !.prompt = prompt]
      /\ lastStore' = Len(f.tokens)
      /\ disk' \subseteq (disk \ {f}) \cup {[f EXCEPT !.hits = n]} \/ UNCHANGED disk
      /\ pc' = IF job.phase = "canon" THEN "full" ELSE "plan"
  BY DEF LoadHits
<1>2. /\ ~Storing /\ job \in JobSet /\ sync = NoSync /\ disk \subseteq FileSet /\ FilesExact
      /\ job.phase \in {"prefix", "canon"}
      /\ job.phase # "canon" => Text(job.prompt) = job.text /\ job.output = <<>>
      /\ SessionInv /\ lastEvicted \in TokenSeqs
  BY <1>1, Loading, Here
<1>3. f \in disk /\ StartsWith(Wanted, FileText(f))
  BY <1>1, <1>2, BestIsCandidate DEF Candidates
<1> HIDE DEF f
<1>4. /\ f.tokens \in TokenSeqs /\ f.graph = f.tokens /\ f.tokens # <<>>
      /\ Len(f.tokens) \in Nat /\ f.hits \in 0..MaxHits
  BY <1>2, <1>3, FileFacts DEF FileSet
<1>5. SessionInv' /\ sync' = NoSync
  BY <1>1, <1>2, <1>4, LoadPayload_SessionInv DEF LoadPayload
<1>6. prompt \in TokenSeqs /\ Text(prompt) = Wanted
  BY <1>2, <1>3, <1>4, WantedText, ContinueText DEF FileText
<1>7. cached \in Nat
  BY <1>2, <1>4, JobFacts
<1>8. disk' \subseteq FileSet /\ FilesExact'
  <2>1. n \in 0..MaxHits
    BY <1>4, KVAssumption DEF Min2
  <2>2. CASE UNCHANGED disk
    BY <1>2, <2>2, FewerFiles
  <2>3. CASE disk' \subseteq (disk \ {f}) \cup {[f EXCEPT !.hits = n]}
    <3> HIDE DEF n
    <3> QED
      BY <1>2, <1>3, <2>1, <2>3, Touched
  <2> QED
    BY <1>1, <2>2, <2>3
<1> HIDE DEF cached, prompt, n
<1>9. /\ job' \in JobSet /\ job'.prompt = prompt /\ job'.text = job.text
      /\ job'.output = job.output /\ job'.phase = job.phase
  BY <1>1, <1>2, <1>6, <1>7 DEF JobSet
<1>10. Placed' /\ At' = pc' /\ ~Storing' /\ pc' \in {"full", "plan"}
       /\ (pc' = "plan" => job.phase = "prefix")
  BY <1>1, <1>2, GoesTo DEF Pcs
<1>11. job.phase # "canon" => Text(job'.prompt) = job'.text /\ job'.output = <<>>
  BY <1>2, <1>6, <1>9 DEF Wanted
<1>12. Serving'
  BY <1>9, <1>10, <1>11 DEF Serving, Text
<1> QED
  BY <1>1, <1>2, <1>4, <1>5, <1>8, <1>9, <1>10, <1>12 DEF IInv, WorkerType, Calls, Placed

LEMMA LoadEvicted_IInv ==
  ASSUME IInv, LoadEvicted
  PROVE  IInv'
<1>1. /\ pc = "evicted" /\ ~Storing /\ pc' = "plan"
      /\ UNCHANGED <<store, lastStore, lastEvicted, disk>>
      /\ \/ UNCHANGED <<sessionVars, job>>
         \/ \E f \in EvictedFiles :
              \/ LoadPayload(f) /\ job' = [job EXCEPT !.cached = Len(f.tokens)]
              \/ LoadPayloadFails /\ UNCHANGED job
  BY DEF LoadEvicted, Storing
<1>2. /\ job \in JobSet /\ sync = NoSync /\ disk \subseteq FileSet /\ FilesExact /\ SessionInv
      /\ job.phase = "prefix" /\ Text(job.prompt) = job.text /\ job.output = <<>>
  BY <1>1, Here DEF IInv, Serving, Preparing
<1>3. /\ SessionInv' /\ sync' = NoSync
      /\ job' \in JobSet /\ job'.text = job.text /\ job'.prompt = job.prompt
      /\ job'.output = job.output /\ job'.phase = job.phase
  <2>1. CASE UNCHANGED <<sessionVars, job>>
    BY <1>2, <2>1, Unchanged_SessionInv DEF sessionVars
  <2>2. ASSUME NEW f \in EvictedFiles,
               LoadPayload(f), job' = [job EXCEPT !.cached = Len(f.tokens)]
        PROVE  /\ SessionInv' /\ sync' = NoSync
               /\ job' \in JobSet /\ job'.text = job.text /\ job'.prompt = job.prompt
               /\ job'.output = job.output /\ job'.phase = job.phase
    <3>1. /\ f.tokens \in TokenSeqs /\ f.graph = f.tokens /\ f.tokens # <<>>
          /\ Len(f.tokens) \in Nat
      BY <1>2, FileFacts DEF EvictedFiles, FileNamed
    <3>2. SessionInv' /\ sync' = NoSync
      BY <1>2, <2>2, <3>1, LoadPayload_SessionInv DEF LoadPayload
    <3> QED
      BY <1>2, <2>2, <3>1, <3>2 DEF JobSet
  <2>3. CASE LoadPayloadFails /\ UNCHANGED job
    BY <1>2, <2>3, LoadPayloadFails_SessionInv DEF LoadPayloadFails
  <2> QED
    BY <1>1, <2>1, <2>2, <2>3
<1>4. Placed' /\ At' = "plan" /\ ~Storing'
  BY <1>1, GoesTo DEF Pcs
<1>5. disk' \subseteq FileSet /\ FilesExact'
  BY <1>1, <1>2, FewerFiles
<1>6. Serving'
  BY <1>2, <1>3, <1>4 DEF Serving, Text
<1> QED
  BY <1>1, <1>3, <1>4, <1>5, <1>6, Here DEF IInv, WorkerType, Calls, Placed

-----------------------------------------------------------------------------
(* generate_job(): prefill *)

\* A cold prefill ends inside the prompt.
LEMMA ColdLenType ==
  ASSUME NEW Char, TokenizerExact(Char), job \in JobSet
  PROVE  ColdLen \in Nat
<1>1. Len(job.prompt) \in Nat
  BY JobFacts
<1>2. ASSUME NEW n \in Nat PROVE StoreLen(n) \in Nat
  <2>1. (IF Align = 0 THEN 0 ELSE (n - Trim) % Align) \in Int
    BY KVAssumption
  <2> QED
    BY <2>1, KVAssumption DEF StoreLen
<1> QED
  BY <1>1, <1>2 DEF ColdLen

\* The call begins, or is refused before it touches anything.
LEMMA SyncOrEnd_Facts ==
  ASSUME IInv, ~Storing, pc \in {"plan", "full"}, NEW prompt \in TokenSeqs, SyncOrEnd(prompt)
  PROVE  /\ SessionInv'
         /\ \/ pc' = "idle" /\ sync' = NoSync
            \/ /\ pc' \in {"progress", "sync"} /\ sync' # NoSync /\ sync'.prompt = prompt
               /\ pc' = "progress" => sync'.progress
<1>1. SessionInv /\ sync = NoSync
  BY Here
<1>2. CASE SyncBegin(prompt, job.phase # "canon")
           /\ pc' = IF sync'.progress THEN "progress" ELSE "sync"
  <2>1. SessionInv'
    BY <1>1, <1>2, SyncBegin_SessionInv
  <2> DEFINE mode == SyncMode(prompt)
             start == IF Extends(prompt) THEN Pos ELSE 0
             call == [prompt |-> prompt, mode |-> mode, start |-> start, pos |-> start,
                      progress |-> (job.phase # "canon") /\ mode \in {"resume", "cold"}]
  <2>2. sync' = call
    BY <1>2 DEF SyncBegin
  <2>3. mode \in {"resume", "decode", "cold", "whole"} /\ start \in Nat
    BY <1>1 DEF SyncMode, Pos, SessionInv, SessionType, TokenSeqs
  <2> HIDE DEF mode, start
  <2>4. call \in SyncCalls
    BY <2>3 DEF SyncCalls, TokenSeqs
  <2>5. sync' # NoSync /\ sync'.prompt = prompt
    BY <2>2, <2>4, SessionAssumption
  <2> QED
    BY <1>2, <2>1, <2>5
<1>3. CASE pc' = "idle" /\ UNCHANGED sessionVars
  BY <1>1, <1>3, Unchanged_SessionInv DEF sessionVars
<1> QED
  BY <1>2, <1>3 DEF SyncOrEnd

LEMMA Plan_IInv ==
  ASSUME NEW Char, TokenizerExact(Char), IInv, Plan
  PROVE  IInv'
<1> DEFINE cold == ColdLen
<1>1. /\ pc = "plan" /\ ~Storing /\ UNCHANGED <<store, lastStore, lastEvicted, disk>>
      /\ \/ /\ cold >= MinTokens /\ cold < Len(job.prompt)
            /\ SyncOrEnd(Take(job.prompt, cold))
            /\ job' = IF pc' = "idle" THEN NoJob ELSE [job EXCEPT !.cold = cold]
         \/ /\ pc' = "full" /\ job' = [job EXCEPT !.cold = cold, !.phase = "full"]
            /\ ~(cold >= MinTokens /\ cold < Len(job.prompt))
            /\ UNCHANGED sessionVars
  BY DEF Plan, Storing
<1>2. /\ job \in JobSet /\ sync = NoSync
      /\ disk \subseteq FileSet /\ FilesExact /\ SessionInv
      /\ job.phase = "prefix" /\ Text(job.prompt) = job.text /\ job.output = <<>>
  BY <1>1, Here DEF IInv, Serving, Preparing
<1>3. disk' \subseteq FileSet /\ FilesExact'
  BY <1>1, <1>2, FewerFiles
<1>4. cold \in Nat /\ Len(job.prompt) \in Nat
  BY <1>2, ColdLenType, JobFacts
<1>5. CASE SyncOrEnd(Take(job.prompt, cold)) /\ cold >= MinTokens /\ cold < Len(job.prompt)
           /\ job' = IF pc' = "idle" THEN NoJob ELSE [job EXCEPT !.cold = cold]
  <2>1. cold \in 0..Len(job.prompt) /\ cold \in Nat
    BY <1>4, <1>5, KVAssumption
  <2> HIDE DEF cold
  <2>2. Take(job.prompt, cold) \in TokenSeqs
    BY <1>2, <2>1, JobFacts, TakeFacts
  <2>3. /\ SessionInv'
        /\ \/ pc' = "idle" /\ sync' = NoSync
           \/ /\ pc' \in {"progress", "sync"} /\ sync' # NoSync
              /\ pc' = "progress" => sync'.progress
    BY <1>1, <1>5, <2>2, SyncOrEnd_Facts
  <2>4. Placed' /\ At' = pc' /\ ~Storing'
    BY <1>1, <2>3, GoesTo DEF Pcs
  <2>5. CASE pc' = "idle"
    <3>1. job' = NoJob
      BY <1>5, <2>5
    <3>2. Serving'
      BY <2>4, <2>5 DEF Serving, Preparing
    <3> QED
      BY <1>1, <1>3, <2>3, <2>4, <2>5, <3>1, <3>2, Here DEF IInv, WorkerType, Calls, Placed
  <2>6. CASE pc' \in {"progress", "sync"}
    <3>1. /\ job' \in JobSet /\ job'.phase = "prefix" /\ job'.text = job.text
          /\ job'.prompt = job.prompt /\ job'.output = job.output
      BY <1>2, <1>5, <2>1, <2>6 DEF JobSet
    <3>2. Serving'
      BY <1>2, <2>4, <2>6, <3>1 DEF Serving, Text
    <3> QED
      BY <1>1, <1>3, <2>3, <2>4, <2>6, <3>1, <3>2, Here DEF IInv, WorkerType, Calls, Placed
  <2> QED
    BY <2>3, <2>5, <2>6
<1>6. CASE /\ pc' = "full" /\ job' = [job EXCEPT !.cold = cold, !.phase = "full"]
           /\ UNCHANGED sessionVars
  <2> HIDE DEF cold
  <2>2. /\ job' \in JobSet /\ job'.text = job.text /\ job'.phase = "full"
        /\ job'.prompt = job.prompt /\ job'.output = job.output
    BY <1>2, <1>4, <1>6 DEF JobSet, Phases
  <2>3. Placed' /\ At' = "full" /\ ~Storing'
    BY <1>1, <1>6, GoesTo DEF Pcs
  <2>4. Serving'
    BY <1>2, <2>2, <2>3 DEF Serving, Text
  <2> QED
    BY <1>1, <1>6, <2>2, <2>3, <2>4, SessionAndFilesStay, Here DEF IInv, WorkerType, Calls, Placed
<1> QED
  BY <1>1, <1>5, <1>6

LEMMA SyncPrompt_IInv ==
  ASSUME NEW Char, TokenizerExact(Char), IInv, SyncPrompt
  PROVE  IInv'
<1>1. /\ pc = "full" /\ ~Storing /\ UNCHANGED <<store, lastStore, lastEvicted, disk>>
      /\ SyncOrEnd(job.prompt)
      /\ job' = IF pc' = "idle" THEN NoJob
                ELSE [job EXCEPT !.phase = IF @ = "prefix" THEN "full" ELSE @]
  BY DEF SyncPrompt, Storing
<1>2. /\ job \in JobSet /\ disk \subseteq FileSet /\ FilesExact
      /\ job.phase # "canon" => Text(job.prompt) = job.text /\ job.output = <<>>
  BY <1>1, Here DEF IInv, Serving, Preparing
<1>3. disk' \subseteq FileSet /\ FilesExact'
  BY <1>1, <1>2, Here, FewerFiles
<1>4. /\ SessionInv'
      /\ \/ pc' = "idle" /\ sync' = NoSync
         \/ /\ pc' \in {"progress", "sync"} /\ sync' # NoSync /\ sync'.prompt = job.prompt
            /\ pc' = "progress" => sync'.progress
  BY <1>1, <1>2, JobFacts, SyncOrEnd_Facts
<1>5. Placed' /\ At' = pc' /\ ~Storing'
  BY <1>1, <1>4, GoesTo DEF Pcs
<1>6. CASE pc' = "idle"
  <2>1. job' = NoJob
    BY <1>1, <1>6
  <2>2. Serving'
    BY <1>5, <1>6 DEF Serving, Preparing
  <2> QED
    BY <1>1, <1>3, <1>4, <1>5, <1>6, <2>1, <2>2, Here DEF IInv, WorkerType, Calls, Placed
<1>7. CASE pc' \in {"progress", "sync"}
  <2>1. /\ job' \in JobSet /\ job'.phase \in {"full", "canon"} /\ job'.text = job.text
        /\ job'.prompt = job.prompt /\ job'.output = job.output
        /\ job'.phase # "canon" => job.phase # "canon"
    BY <1>1, <1>2, <1>7 DEF JobSet, Phases
  <2>2. Serving'
    BY <1>2, <1>4, <1>5, <1>7, <2>1 DEF Serving, Text
  <2> QED
    BY <1>1, <1>3, <1>4, <1>5, <1>7, <2>1, <2>2, Here DEF IInv, WorkerType, Calls, Placed
<1> QED
  BY <1>4, <1>6, <1>7

\* What the invariant says inside ds4_session_sync().
LEMMA InSync ==
  ASSUME IInv, pc \in {"progress", "sync"}
  PROVE  /\ ~Storing /\ At = pc /\ sync # NoSync /\ job \in JobSet
         /\ pc = "progress" => sync.progress
         /\ job.phase # "canon" => Text(job.prompt) = job.text /\ job.output = <<>>
         /\ job.phase = "full" => sync.prompt = job.prompt
<1>1. ~Storing /\ At = pc
  BY DEF Storing, At
<1> QED
  BY <1>1, Here DEF IInv, Calls, Serving, Preparing

LEMMA Progress_IInv ==
  ASSUME IInv, Progress
  PROVE  IInv'
<1>1. /\ pc = "progress" /\ UNCHANGED <<sessionVars, job, lastStore, lastEvicted, disk>>
      /\ CallStore(checkpoint, TRUE, "sync") \/ (pc' = "sync" /\ UNCHANGED store)
  BY DEF Progress
<1>2. Placed' /\ At' = "sync"
  <2>1. CASE CallStore(checkpoint, TRUE, "sync")
    BY <1>1, <2>1, InSync, Here, GoesToStore DEF Returns
  <2>2. CASE pc' = "sync" /\ UNCHANGED store
    BY <1>1, <2>2, InSync, GoesTo DEF Pcs
  <2> QED
    BY <1>1, <2>1, <2>2
<1>3. SessionInv' /\ disk' \subseteq FileSet /\ FilesExact'
      /\ UNCHANGED <<conf, checkpoint, valid, graph, sync>>
  BY <1>1, InSync, SessionAndFilesStay
<1>4. Serving'
  BY <1>1, <1>2, <1>3, InSync DEF Serving, Text
<1> QED
  BY <1>1, <1>2, <1>3, <1>4, InSync, Here DEF IInv, WorkerType, Calls, Placed

LEMMA Prefill_IInv ==
  ASSUME IInv, Prefill
  PROVE  IInv'
<1>1. /\ pc = "sync" /\ SyncStep /\ pc' = IF sync.progress THEN "progress" ELSE "sync"
      /\ UNCHANGED <<job, store, lastStore, lastEvicted, disk>>
  BY DEF Prefill
<1>2. ~Storing /\ SessionInv /\ disk \subseteq FileSet /\ FilesExact
  BY <1>1, InSync, Here
<1>3. Placed' /\ At' = pc' /\ ~Storing' /\ pc' \in {"progress", "sync"}
  BY <1>1, <1>2, GoesTo DEF Pcs
<1>4. SessionInv' /\ disk' \subseteq FileSet /\ FilesExact'
  BY <1>1, <1>2, SyncStep_SessionInv, FewerFiles
<1>5. /\ sync' # NoSync /\ sync'.prompt = sync.prompt /\ sync'.progress = sync.progress
  <2>1. sync \in SyncCalls /\ StepLen \in Nat /\ sync.pos \in Nat
    BY <1>1, <1>2, StepLenFacts DEF SessionInv, SessionType, SyncStep, SyncCalls
  <2>2. sync' = [sync EXCEPT !.pos = sync.pos + StepLen]
    BY <1>1 DEF SyncStep
  <2>3. sync' \in SyncCalls /\ sync'.prompt = sync.prompt /\ sync'.progress = sync.progress
    BY <2>1, <2>2 DEF SyncCalls
  <2> QED
    BY <2>3, SessionAssumption
<1>6. Serving'
  BY <1>1, <1>3, <1>5, InSync DEF Serving, Text
<1> QED
  BY <1>1, <1>3, <1>4, <1>5, <1>6, InSync, Here DEF IInv, WorkerType, Calls, Placed

\* A step after which there is no job is served already.
LEMMA JobEnds ==
  ASSUME IInv, ~Storing, EndJob, UNCHANGED <<store, lastStore, lastEvicted, disk>>,
         SessionInv', sync' = NoSync
  PROVE  IInv'
<1>1. Placed' /\ At' = "idle" /\ ~Storing' /\ job' = NoJob
  BY GoesTo DEF Pcs, EndJob
<1>2. disk' \subseteq FileSet /\ FilesExact'
  BY Here, FewerFiles
<1>3. Serving'
  BY <1>1 DEF Serving, Preparing
<1> QED
  BY <1>1, <1>2, <1>3, Here DEF IInv, WorkerType, Calls, Placed

LEMMA PrefillFails_IInv ==
  ASSUME IInv, PrefillFails
  PROVE  IInv'
<1>1. /\ pc = "sync" /\ SyncFail /\ EndJob
      /\ UNCHANGED <<store, lastStore, lastEvicted, disk>>
  BY DEF PrefillFails
<1>2. SessionInv' /\ sync' = NoSync
  BY <1>1, InSync, Here, SyncFail_SessionInv DEF SyncFail
<1> QED
  BY <1>1, <1>2, InSync, JobEnds

LEMMA PrefillDone_IInv ==
  ASSUME NEW Char, TokenizerExact(Char), IInv, PrefillDone
  PROVE  IInv'
<1>1. pc = "sync" /\ SyncReturn /\ UNCHANGED <<lastStore, lastEvicted, disk>>
  BY DEF PrefillDone
<1>2. ~Storing /\ SessionInv /\ job \in JobSet /\ disk \subseteq FileSet /\ FilesExact
  BY <1>1, InSync, Here
<1>3. SessionInv' /\ sync' = NoSync /\ valid' = TRUE /\ checkpoint' = sync.prompt
  BY <1>1, <1>2, SyncReturn_SessionInv DEF SyncReturn
<1>4. disk' \subseteq FileSet /\ FilesExact' /\ sync.prompt \in TokenSeqs
  BY <1>1, <1>2, FewerFiles, SyncReturn_Graph
<1>5. CASE job.phase = "prefix" /\ CallStore(sync.prompt, TRUE, "full") /\ UNCHANGED job
  <2>1. Placed' /\ At' = "full"
    BY <1>4, <1>5, GoesToStore DEF Returns
  <2>2. Serving'
    BY <1>1, <1>5, <2>1, InSync DEF Serving, Text
  <2> QED
    BY <1>1, <1>2, <1>3, <1>4, <1>5, <2>1, <2>2, Here DEF IInv, WorkerType, Calls, Placed
<1>6. CASE /\ job.phase = "full" /\ UNCHANGED job
           /\ CallStore(job.prompt, TRUE, "decode") \/ (pc' = "decode" /\ UNCHANGED store)
  <2>1. Placed' /\ At' = "decode"
    <3>1. CASE CallStore(job.prompt, TRUE, "decode")
      BY <1>2, <3>1, JobFacts, GoesToStore DEF Returns
    <3>2. CASE pc' = "decode" /\ UNCHANGED store
      BY <1>2, <3>2, GoesTo DEF Pcs
    <3> QED
      BY <1>6, <3>1, <3>2
  <2>2. Text(checkpoint') = job.text /\ job.output = <<>>
    BY <1>1, <1>3, <1>6, InSync
  <2>3. job.text \o Text(job.output) = job.text
    <3>1. Text(job.output) = <<>>
      BY <2>2, FlattenEmpty DEF Text
    <3> QED
      BY <1>2, <3>1, JobFacts
  <2>4. Serving'
    BY <1>3, <1>6, <2>1, <2>2, <2>3 DEF Serving, Preparing, Text
  <2> QED
    BY <1>1, <1>2, <1>3, <1>4, <1>6, <2>1, <2>4, Here DEF IInv, WorkerType, Calls, Placed
<1>7. CASE job.phase = "canon" /\ EndJob /\ UNCHANGED store
  BY <1>1, <1>2, <1>3, <1>7, JobEnds
<1> QED
  BY <1>5, <1>6, <1>7 DEF PrefillDone

-----------------------------------------------------------------------------
(* generate_job(): decoding and the end of the turn *)

\* What the invariant says of a worker that decodes.
LEMMA Decoding ==
  ASSUME IInv, pc \in {"decode", "sample"}
  PROVE  /\ ~Storing /\ sync = NoSync /\ job \in JobSet /\ SessionInv
         /\ valid /\ Text(checkpoint) = job.text \o Text(job.output)
<1>1. ~Storing
  BY DEF Storing
<1> QED
  BY <1>1, Here DEF IInv, Serving

LEMMA Decode_IInv ==
  ASSUME IInv, Decode
  PROVE  IInv'
<1>1. /\ pc = "decode" /\ UNCHANGED <<sessionVars, lastStore, lastEvicted, disk>>
      /\ \/ EndJob /\ UNCHANGED store
         \/ /\ CallStore(checkpoint, TRUE, "sample") \/ (pc' = "sample" /\ UNCHANGED store)
            /\ UNCHANGED job
  BY DEF Decode
<1>2. SessionInv' /\ disk' \subseteq FileSet /\ FilesExact'
      /\ UNCHANGED <<conf, checkpoint, valid, graph, sync>>
  BY <1>1, Decoding, SessionAndFilesStay
<1>3. CASE EndJob /\ UNCHANGED store
  BY <1>1, <1>2, <1>3, Decoding, JobEnds
<1>4. CASE /\ CallStore(checkpoint, TRUE, "sample") \/ (pc' = "sample" /\ UNCHANGED store)
           /\ UNCHANGED job
  <2>1. Placed' /\ At' = "sample"
    <3>1. CASE CallStore(checkpoint, TRUE, "sample")
      BY <1>1, <3>1, Decoding, Here, GoesToStore DEF Returns
    <3>2. CASE pc' = "sample" /\ UNCHANGED store
      BY <1>1, <3>2, Decoding, GoesTo DEF Pcs
    <3> QED
      BY <1>4, <3>1, <3>2
  <2>2. Serving'
    BY <1>1, <1>2, <1>4, <2>1, Decoding DEF Serving, Preparing, Text
  <2> QED
    BY <1>1, <1>2, <1>4, <2>1, <2>2, Decoding, Here DEF IInv, WorkerType, Calls, Placed
<1> QED
  BY <1>1, <1>3, <1>4

LEMMA SampleToken_IInv ==
  ASSUME NEW Char, TokenizerExact(Char), IInv, NEW token \in Sampled, SampleToken(token)
  PROVE  IInv'
<1>1. /\ pc = "sample" /\ Eval(token) /\ pc' = "decode"
      /\ job' = [job EXCEPT !.output = Append(job.output, token)]
      /\ UNCHANGED <<store, lastStore, lastEvicted, disk>>
  BY DEF SampleToken
<1>2. token \in Token
  BY DEF TokenizerExact
<1>3. /\ ~Storing /\ sync = NoSync /\ job \in JobSet /\ SessionInv
      /\ valid /\ Text(checkpoint) = job.text \o Text(job.output)
      /\ checkpoint \in TokenSeqs /\ disk \subseteq FileSet /\ FilesExact
  BY <1>1, Decoding, Here
<1>4. SessionInv' /\ sync' = NoSync /\ valid' /\ checkpoint' = Append(checkpoint, token)
  BY <1>1, <1>2, <1>3, Eval_SessionInv DEF Eval
<1>5. Placed' /\ At' = "decode" /\ ~Storing'
  BY <1>1, <1>3, GoesTo DEF Pcs
<1>6. disk' \subseteq FileSet /\ FilesExact'
  BY <1>1, <1>3, FewerFiles
<1>7. Append(job.output, token) \in TokenSeqs
  BY <1>2, <1>3, JobFacts DEF TokenSeqs
<1>8. job' \in JobSet /\ job'.text = job.text /\ job'.output = Append(job.output, token)
  BY <1>1, <1>3, <1>7 DEF JobSet
<1>9. Text(checkpoint') = job'.text \o Text(job'.output)
  <2>1. job.text \in Seq(Char) /\ job.output \in TokenSeqs
    BY <1>3, JobFacts
  <2>2. Text(Append(checkpoint, token)) = job.text \o Text(Append(job.output, token))
    BY <1>2, <1>3, <2>1, TextAppend
  <2> QED
    BY <1>4, <1>8, <2>2
<1>10. Serving'
  BY <1>4, <1>5, <1>9 DEF Serving, Preparing, Text
<1> QED
  BY <1>1, <1>4, <1>5, <1>6, <1>8, <1>10, Here, <1>3 DEF IInv, WorkerType, Calls, Placed

\* After the last token nothing is promised of the session but its own invariant.
LEMMA Finishing ==
  ASSUME IInv, ~Storing, pc' = "finish", job \in JobSet,
         UNCHANGED <<job, store, lastStore, lastEvicted, disk>>, SessionInv', sync' = NoSync
  PROVE  IInv'
<1>1. Placed' /\ At' = "finish" /\ ~Storing'
  BY GoesTo DEF Pcs
<1>2. disk' \subseteq FileSet /\ FilesExact'
  BY Here, FewerFiles
<1>3. Serving'
  BY <1>1 DEF Serving, Preparing
<1> QED
  BY <1>1, <1>2, <1>3, Here DEF IInv, WorkerType, Calls, Placed

LEMMA SampleEos_IInv ==
  ASSUME IInv, SampleEos
  PROVE  IInv'
<1>1. /\ pc = "sample" /\ pc' = "finish" /\ UNCHANGED sessionVars
      /\ UNCHANGED <<job, store, lastStore, lastEvicted, disk>>
  BY DEF SampleEos
<1>2. SessionInv' /\ UNCHANGED sync
  BY <1>1, Decoding, SessionAndFilesStay
<1> QED
  BY <1>1, <1>2, Decoding, Finishing

LEMMA SampleFails_IInv ==
  ASSUME IInv, SampleFails
  PROVE  IInv'
<1>1. /\ pc = "sample" /\ EvalFail /\ EndJob
      /\ UNCHANGED <<store, lastStore, lastEvicted, disk>>
  BY DEF SampleFails
<1>2. SessionInv' /\ sync' = NoSync
  BY <1>1, Decoding, EvalFail_SessionInv DEF EvalFail
<1> QED
  BY <1>1, <1>2, Decoding, JobEnds

LEMMA StopHit_IInv ==
  ASSUME IInv, StopHit
  PROVE  IInv'
<1>1. /\ pc = "decode" /\ ds4_session_invalidate /\ pc' = "finish"
      /\ UNCHANGED <<job, store, lastStore, lastEvicted, disk>>
  BY DEF StopHit
<1>2. SessionInv' /\ sync' = NoSync
  BY <1>1, Decoding, Invalidate_SessionInv DEF ds4_session_invalidate
<1> QED
  BY <1>1, <1>2, Decoding, Finishing

LEMMA Abandon_IInv ==
  ASSUME IInv, Abandon
  PROVE  IInv'
<1>1. /\ pc = "decode" /\ EndJob /\ UNCHANGED sessionVars
      /\ UNCHANGED <<store, lastStore, lastEvicted, disk>>
  BY DEF Abandon
<1>2. SessionInv' /\ UNCHANGED sync
  BY <1>1, Decoding, SessionAndFilesStay
<1> QED
  BY <1>1, <1>2, Decoding, JobEnds

\* The canonical form of a turn is a text, so it can be tokenized: the answer
\* has a first end of thinking.
LEMMA CanonicalType ==
  ASSUME NEW Char, TokenizerExact(Char), job \in JobSet, Thinks
  PROVE  Canonical \in TokenSeqs
<1> DEFINE out == job.output
           IsClose(i) == /\ out[i] = ThinkClose
                         /\ \A k \in 1..(i - 1) : out[k] # ThinkClose
           Closes == {i \in 1..Len(out) : out[i] = ThinkClose}
           close == CHOOSE i \in 1..Len(out) : IsClose(i)
<1>1. out \in TokenSeqs /\ Len(out) \in Nat /\ job.text \in Seq(Char)
      /\ ThinkOpen \in Seq(Char) /\ ThinkClose \in Seq(Char) /\ Eos \in Seq(Char)
  <2>1. out \in TokenSeqs /\ job.text \in Seq(Char)
    BY JobFacts
  <2>2. Len(out) \in Nat
    BY <2>1 DEF TokenSeqs
  <2>3. ThinkOpen \in Seq(Char) /\ ThinkClose \in Seq(Char) /\ Eos \in Seq(Char)
    BY DEF TokenizerExact
  <2> QED
    BY <2>1, <2>2, <2>3
<1>2. \E i \in 1..Len(out) : IsClose(i)
  <2>1. Closes # {} /\ Closes \subseteq Nat
    <3>1. ThinkClose \in {out[i] : i \in DOMAIN out}
      BY DEF Thinks, ToSet
    <3>2. DOMAIN out = 1..Len(out)
      BY <1>1 DEF TokenSeqs
    <3> QED
      BY <3>1, <3>2
  <2>2. PICK m \in Closes : \A k \in Closes : m <= k
    <3> HIDE DEF Closes
    <3> QED
      BY <2>1, FilesSum!Least
  <2>3. m \in 1..Len(out) /\ out[m] = ThinkClose
    BY <2>2
  <2>4. \A k \in 1..(m - 1) : out[k] # ThinkClose
    BY <1>1, <2>2, <2>3
  <2> QED
    BY <2>3, <2>4
<1>3. close \in 1..Len(out)
  BY <1>2
<1>4. Content = Text(Drop(out, close))
  BY DEF Content
<1> HIDE DEF close
<1>5. Drop(out, close) \in TokenSeqs
  BY <1>1, <1>3 DEF Drop, TokenSeqs
<1>6. Content \in Seq(Char)
  BY <1>4, <1>5, TextFacts
<1>7. StableText \in Seq(Char)
  <2>1. Len(job.text) \in Nat /\ Len(ThinkOpen) \in Nat /\ Len(ThinkOpen) <= Len(job.text)
    BY <1>1 DEF Thinks, EndsIn
  <2> QED
    BY <1>1, <2>1 DEF StableText, Take
<1>8. StableText \o ThinkClose \o Content \o Eos \in Seq(Char)
  <2> HIDE DEF out
  <2> QED
    BY <1>1, <1>6, <1>7
<1> QED
  BY <1>8 DEF Canonical, TokenizerExact

LEMMA Finish_IInv ==
  ASSUME NEW Char, TokenizerExact(Char), IInv, Finish
  PROVE  IInv'
<1>1. /\ pc = "finish" /\ ~Storing /\ UNCHANGED <<sessionVars, disk>>
      /\ UNCHANGED <<store, lastStore, lastEvicted>>
      /\ \/ /\ Thinks /\ job' = [job EXCEPT !.prompt = Canonical, !.phase = "canon"]
            /\ pc' = "load"
         \/ EndJob
  BY DEF Finish, Storing
<1>2. SessionInv' /\ disk' \subseteq FileSet /\ FilesExact' /\ UNCHANGED sync
  BY <1>1, SessionAndFilesStay
<1>3. CASE EndJob
  BY <1>1, <1>2, <1>3, Here, JobEnds
<1>4. CASE /\ Thinks /\ job' = [job EXCEPT !.prompt = Canonical, !.phase = "canon"]
           /\ pc' = "load"
  <2>1. job \in JobSet
    BY <1>1, Here
  <2>2. Canonical \in TokenSeqs
    BY <1>4, <2>1, CanonicalType
  <2>3. job' \in JobSet /\ job'.phase = "canon"
    BY <1>4, <2>1, <2>2 DEF JobSet, Phases
  <2>4. Placed' /\ At' = "load" /\ ~Storing'
    BY <1>1, <1>4, GoesTo DEF Pcs
  <2>5. Serving'
    BY <2>3, <2>4 DEF Serving
  <2> QED
    BY <1>1, <1>2, <1>4, <2>3, <2>4, <2>5, Here DEF IInv, WorkerType, Calls, Placed
<1> QED
  BY <1>1, <1>3, <1>4

-----------------------------------------------------------------------------
(* The end of the process, and the next one *)

LEMMA Shutdown_IInv ==
  ASSUME IInv, Shutdown
  PROVE  IInv'
<1>1. /\ pc = "idle" /\ ~Storing /\ UNCHANGED <<sessionVars, disk>>
      /\ UNCHANGED <<job, lastStore, lastEvicted>>
      /\ CallStore(checkpoint, FALSE, "down") \/ (pc' = "down" /\ UNCHANGED store)
  BY DEF Shutdown, Storing
<1>2. Placed' /\ At' = "down"
  <2>1. CASE CallStore(checkpoint, FALSE, "down")
    BY <1>1, <2>1, Here, GoesToStore DEF Returns
  <2>2. CASE pc' = "down" /\ UNCHANGED store
    BY <1>1, <2>2, GoesTo DEF Pcs
  <2> QED
    BY <1>1, <2>1, <2>2
<1>3. Serving'
  BY <1>2 DEF Serving, Preparing
<1> QED
  BY <1>1, <1>2, <1>3, SessionAndFilesStay, Here DEF IInv, WorkerType, Calls, Placed

\* A process that starts anew, or is gone, holds nothing; the files are as they
\* were when it ended, also in the middle of a store.
LEMMA Forgotten ==
  ASSUME IInv, Forget, conf' \in Configs, UNCHANGED disk, pc' \in {"idle", "evict", "down"}
  PROVE  IInv'
<1>1. /\ job' = NoJob /\ store' = NoStore /\ lastStore' = 0 /\ lastEvicted' = <<>>
      /\ sync' = NoSync
  BY DEF Forget
<1>2. SessionInv'
  BY New_SessionInv DEF Forget
<1>3. disk' \subseteq FileSet /\ FilesExact'
  BY FewerFiles DEF IInv, WorkerType
<1>4. At' \in {"idle", "down"} /\ Placed'
  BY <1>1, EmptyCheckpoint DEF At, Storing, NoStore, Placed, Pcs, Returns
<1>5. Serving'
  BY <1>4 DEF Serving, Preparing
<1>6. pc' # "write" /\ ~(Storing /\ At = "sync")' /\ (~Storing => store = NoStore)'
  BY <1>1, <1>4
<1> QED
  BY <1>1, <1>2, <1>3, <1>4, <1>5, <1>6, EmptyCheckpoint DEF IInv, WorkerType, Calls, Placed

LEMMA Crash_IInv ==
  ASSUME IInv, Crash
  PROVE  IInv'
<1>1. conf' \in Configs
  BY DEF Crash, IInv, SessionInv, SessionType
<1> QED
  BY <1>1, Forgotten DEF Crash

LEMMA Restart_IInv ==
  ASSUME IInv, Restart
  PROVE  IInv'
BY Forgotten DEF Restart

-----------------------------------------------------------------------------
(* The invariant holds of every step. *)

LEMMA Init_IInv ==
  ASSUME Init
  PROVE  IInv
<1>1. SessionInv
  BY Init_SessionInv DEF Init
<1>2. ~Storing /\ At = "idle" /\ pc \in Pcs /\ sync = NoSync
  BY DEF Init, SessionInit, Storing, At, Pcs
<1>3. WorkerType
  BY <1>2, EmptyCheckpoint DEF Init, WorkerType, NoStore, Returns
<1> QED
  BY <1>1, <1>2, <1>3 DEF Init, IInv, Calls, Serving, Preparing, FilesExact

LEMMA Next_IInv ==
  ASSUME NEW Char, TokenizerExact(Char), IInv, [Next]_vars
  PROVE  IInv'
<1>1. CASE Store
  BY <1>1, StoreSkipped_IInv, StoreExists_IInv, StoreReplaces_IInv, StoreWrite_IInv, Evict_IInv
     DEF Store
<1>2. CASE LookupLive \/ LookupElsewhere \/ LoadMisses \/ LoadFails \/ LoadHits \/ LoadEvicted
  BY <1>2, LookupLive_IInv, LookupElsewhere_IInv, LoadMisses_IInv, LoadFails_IInv,
     LoadHits_IInv, LoadEvicted_IInv
<1>3. CASE Plan \/ SyncPrompt \/ Progress \/ Prefill \/ PrefillFails \/ PrefillDone
  BY <1>3, Plan_IInv, SyncPrompt_IInv, Progress_IInv, Prefill_IInv, PrefillFails_IInv,
     PrefillDone_IInv
<1>4. CASE Decode \/ SampleEos \/ SampleFails \/ StopHit \/ Abandon \/ Finish
  BY <1>4, Decode_IInv, SampleEos_IInv, SampleFails_IInv, StopHit_IInv, Abandon_IInv,
     Finish_IInv
<1>5. CASE \E token \in Sampled : SampleToken(token)
  BY <1>5, SampleToken_IInv
<1>6. CASE \E text \in Requests : Request(text)
  BY <1>6, Request_IInv
<1>7. CASE Shutdown \/ Crash \/ Restart
  BY <1>7, Shutdown_IInv, Crash_IInv, Restart_IInv
<1>8. CASE UNCHANGED vars
  <2>1. UNCHANGED <<sessionVars, pc, job, store, lastStore, lastEvicted, disk>>
    BY <1>8 DEF vars, kvVars
  <2>2. At' = At /\ Storing' = Storing
    BY <2>1 DEF At, Storing
  <2>3. disk' \subseteq FileSet /\ FilesExact'
    BY <2>1, FewerFiles DEF IInv, WorkerType
  <2>4. WorkerType'
    BY <2>1, <2>2, <2>3 DEF IInv, WorkerType
  <2>5. (pc = "write" => Storable)'
    BY <2>1 DEF IInv, Calls, Storable, CanSave, sessionVars
  <2> QED
    BY <2>1, <2>2, <2>3, <2>4, <2>5, StayingHere
<1> QED
  BY <1>1, <1>2, <1>3, <1>4, <1>5, <1>6, <1>7, <1>8 DEF Next, Worker

-----------------------------------------------------------------------------
(* The budget. *)

LEMMA SizeIsFold ==
  ASSUME NEW D
  PROVE  MapThenSumSet(FileSize, D) = FilesSum!FoldOf(0, 0, D)
BY DEF MapThenSumSet, MapThenFoldSet, FilesSum!FoldOf, FilesSum!IsFold, AddFile, AnyOf, FileSize

SizeOf(D) == MapThenSumSet(FileSize, D)

LEMMA FileSizeType ==
  ASSUME NEW f \in FileSet
  PROVE  FileSize(f) \in Nat
<1>1. Len(f.tokens) \in Nat
  BY DEF FileSet, TokenSeqs
<1> QED
  BY <1>1, KVAssumption DEF FileSize

\* One file counts with its size.
LEMMA SizeFacts ==
  ASSUME NEW D \in SUBSET FileSet, IsFiniteSet(D)
  PROVE  /\ SizeOf({}) = 0 /\ SizeOf(D) \in Nat
         /\ \A f \in D : /\ SizeOf(D \ {f}) \in Nat /\ FileSize(f) \in Nat
                         /\ SizeOf(D) = FileSize(f) + SizeOf(D \ {f})
<1> DEFINE F(T) == FilesSum!FoldOf(0, 0, T)
<1>1. \A f \in D : FileSize(f) \in Nat
  BY FileSizeType
<1>2. FilesSum!IsFiniteSet(D)
  BY DEF IsFiniteSet, FilesSum!IsFiniteSet
<1>3. FilesSum!Chooses(D)
  BY DEF FilesSum!Chooses, AnyOf
<1>4. FilesSum!Commutes(0, Nat, D)
  BY <1>1 DEF FilesSum!Commutes, AddFile
<1>5. \A T \in SUBSET D : FilesSum!AnyLast(0, 0, Nat, T)
  BY <1>2, <1>3, <1>4, FilesSum!FoldAny
<1>6. F({}) = 0
  BY <1>2, <1>3, FilesSum!FoldSteps
<1>7. \A T \in SUBSET D : F(T) \in Nat /\ \A f \in T : F(T) = FileSize(f) + F(T \ {f})
  BY <1>5 DEF FilesSum!AnyLast, AddFile
<1>8. \A T \in SUBSET D : SizeOf(T) = F(T)
  BY SizeIsFold DEF SizeOf
<1> HIDE DEF F
<1> QED
  BY <1>1, <1>6, <1>7, <1>8

\* Fewer files are not larger.
LEMMA SizeFewer ==
  ASSUME NEW D \in SUBSET FileSet, IsFiniteSet(D), NEW C \in SUBSET D
  PROVE  SizeOf(C) <= SizeOf(D) /\ IsFiniteSet(C)
<1> DEFINE Bad == {n \in Nat : \E T \in SUBSET D : C \subseteq T /\ Cardinality(T) = n
                                 /\ ~(SizeOf(C) <= SizeOf(T))}
<1>1. \A T \in SUBSET D : IsFiniteSet(T) /\ Cardinality(T) \in Nat /\ SizeOf(T) \in Nat
  BY FS_Subset, FS_CardinalityType, SizeFacts
<1>2. Bad = {}
  <2>1. SUFFICES ASSUME Bad # {} PROVE FALSE
    OBVIOUS
  <2>2. PICK m \in Bad : \A k \in Bad : m <= k
    <3>1. Bad \subseteq Nat
      OBVIOUS
    <3> HIDE DEF Bad
    <3> QED
      BY <2>1, <3>1, FilesSum!Least
  <2>3. PICK T \in SUBSET D : C \subseteq T /\ Cardinality(T) = m /\ ~(SizeOf(C) <= SizeOf(T))
    BY <2>2
  <2>4. PICK f \in T : f \notin C
    BY <2>3, <1>1
  <2> DEFINE R == T \ {f}
  <2>5. R \in SUBSET D /\ C \subseteq R /\ Cardinality(R) = m - 1
    BY <2>3, <2>4, <1>1, FS_RemoveElement
  <2>6. SizeOf(T) = FileSize(f) + SizeOf(R) /\ FileSize(f) \in Nat
    BY <1>1, SizeFacts
  <2> HIDE DEF R
  <2>7. SizeOf(R) \in Nat /\ SizeOf(C) \in Nat /\ Cardinality(R) \in Nat /\ m \in Nat
    BY <1>1, <2>2, <2>5
  <2>8. Cardinality(R) \notin Bad
    <3> HIDE DEF Bad
    <3> QED
      BY <2>2, <2>5, <2>7
  <2>9. SizeOf(C) <= SizeOf(R)
    BY <2>5, <2>7, <2>8
  <2> QED
    BY <2>3, <2>6, <2>7, <2>9
<1>3. SizeOf(C) <= SizeOf(D)
  <2>1. Cardinality(D) \in Nat /\ Cardinality(D) \notin Bad
    BY <1>1, <1>2
  <2> QED
    BY <2>1
<1> QED
  BY <1>1, <1>3

\* No file is larger than all together.
LEMMA SizeOfOne ==
  ASSUME NEW D \in SUBSET FileSet, IsFiniteSet(D), NEW f \in D
  PROVE  FileSize(f) <= SizeOf(D) /\ (D = {f} => SizeOf(D) = FileSize(f))
<1>1. /\ SizeOf(D) = FileSize(f) + SizeOf(D \ {f}) /\ FileSize(f) \in Nat /\ SizeOf(D) \in Nat
      /\ SizeOf(D \ {f}) \in Nat /\ SizeOf({}) = 0
  BY SizeFacts
<1>2. D = {f} => D \ {f} = {}
  OBVIOUS
<1> QED
  BY <1>1, <1>2

\* The files fit wherever the worker is, unless it is about to trim them: after
\* a write, or after a crash that came before the trimming.
BudgetInv ==
  /\ IsFiniteSet(disk)
  /\ pc \notin {"evict", "down"} /\ "unlink" \notin faults => SizeOf(disk) <= Budget

\* A step that adds no file and does not come from a place where they may not fit.
LEMMA FewerFilesFit ==
  ASSUME IInv, BudgetInv, disk' \subseteq disk, faults \subseteq faults',
         pc \notin {"evict", "down"} \/ pc' \in {"evict", "down"}
  PROVE  BudgetInv'
<1>1. disk \in SUBSET FileSet /\ IsFiniteSet(disk)
  BY DEF IInv, WorkerType, BudgetInv
<1>2. IsFiniteSet(disk') /\ SizeOf(disk') <= SizeOf(disk)
  BY <1>1, SizeFewer
<1>3. SizeOf(disk) \in Nat /\ SizeOf(disk') \in Nat /\ Budget \in Nat
  <2>1. disk' \in SUBSET FileSet
    BY <1>1
  <2> QED
    BY <1>1, <1>2, <2>1, SizeFacts, KVAssumption
<1>4. ASSUME pc' \notin {"evict", "down"}, "unlink" \notin faults' PROVE SizeOf(disk') <= Budget
  <2>1. SizeOf(disk) <= Budget
    BY <1>4 DEF BudgetInv
  <2> QED
    BY <1>2, <1>3, <2>1
<1>5. (SizeOf(disk))' = SizeOf(disk')
  OBVIOUS
<1> QED
  BY <1>2, <1>4, <1>5 DEF BudgetInv

LEMMA StoreWrite_BudgetInv ==
  ASSUME IInv, BudgetInv, StoreWrite
  PROVE  BudgetInv'
<1>1. CASE /\ disk' = (disk \ FileNamed(Text(store.tokens))) \cup {LiveFile}
           /\ pc' = "evict"
  <2>1. IsFiniteSet(disk \ FileNamed(Text(store.tokens)))
    BY FS_Subset DEF BudgetInv
  <2>2. IsFiniteSet(disk')
    <3> HIDE DEF LiveFile
    <3> QED
      BY <1>1, <2>1, FS_AddElement
  <2> QED
    BY <1>1, <2>2 DEF BudgetInv
<1>2. CASE Fault("io") /\ UNCHANGED disk
  BY <1>2, FewerFilesFit DEF StoreWrite, Fault
<1> QED
  BY <1>1, <1>2 DEF StoreWrite

\* kv_cache_evict() returns when the files fit, or when an unlink failed.
LEMMA Evict_BudgetInv ==
  ASSUME IInv, BudgetInv, Evict
  PROVE  BudgetInv'
<1>1. CASE SizeOf(disk) <= Budget /\ UNCHANGED <<disk, faults>>
  <2>1. (SizeOf(disk))' = SizeOf(disk')
    OBVIOUS
  <2> QED
    BY <1>1, <2>1 DEF BudgetInv
<1>2. CASE disk' \subseteq disk /\ pc' = "evict" /\ UNCHANGED faults
  BY <1>2, FewerFilesFit
<1>3. CASE Fault("unlink") /\ UNCHANGED disk
  BY <1>3 DEF BudgetInv, Fault
<1>4. DiskSize = SizeOf(disk)
  BY DEF DiskSize, SizeOf
<1> QED
  BY <1>1, <1>2, <1>3, <1>4 DEF Evict

\* A hit leaves the size of a file as it is.
LEMMA TouchedFits ==
  ASSUME disk \subseteq FileSet, FilesExact, IsFiniteSet(disk), NEW f \in disk,
         NEW n \in 0..MaxHits, disk' = (disk \ {f}) \cup {[f EXCEPT !.hits = n]}
  PROVE  IsFiniteSet(disk') /\ SizeOf(disk') = SizeOf(disk)
<1> DEFINE g == [f EXCEPT !.hits = n]
<1>1. g \in FileSet /\ g.tokens = f.tokens /\ disk' = (disk \ {f}) \cup {g} /\ f \in FileSet
  BY DEF FileSet
<1>2. FileSize(g) = FileSize(f) /\ FileText(g) = FileText(f)
  BY <1>1 DEF FileSize, FileText
<1> HIDE DEF g
<1>3. CASE g \in disk
  <2>1. g = f
    BY <1>2, <1>3 DEF FilesExact
  <2>2. disk' = disk
    BY <1>1, <2>1
  <2> QED
    BY <2>2
<1>4. CASE g \notin disk
  <2>1. disk' \ {g} = disk \ {f} /\ g \in disk' /\ disk' \in SUBSET FileSet
    BY <1>1, <1>4
  <2>2. IsFiniteSet(disk \ {f})
    BY FS_Subset
  <2>3. IsFiniteSet(disk')
    <3>1. IsFiniteSet((disk \ {f}) \cup {g})
      BY <2>2, FS_AddElement
    <3> QED
      BY <1>1, <3>1
  <2>4. SizeOf(disk') = FileSize(g) + SizeOf(disk' \ {g})
    BY <2>1, <2>3, SizeFacts
  <2>5. SizeOf(disk) = FileSize(f) + SizeOf(disk \ {f})
    BY SizeFacts
  <2> QED
    BY <1>2, <2>1, <2>3, <2>4, <2>5
<1> QED
  BY <1>3, <1>4

LEMMA LoadHits_BudgetInv ==
  ASSUME NEW Char, TokenizerExact(Char), IInv, BudgetInv, LoadHits
  PROVE  BudgetInv'
<1> DEFINE f == Best
           n == Min2(f.hits + 1, MaxHits)
<1>1. /\ pc = "load" /\ Candidates # {} /\ faults \subseteq faults'
      /\ \/ disk' = (disk \ {f}) \cup {[f EXCEPT !.hits = n]}
         \/ disk' \subseteq disk
  BY DEF LoadHits, Fault
<1>2. disk \subseteq FileSet /\ FilesExact /\ job \in JobSet /\ IsFiniteSet(disk)
  BY <1>1, Loading, Here DEF BudgetInv
<1>3. f \in disk
  BY <1>1, <1>2, BestIsCandidate DEF Candidates
<1> HIDE DEF f
<1>4. n \in 0..MaxHits
  <2>1. f.hits \in 0..MaxHits
    BY <1>2, <1>3 DEF FileSet
  <2> QED
    BY <2>1, KVAssumption DEF Min2
<1>5. CASE disk' = (disk \ {f}) \cup {[f EXCEPT !.hits = n]}
  <2> HIDE DEF n
  <2>1. IsFiniteSet(disk') /\ SizeOf(disk') = SizeOf(disk)
    BY <1>2, <1>3, <1>4, <1>5, TouchedFits
  <2>2. "unlink" \notin faults' => SizeOf(disk) <= Budget
    BY <1>1 DEF BudgetInv
  <2>3. (SizeOf(disk))' = SizeOf(disk')
    OBVIOUS
  <2> QED
    BY <2>1, <2>2, <2>3 DEF BudgetInv
<1>6. CASE disk' \subseteq disk
  BY <1>1, <1>6, FewerFilesFit
<1> QED
  BY <1>1, <1>5, <1>6

LEMMA Next_BudgetInv ==
  ASSUME NEW Char, TokenizerExact(Char), IInv, BudgetInv, [Next]_vars
  PROVE  BudgetInv'
<1> DEFINE Quiet == disk' \subseteq disk /\ faults \subseteq faults'
                    /\ (pc \notin {"evict", "down"} \/ pc' \in {"evict", "down"})
<1>1. CASE Store
  <2>1. CASE StoreSkipped \/ StoreExists \/ StoreReplaces
    <3>1. Quiet
      BY <2>1 DEF StoreSkipped, StoreExists, StoreReplaces, Fault
    <3> QED
      BY <3>1, FewerFilesFit
  <2> QED
    BY <1>1, <2>1, StoreWrite_BudgetInv, Evict_BudgetInv DEF Store
<1>2. CASE LookupLive \/ LookupElsewhere \/ LoadMisses \/ LoadFails \/ LoadEvicted
  <2>1. Quiet
    BY <1>2 DEF LookupLive, LookupElsewhere, LoadMisses, LoadFails, LoadEvicted, Fault
  <2> QED
    BY <2>1, FewerFilesFit
<1>3. CASE Plan \/ SyncPrompt \/ Progress \/ Prefill \/ PrefillFails \/ PrefillDone
  <2>1. Quiet
    BY <1>3 DEF Plan, SyncPrompt, Progress, Prefill, PrefillFails, PrefillDone, Fault
  <2> QED
    BY <2>1, FewerFilesFit
<1>4. CASE Decode \/ SampleEos \/ SampleFails \/ StopHit \/ Abandon \/ Finish
  <2>1. Quiet
    BY <1>4 DEF Decode, SampleEos, SampleFails, StopHit, Abandon, Finish, Fault
  <2> QED
    BY <2>1, FewerFilesFit
<1>5. CASE \/ \E token \in Sampled : SampleToken(token)
           \/ \E text \in Requests : Request(text)
           \/ Shutdown \/ Crash \/ Restart
  <2>1. Quiet
    BY <1>5 DEF SampleToken, Request, Shutdown, Crash, Restart, Fault
  <2> QED
    BY <2>1, FewerFilesFit
<1>6. CASE UNCHANGED vars
  <2>1. (SizeOf(disk))' = SizeOf(disk')
    OBVIOUS
  <2>2. UNCHANGED <<disk, pc, faults>>
    BY <1>6 DEF vars, kvVars
  <2> QED
    BY <2>1, <2>2 DEF BudgetInv
<1> QED
  BY <1>1, <1>2, <1>3, <1>4, <1>5, <1>6, LoadHits_BudgetInv DEF Next, Worker

LEMMA Init_BudgetInv ==
  ASSUME Init
  PROVE  BudgetInv
<1>1. disk = {} /\ IsFiniteSet({}) /\ {} \in SUBSET FileSet
  BY FS_EmptySet DEF Init
<1>2. SizeOf({}) = 0
  BY <1>1, SizeFacts
<1> QED
  BY <1>1, <1>2, KVAssumption DEF BudgetInv

-----------------------------------------------------------------------------
(* Before the session is replaced, or the process ends, it is saved. *)

\* A file of the session's text is there, or the session had to give way.
GivesWay == \/ FileSize(LiveFile) > Budget
            \/ disk # {} /\ \A f \in disk : WorthNoMore(LiveFile, f)
Saved == FileNamed(Text(checkpoint)) # {} \/ GivesWay

\* After the file was written every other file fits the budget, so the last one
\* to be removed can only be the new one.
Trimmed == /\ LiveFile \in disk \/ GivesWay
           /\ \A f \in disk : f = LiveFile \/ FileSize(f) <= Budget

\* A store whose caller will then replace the session or end the process.
Leaving == Storing /\ store.next \in {"load", "down"}
Unfailed == valid /\ Pos >= MinTokens /\ faults \cap {"io", "unlink"} = {}

SavedInv ==
  Unfailed =>
    /\ Leaving /\ pc \in {"store", "write"} => store.tokens = checkpoint
    /\ Leaving /\ pc = "evict" => Trimmed
    /\ \/ pc = "load" /\ job.phase # "canon"
       \/ pc = "down" /\ "crash" \notin faults
       => Saved

\* Elsewhere the session need not be saved.
LEMMA SavedElsewhere ==
  ASSUME pc' \notin {"load", "down"}, ~Leaving'
  PROVE  SavedInv'
BY DEF SavedInv

LEMMA SavedNotAsked ==
  ASSUME ~Unfailed'
  PROVE  SavedInv'
BY DEF SavedInv

\* What a store does not touch.
LEMMA LiveStays ==
  ASSUME UNCHANGED sessionVars
  PROVE  /\ checkpoint' = checkpoint /\ valid' = valid /\ LiveFile' = LiveFile
         /\ Pos' = Pos /\ (Text(checkpoint))' = Text(checkpoint)
BY DEF sessionVars, LiveFile, Pos, Text

LEMMA StoreSkipped_SavedInv ==
  ASSUME IInv, SavedInv, StoreSkipped
  PROVE  SavedInv'
<1>1. /\ pc = "store" /\ ~Storable /\ Return /\ UNCHANGED <<disk, faults>>
      /\ UNCHANGED sessionVars /\ Storing /\ store.next \in Returns
  BY DEF StoreSkipped, Storing, IInv, WorkerType
<1>2. ~Leaving'
  BY <1>1 DEF Return, Returns, Leaving, Storing
<1>3. CASE Leaving
  <2>1. ~Unfailed
    <3>1. Unfailed => store.tokens = checkpoint /\ Storable
      BY <1>1, <1>3 DEF SavedInv, Unfailed, Storable, CanSave, Pos
    <3> QED
      BY <1>1, <3>1
  <2> QED
    BY <1>1, <2>1, LiveStays, SavedNotAsked DEF Unfailed
<1>4. CASE ~Leaving
  <2>1. pc' \notin {"load", "down"}
    BY <1>1, <1>4 DEF Return, Leaving
  <2> QED
    BY <1>2, <2>1, SavedElsewhere
<1> QED
  BY <1>3, <1>4

\* A file of that text is there already.
LEMMA StoreExists_SavedInv ==
  ASSUME IInv, SavedInv, StoreExists
  PROVE  SavedInv'
<1>1. /\ pc = "store" /\ Storable /\ Return /\ UNCHANGED disk
      /\ UNCHANGED sessionVars /\ Storing /\ store.next \in Returns
      /\ FileNamed(Text(store.tokens)) # {} /\ store.tokens = checkpoint
  BY DEF StoreExists, Storing, IInv, WorkerType, Storable
<1>2. ~Leaving'
  BY <1>1 DEF Return, Returns, Leaving, Storing
<1>3. FileNamed(Text(checkpoint)) # {}
  BY <1>1
<1>4. Saved'
  <2>1. UNCHANGED <<disk, checkpoint>>
    BY <1>1, LiveStays
  <2> QED
    BY <1>3, <2>1 DEF Saved, FileNamed, FileText, Text
<1> QED
  BY <1>2, <1>4 DEF SavedInv, Leaving

LEMMA StoreReplaces_SavedInv ==
  ASSUME IInv, SavedInv, StoreReplaces
  PROVE  SavedInv'
<1>1. /\ pc' = "write" /\ UNCHANGED store /\ store.tokens = checkpoint
      /\ UNCHANGED sessionVars
  BY DEF StoreReplaces, Storable
<1>2. store'.tokens = checkpoint'
  BY <1>1, LiveStays
<1> QED
  BY <1>1, <1>2 DEF SavedInv

LEMMA StoreWrite_SavedInv ==
  ASSUME IInv, BudgetInv, SavedInv, StoreWrite
  PROVE  SavedInv'
<1>1. /\ pc = "write" /\ UNCHANGED sessionVars /\ LiveFile' = LiveFile
      /\ disk \subseteq FileSet /\ IsFiniteSet(disk)
  BY LiveStays DEF StoreWrite, IInv, WorkerType, BudgetInv
<1>2. CASE /\ disk' = (disk \ FileNamed(Text(store.tokens))) \cup {LiveFile}
           /\ pc' = "evict" /\ UNCHANGED faults
  <2>1. ASSUME Unfailed' PROVE Trimmed'
    <3>1. SizeOf(disk) <= Budget
      BY <1>1, <1>2, <2>1 DEF BudgetInv, Unfailed
    <3>2. ASSUME NEW f \in disk PROVE FileSize(f) <= Budget
      <4>1. FileSize(f) <= SizeOf(disk)
        BY <1>1, SizeOfOne
      <4>2. FileSize(f) \in Nat /\ SizeOf(disk) \in Nat /\ Budget \in Nat
        BY <1>1, FileSizeType, SizeFacts, KVAssumption
      <4> QED
        BY <3>1, <4>1, <4>2
    <3>3. LiveFile' \in disk' /\ \A f \in disk' : f = LiveFile' \/ FileSize(f) <= Budget
      <4> HIDE DEF LiveFile
      <4> QED
        BY <1>1, <1>2, <3>2
    <3> HIDE DEF LiveFile
    <3> QED
      BY <3>3 DEF Trimmed, FileSize
  <2> QED
    BY <1>2, <2>1 DEF SavedInv
<1>3. CASE Fault("io")
  BY <1>3, SavedNotAsked DEF Fault, Unfailed
<1> QED
  BY <1>2, <1>3 DEF StoreWrite

\* One file less: the new one, if it is worth no more than any other, or alone
\* too large; or an other one, which is not the last.
LEMMA EvictTrims ==
  ASSUME disk \subseteq FileSet, IsFiniteSet(disk), UNCHANGED sessionVars, ~(DiskSize <= Budget),
         Trimmed, NEW f \in Victims, disk' = disk \ {f}
  PROVE  Trimmed'
<1>1. f \in disk /\ \A g \in disk : WorthNoMore(f, g)
  BY DEF Victims
<1>2. LiveFile' = LiveFile
  BY LiveStays
<1>3. disk = {f} => FileSize(f) > Budget
  <2>1. ASSUME disk = {f} PROVE FileSize(f) > Budget
    <3>1. SizeOf(disk) = FileSize(f) /\ FileSize(f) \in Nat
      BY <1>1, <2>1, SizeOfOne, FileSizeType
    <3>2. ~(SizeOf(disk) <= Budget)
      BY DEF DiskSize, SizeOf
    <3> QED
      BY <3>1, <3>2, KVAssumption
  <2> QED
    BY <2>1
<1>4. disk' = {} => disk = {f}
  BY <1>1
<1> DEFINE L == LiveFile
           Gone == \/ FileSize(L) > Budget
                   \/ disk' # {} /\ \A g \in disk' : WorthNoMore(L, g)
<1>5. L \in disk \/ FileSize(L) > Budget \/ (disk # {} /\ \A g \in disk : WorthNoMore(L, g))
  BY DEF Trimmed, GivesWay
<1>6. \A g \in disk : g = L \/ FileSize(g) <= Budget
  BY DEF Trimmed
<1> HIDE DEF L
<1>7. L \in disk' \/ Gone
  <2>1. CASE L \in disk /\ L # f
    BY <2>1
  <2>2. CASE L = f
    BY <1>1, <1>3, <1>4, <2>2
  <2>3. CASE L \notin disk
    <3>1. FileSize(f) <= Budget /\ FileSize(f) \in Nat
      BY <1>1, <1>6, <2>3, FileSizeType
    <3>2. disk' # {}
      BY <1>3, <1>4, <3>1, KVAssumption
    <3> QED
      BY <1>5, <2>3, <3>2
  <2> QED
    BY <2>1, <2>2, <2>3
<1>8. L = LiveFile'
  BY <1>2 DEF L
<1>9. \A g \in disk' : g = L \/ FileSize(g) <= Budget
  BY <1>6
<1> HIDE DEF LiveFile
<1> QED
  BY <1>7, <1>8, <1>9 DEF Trimmed, GivesWay, WorthNoMore, FileSize

LEMMA Evict_SavedInv ==
  ASSUME IInv, BudgetInv, SavedInv, Evict
  PROVE  SavedInv'
<1>1. /\ pc = "evict" /\ Storing /\ UNCHANGED sessionVars /\ LiveFile' = LiveFile
      /\ disk \subseteq FileSet /\ IsFiniteSet(disk) /\ store.next \in Returns
  BY LiveStays DEF Evict, Storing, IInv, WorkerType, BudgetInv
<1>2. Unfailed' => Unfailed
  BY <1>1, LiveStays DEF Unfailed, Evict, Fault
<1>3. CASE Return /\ UNCHANGED <<disk, faults>>
  <2>1. ~Leaving'
    BY <1>1, <1>3 DEF Return, Returns, Leaving, Storing
  <2>2. CASE Leaving /\ Unfailed'
    <3>1. LiveFile \in disk \/ GivesWay
      BY <1>1, <1>2, <2>2 DEF SavedInv, Trimmed
    <3>2. LiveFile \in disk => FileNamed(Text(checkpoint)) # {}
      BY DEF FileNamed, FileText, LiveFile
    <3>3. UNCHANGED <<disk, checkpoint, LiveFile>>
      BY <1>1, <1>3, LiveStays
    <3>4. Saved
      BY <3>1, <3>2 DEF Saved
    <3>5. Saved'
      <4> HIDE DEF LiveFile
      <4> QED
        BY <3>3, <3>4 DEF Saved, GivesWay, FileNamed, FileText, Text, FileSize, WorthNoMore
    <3> QED
      BY <2>1, <3>5 DEF SavedInv, Leaving
  <2>3. CASE ~Leaving
    BY <1>1, <1>3, <2>1, <2>3, SavedElsewhere DEF Return, Leaving
  <2> QED
    BY <2>2, <2>3, SavedNotAsked
<1>4. CASE /\ ~(DiskSize <= Budget) /\ UNCHANGED <<pc, store, faults>>
           /\ \E f \in Victims : disk' = disk \ {f}
  <2>1. Leaving' = Leaving
    BY <1>4 DEF Leaving, Storing
  <2>2. ASSUME Leaving, Unfailed' PROVE Trimmed'
    <3>1. Trimmed
      BY <1>1, <1>2, <2>2 DEF SavedInv
    <3>2. PICK f \in Victims : disk' = disk \ {f}
      BY <1>4
    <3> QED
      BY <1>1, <1>4, <3>1, <3>2, EvictTrims
  <2> QED
    BY <1>1, <1>4, <2>1, <2>2 DEF SavedInv
<1>5. CASE Fault("unlink")
  BY <1>5, SavedNotAsked DEF Fault, Unfailed
<1> QED
  BY <1>3, <1>4, <1>5 DEF Evict

\* The live session is asked to be stored before it is left.
LEMMA LookupElsewhere_SavedInv ==
  ASSUME LookupElsewhere \/ Shutdown
  PROVE  SavedInv'
<1>1. /\ UNCHANGED sessionVars
      /\ \/ /\ pc' = "store" /\ store'.tokens = checkpoint
         \/ /\ ~(Pos >= MinTokens) /\ pc' \in {"load", "down"}
  BY DEF LookupElsewhere, Shutdown, CallStore
<1>2. checkpoint' = checkpoint /\ Pos' = Pos
  BY <1>1, LiveStays
<1>3. CASE pc' = "store" /\ store'.tokens = checkpoint
  BY <1>2, <1>3 DEF SavedInv
<1>4. CASE ~(Pos >= MinTokens)
  BY <1>2, <1>4, SavedNotAsked DEF Unfailed
<1> QED
  BY <1>1, <1>3, <1>4

\* A process that is gone, or starts, holds no session.
LEMMA Forgotten_SavedInv ==
  ASSUME Crash \/ Restart
  PROVE  SavedInv'
<1>1. valid' = FALSE
  BY DEF Crash, Restart, Forget
<1> QED
  BY <1>1, SavedNotAsked DEF Unfailed

\* Stores in the middle of a request do not lead away from the session.
LEMMA Next_SavedInv ==
  ASSUME IInv, BudgetInv, SavedInv, [Next]_vars
  PROVE  SavedInv'
<1> DEFINE Quiet == pc' \notin {"load", "down"} /\ ~Leaving'
<1>1. CASE Store
  BY <1>1, StoreSkipped_SavedInv, StoreExists_SavedInv, StoreReplaces_SavedInv,
     StoreWrite_SavedInv, Evict_SavedInv DEF Store
<1>2. CASE LookupLive \/ LoadMisses \/ LoadFails \/ LoadHits \/ LoadEvicted
  <2>1. Quiet
    BY <1>2 DEF LookupLive, LoadMisses, LoadFails, LoadHits, LoadEvicted, AfterMiss,
                Leaving, Storing
  <2> QED
    BY <2>1, SavedElsewhere
<1>3. CASE Plan \/ SyncPrompt \/ Progress \/ Prefill \/ PrefillFails \/ PrefillDone
  <2>1. Quiet
    BY <1>3 DEF Plan, SyncPrompt, SyncOrEnd, Progress, Prefill, PrefillFails, PrefillDone,
                EndJob, CallStore, Leaving, Storing
  <2> QED
    BY <2>1, SavedElsewhere
<1>4. CASE Decode \/ SampleEos \/ SampleFails \/ StopHit \/ Abandon
  <2>1. Quiet
    BY <1>4 DEF Decode, SampleEos, SampleFails, StopHit, Abandon,
                EndJob, CallStore, Leaving, Storing
  <2> QED
    BY <2>1, SavedElsewhere
<1>5. CASE Finish
  <2>1. CASE pc' = "load" /\ job' = [job EXCEPT !.prompt = Canonical, !.phase = "canon"]
    <3>1. job \in JobSet
      BY <1>5, Here DEF Finish, Storing
    <3>2. job'.phase = "canon"
      BY <2>1, <3>1 DEF JobSet
    <3> QED
      BY <2>1, <3>2 DEF SavedInv, Leaving, Storing
  <2>2. CASE pc' = "idle"
    BY <2>2, SavedElsewhere DEF Leaving, Storing
  <2> QED
    BY <1>5, <2>1, <2>2 DEF Finish, EndJob
<1>6. CASE \/ \E token \in Sampled : SampleToken(token)
           \/ \E text \in Requests : Request(text)
  <2>1. Quiet
    BY <1>6 DEF SampleToken, Request, Leaving, Storing
  <2> QED
    BY <2>1, SavedElsewhere
<1>7. CASE UNCHANGED vars
  <2>1. UNCHANGED <<sessionVars, pc, job, store, disk, faults>> /\ LiveFile' = LiveFile
    BY <1>7, LiveStays DEF vars, kvVars
  <2>2. Unfailed' = Unfailed /\ Leaving' = Leaving /\ UNCHANGED checkpoint
    BY <2>1, LiveStays DEF Unfailed, Leaving, Storing
  <2>3. Saved' = Saved /\ Trimmed' = Trimmed
    <3> HIDE DEF LiveFile
    <3> QED
      BY <2>1, <2>2 DEF Saved, Trimmed, GivesWay, FileNamed, FileText, Text, FileSize, WorthNoMore
  <2> QED
    BY <2>1, <2>2, <2>3 DEF SavedInv
<1> QED
  BY <1>1, <1>2, <1>3, <1>4, <1>5, <1>6, <1>7, LookupElsewhere_SavedInv, Forgotten_SavedInv
     DEF Next, Worker

-----------------------------------------------------------------------------
(* The theorems. *)

\* generate_job(), the disk cache and the session, through stores from inside
\* the progress callback, failed reads, writes and commands, crashes and
\* restarts: every reachable state satisfies the inductive invariant.
THEOREM IInvAlways ==
  ASSUME NEW Char, TokenizerExact(Char)
  PROVE  Spec => []IInv
<1>1. Init => IInv
  BY Init_IInv
<1>2. IInv /\ [Next]_vars => IInv'
  BY Next_IInv
<1> QED
  BY <1>1, <1>2, PTL DEF Spec

\* The variables of generate_job() and of the cache keep their types.
THEOREM TypeCorrect ==
  ASSUME NEW Char, TokenizerExact(Char)
  PROVE  Spec => []TypeOK
<1>1. IInv => TypeOK
  <2> SUFFICES ASSUME IInv PROVE TypeOK
    OBVIOUS
  <2>1. /\ conf \in Configs /\ checkpoint \in Seq(Token) /\ valid \in BOOLEAN
        /\ graph \in Seq(Token) \cup {Broken}
    BY DEF IInv, SessionInv, SessionType, TokenSeqs
  <2>2. /\ pc \in Pcs /\ store.tokens \in Seq(Token) /\ store.next \in Pcs
        /\ lastStore \in Nat /\ lastEvicted \in Seq(Token)
    BY DEF IInv, WorkerType, TokenSeqs, Returns, Pcs
  <2>3. pc \in {"progress", "sync"} => sync # NoSync
    BY DEF IInv, Calls, At, Storing
  <2>4. \A f \in disk : /\ f.tokens \in Seq(Token) /\ f.graph \in Seq(Token) \cup {Broken}
                        /\ f.hits \in 0..MaxHits
    BY DEF IInv, WorkerType, FileSet, TokenSeqs
  <2>5. job # NoJob => /\ job.prompt \in Seq(Token) /\ job.output \in Seq(Token)
                       /\ job.cached \in Nat /\ job.cold \in Nat
    BY DEF IInv, WorkerType, JobSet, TokenSeqs
  <2> QED
    BY <2>1, <2>2, <2>3, <2>4, <2>5 DEF TypeOK
<1> QED
  BY <1>1, IInvAlways, PTL

\* kv_cache_store_live_prefix() and kv_cache_try_load_text(): a cache file holds
\* the backend state of exactly the tokens whose text names it, and a text has
\* one file, whenever the process stops.
THEOREM FilesAlwaysExact ==
  ASSUME NEW Char, TokenizerExact(Char)
  PROVE  Spec => []FilesExact
<1>1. IInv => FilesExact
  BY DEF IInv
<1> QED
  BY <1>1, IInvAlways, PTL

\* generate_job(): wherever the prefix of a prompt came from, decoding continues
\* a backend state that stands for the bytes of the request and of the answer.
THEOREM AlwaysServedExactly ==
  ASSUME NEW Char, TokenizerExact(Char)
  PROVE  Spec => []ServedExactly
<1>1. IInv => ServedExactly
  <2> SUFFICES ASSUME IInv, pc \in {"decode", "sample"}
               PROVE  /\ valid /\ graph = checkpoint
                      /\ Text(checkpoint) = job.text \o Text(job.output)
    BY DEF ServedExactly
  <2> QED
    BY Decoding, Idle
<1> QED
  BY <1>1, IInvAlways, PTL

\* kv_cache_evict(): between requests the files fit the budget, unless an unlink
\* failed, also after a crash in the middle of a store and a restart.
THEOREM BudgetAlwaysKept ==
  ASSUME NEW Char, TokenizerExact(Char)
  PROVE  Spec => []BudgetKept
<1>1. Init => BudgetInv
  BY Init_BudgetInv
<1>2. IInv /\ BudgetInv /\ [Next]_vars => BudgetInv'
  BY Next_BudgetInv
<1>3. BudgetInv => BudgetKept
  BY DEF BudgetInv, BudgetKept, DiskSize, SizeOf
<1> QED
  BY <1>1, <1>2, <1>3, IInvAlways, PTL DEF Spec

\* generate_job() and main(): before the live session is replaced, or the process
\* ends in the orderly way, a file of its text is there, unless it could not be
\* written, is larger than the budget or had to give way to files worth more.
THEOREM AlwaysSessionSaved ==
  ASSUME NEW Char, TokenizerExact(Char)
  PROVE  Spec => []SessionSaved
<1>1. Init => BudgetInv /\ SavedInv
  BY Init_BudgetInv DEF Init, SessionInit, SavedInv, Unfailed
<1>2. IInv /\ BudgetInv /\ SavedInv /\ [Next]_vars => BudgetInv' /\ SavedInv'
  BY Next_BudgetInv, Next_SavedInv
<1>3. SavedInv => SessionSaved
  BY DEF SavedInv, SessionSaved, Unfailed, Saved, GivesWay
<1> QED
  BY <1>1, <1>2, <1>3, IInvAlways, PTL DEF Spec
=============================================================================
