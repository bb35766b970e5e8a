---- MODULE Tokenizer ----
(* Text to tokens and back (tokenizer/ds4_tokenizer.c): the vocabulary in    *)
(* open-addressed tables, the byte alphabet of GPT-2, the split of a text    *)
(* into pieces, byte-pair merges, and the markers of a rendered chat.        *)
(*                                                                           *)
(* A string is a sequence of bytes, a token its place in the vocabulary      *)
(* counted from 0, positions count from 1.                                   *)
EXTENDS Integers, Sequences, FiniteSets, SequencesExt, FiniteSetsExt

CONSTANTS TokenStrings, \* tokenizer.ggml.tokens
          MergeStrings, \* tokenizer.ggml.merges
          Specials,     \* the strings special_token_at() compares, in its order
          MaxPrefix,    \* DS4_REASONING_EFFORT_MAX_PREFIX
          Hash(_)       \* hash_bytes()

(***************************************************************************)
(* Tables                                                                  *)
(***************************************************************************)
\* table_init(), next_pow2()
Capacity(expected) == 2 ^ Min({k \in 0 .. 30 : 2 ^ k >= expected * 2 + 16})
EmptySlots(expected) == [i \in 0 .. Capacity(expected) - 1 |-> [used |-> FALSE]]
\* the slot where the key is, or where the probe ends
Slot(t, key) ==
  LET cap == Cardinality(DOMAIN t)
      from[i \in DOMAIN t] == IF t[i].used => t[i].key = key THEN i ELSE from[(i + 1) % cap]
  IN from[Hash(key) % cap]
\* table_put()
PutEntry(t, key, v) == [t EXCEPT ![Slot(t, key)] = [used |-> TRUE, key |-> key, value |-> v]]
\* table_get(), -1 where there is no entry
GetEntry(t, key) == LET e == t[Slot(t, key)] IN IF e.used THEN e.value ELSE -1
TableOf(keys) == FoldLeft(LAMBDA t, i : PutEntry(t, keys[i], i - 1), EmptySlots(Len(keys)), [i \in DOMAIN keys |-> i])

\* vocab_load()
TokenIds == TableOf(TokenStrings)
MergeRanks == TableOf(MergeStrings)
TokenId(s) == GetEntry(TokenIds, s)

(***************************************************************************)
(* UTF-8 and the byte alphabet                                             *)
(***************************************************************************)
\* utf8_put()
Utf8(cp) ==
  CASE cp < 128 -> <<cp>>
    [] cp \in 128 .. 2047 -> <<192 + (cp \div 64), 128 + (cp % 64)>>
    [] cp \in 2048 .. 65535 -> <<224 + (cp \div 4096), 128 + ((cp \div 64) % 64), 128 + (cp % 64)>>
    [] OTHER -> <<240 + (cp \div 262144), 128 + ((cp \div 4096) % 64), 128 + ((cp \div 64) % 64), 128 + (cp % 64)>>
\* utf8_len_from_first_byte()
CharLen(c) == CASE c \in 192 .. 223 -> 2 [] c \in 224 .. 239 -> 3 [] c \in 240 .. 247 -> 4 [] OTHER -> 1
\* next_utf8_char()
NextChar(s, p) == IF p + CharLen(s[p]) - 1 > Len(s) THEN p + 1 ELSE p + CharLen(s[p])
\* utf8_peek_one(), utf8_decode_one()
CharAt(s, p) ==
  LET n == NextChar(s, p) - p
      payload(i) == IF i = 0 THEN s[p] % (2 ^ (7 - n)) ELSE s[p + i] % 64
  IN IF n = 1 THEN s[p] ELSE FoldLeft(LAMBDA v, i : v * 64 + payload(i), 0, [i \in 1 .. n |-> i - 1])

PrintableByte(b) == b \in (33 .. 126) \cup (161 .. 172) \cup (174 .. 255)
Unprintable == {b \in 0 .. 255 : ~PrintableByte(b)}
Remapped(b) == 256 + Cardinality({x \in Unprintable : x < b})
\* Faulty variant for the checks: the soft hyphen counts as printable.
CodepointSoftHyphen(b) == IF PrintableByte(b) \/ b = 173 THEN b ELSE Remapped(b)
\* gpt2_byte_to_codepoint()
Codepoint(b) == IF PrintableByte(b) THEN b ELSE Remapped(b)
\* gpt2_codepoint_to_byte(), -1 where there is none
ByteOf(cp) ==
  IF PrintableByte(cp) THEN cp
  ELSE LET from == {b \in Unprintable : Remapped(b) = cp} IN IF from = {} THEN -1 ELSE Min(from)
\* byte_encode()
ByteEncode(s) == FlattenSeq([i \in DOMAIN s |-> Utf8(Codepoint(s[i]))])

\* s in the pieces that follow one another: ends(p) are the places where the
\* pieces from p on end, at least one.
Cut(s, ends(_)) ==
  LET from[p \in 1 .. Len(s) + 1] ==
        IF p > Len(s) THEN <<>>
        ELSE LET e == ends(p)
             IN [i \in DOMAIN e |-> SubSeq(s, IF i = 1 THEN p ELSE e[i - 1], e[i] - 1)] \o from[Last(e)]
  IN from[1]

(***************************************************************************)
(* bpe_emit_piece()                                                        *)
(***************************************************************************)
MergeOnce(syms) ==
  LET ranked == {<<GetEntry(MergeRanks, syms[i] \o <<32>> \o syms[i + 1]), i>> : i \in 1 .. Len(syms) - 1}
      lowest == Min({r[1] : r \in ranked} \ {-1})
      i == Min({r[2] : r \in {q \in ranked : q[1] = lowest}})
  IN IF \A r \in ranked : r[1] = -1 THEN syms
     ELSE SubSeq(syms, 1, i - 1) \o <<syms[i] \o syms[i + 1]>> \o SubSeq(syms, i + 2, Len(syms))
\* a symbol that is no token falls apart into bytes that are
SymbolTokens(sym) ==
  IF TokenId(sym) >= 0 THEN <<TokenId(sym)>>
  ELSE SelectSeq([j \in DOMAIN sym |-> TokenId(<<sym[j]>>)], LAMBDA t : t >= 0)
EmitPiece(piece) ==
  LET encoded == ByteEncode(piece)
      chars == Cut(encoded, LAMBDA p : <<NextChar(encoded, p)>>)
      merged == FoldLeft(LAMBDA syms, c : MergeOnce(syms), chars, chars)
  IN FlattenSeq([i \in DOMAIN merged |-> SymbolTokens(merged[i])])

(***************************************************************************)
(* bpe_tokenize_text()                                                     *)
(***************************************************************************)
AsciiAlpha == (65 .. 90) \cup (97 .. 122)
Digits == 48 .. 57
Spaces == {32} \cup (9 .. 13)
Newlines == {10, 13}
Puncts == (33 .. 47) \cup (58 .. 64) \cup (91 .. 96) \cup (123 .. 126)
\* joyai_letter_like_at(): every byte outside ASCII counts as a letter
Letters == AsciiAlpha \cup (128 .. 255)
\* joyai_cjk_at()
CjkAt(s, p) == p <= Len(s) /\ s[p] >= 128 /\ CharAt(s, p) \in (19968 .. 40869) \cup (12352 .. 12447) \cup (12448 .. 12543)
Stretch(s, p, C) == Min({e \in p .. Len(s) + 1 : e = Len(s) + 1 \/ s[e] \notin C})
\* joyai_consume_letters()
LettersEnd(s, p) ==
  LET from[q \in p .. Len(s) + 1] == IF q > Len(s) \/ s[q] \notin Letters THEN q ELSE from[NextChar(s, q)] IN from[p]
CjkEnd(s, p) == LET from[q \in p .. Len(s) + 1] == IF CjkAt(s, q) THEN from[NextChar(s, q)] ELSE q IN from[p]
Precedes(s, p, C) == p < Len(s) /\ s[p + 1] \in C

\* The branches of the loop: where the pieces from p on end, or nothing.
When(condition, e) == IF condition THEN <<e>> ELSE <<>>
DigitsPiece(s, p) == When(s[p] \in Digits, Min({Stretch(s, p, Digits), p + 3}))
CjkPiece(s, p) == When(CjkAt(s, p), CjkEnd(s, p))
PunctWordPiece(s, p) == When(s[p] \in Puncts /\ Precedes(s, p, AsciiAlpha), Stretch(s, p + 1, AsciiAlpha))
LettersPiece(s, p) == When(s[p] \in Letters, LettersEnd(s, p))
LedLettersPiece(s, p) == When(s[p] \notin Newlines \cup Puncts /\ Precedes(s, p, Letters), LettersEnd(s, p + 1))
PunctsEnd(s, p) == Stretch(s, Stretch(s, p, Puncts), Newlines)
SpacePunctsPiece(s, p) == When(s[p] = 32 /\ Precedes(s, p, Puncts), PunctsEnd(s, p + 1))
\* Faulty variant for the checks: newlines after punctuation are cut off.
PunctsPieceBare(s, p) == When(s[p] \in Puncts, Stretch(s, p, Puncts))
PunctsPiece(s, p) == When(s[p] \in Puncts, PunctsEnd(s, p))
SpacePieces(s, p) ==
  LET e == Stretch(s, p, Spaces)
      afterNewlines == {i + 1 : i \in {j \in p .. e - 1 : s[j] \in Newlines}}
  IN IF s[p] \notin Spaces THEN <<>>
     ELSE (IF afterNewlines = {} \/ e \in afterNewlines THEN <<>> ELSE <<Max(afterNewlines)>>) \o <<e>>
PieceEnds(s, p) ==
  LET branches == <<DigitsPiece(s, p), CjkPiece(s, p), PunctWordPiece(s, p), LettersPiece(s, p), LedLettersPiece(s, p),
                    SpacePunctsPiece(s, p), PunctsPiece(s, p), SpacePieces(s, p), <<p + 1>> >>
  IN branches[Min({i \in DOMAIN branches : branches[i] # <<>>})]
Pieces(s) == Cut(s, LAMBDA p : PieceEnds(s, p))
Tokenize(s) == LET pieces == Pieces(s) IN FlattenSeq([i \in DOMAIN pieces |-> EmitPiece(pieces[i])])

(***************************************************************************)
(* Chats                                                                   *)
(***************************************************************************)
\* special_token_at()
SpecialAt(s, p) == {i \in DOMAIN Specials : IsPrefix(Specials[i], SubSeq(s, p, Len(s)))}
\* tokenize_rendered_chat_vocab()
TokenizeRendered(s) ==
  LET end == Len(s) + 1
      from[span \in 1 .. end, p \in 1 .. end] ==
        IF p = end THEN Tokenize(SubSeq(s, span, p - 1))
        ELSE IF SpecialAt(s, p) = {} THEN from[span, p + 1]
        ELSE LET special == Specials[Min(SpecialAt(s, p))]
             IN Tokenize(SubSeq(s, span, p - 1)) \o <<TokenId(special)>> \o from[p + Len(special), p + Len(special)]
  IN from[1, 1]
\* The strings of the roles, by their places in special_token_at().
Bos == Specials[1]
UserMark == Specials[3]
AssistantMark == Specials[4]
ThinkStart == Specials[5]
ThinkEnd == Specials[6]
\* encode_chat_prompt()
EncodeChat(system, prompt, mode) ==
  <<TokenId(Bos)>> \o (IF mode = "max" THEN Tokenize(MaxPrefix) ELSE <<>>) \o Tokenize(system)
  \o <<TokenId(UserMark)>> \o Tokenize(prompt) \o <<TokenId(AssistantMark)>>
  \o <<TokenId(IF mode = "none" THEN ThinkEnd ELSE ThinkStart)>>

\* vocab_token_is_literal_special(): U+FF5C
Bar == <<239, 189, 156>>
LiteralSpecial(s) == \E i \in 1 .. Len(s) : IsPrefix(Bar, SubSeq(s, i, Len(s)))
\* vocab_token_text()
TokenText(token) ==
  LET s == TokenStrings[token + 1]
      chars == Cut(s, LAMBDA p : <<NextChar(s, p)>>)
      bytes == [i \in DOMAIN chars |-> ByteOf(CharAt(chars[i], 1))]
  IN IF token + 1 \notin DOMAIN TokenStrings THEN <<>>
     ELSE IF LiteralSpecial(s) THEN s
     ELSE SelectSeq(bytes, LAMBDA b : b >= 0)
TextOf(tokens) == FlattenSeq([i \in DOMAIN tokens |-> TokenText(tokens[i])])

(***************************************************************************)
(* The patterns the split mirrors                                          *)
(***************************************************************************)
\* The space at p has another before it in its run.  Newlines after punctuation
\* belong to the punctuation.
InRun(s, p) ==
  LET start == Max({q \in 1 .. p : q = 1 \/ s[q - 1] \notin Spaces})
  IN s[p] \in Spaces
     /\ (IF start > 1 /\ s[start - 1] \in Puncts THEN Stretch(s, start, Newlines) ELSE start) < p
\* ds4_tokenizer.c:380-387 in their order: where a match of the k-th pattern at
\* p may end.  alone: the optional first character of the fourth and the fifth
\* is not the end of a longer run of spaces.
Matches(k, s, p, alone) ==
  LET all(a, e, C) == \A i \in a .. e - 1 : s[i] \in C
      ends == p + 1 .. Len(s) + 1
      nonLetters == 0 .. 255 \ (Letters \cup Puncts \cup Newlines)
      first(C) == IF s[p] \in C /\ ~(alone /\ InRun(s, p)) THEN p + 1 ELSE p
  IN CASE k = 1 -> {e \in ends : e <= p + 3 /\ all(p, e, Digits)}
       [] k = 2 -> {e \in ends : e <= Len(s) => s[e] \notin 128 .. 191} \cap
                   {e \in ends : \A i \in p .. e - 1 : s[i] >= 128 /\ (s[i] \in 128 .. 191 \/ CjkAt(s, i))}
       [] k = 3 -> {e \in ends : s[p] \in Puncts /\ e > p + 1 /\ all(p + 1, e, AsciiAlpha)}
       [] k = 4 -> {e \in ends : e > first(nonLetters) /\ all(first(nonLetters), e, Letters)}
       [] k = 5 -> {e \in ends : \E m \in first({32}) + 1 .. e : all(first({32}), m, Puncts) /\ all(m, e, Newlines)}
       [] k = 6 -> {e \in ends : all(p, e, Spaces) /\ s[e - 1] \in Newlines}
       [] k = 7 -> {e \in ends : all(p, e, Spaces) /\ (e <= Len(s) => s[e] \in Spaces)}
       [] k = 8 -> {e \in ends : all(p, e, Spaces)}
       [] OTHER -> {p + 1}
\* The first of the patterns that matches takes as much as it can.
PatternEnd(patterns, s, p, alone) ==
  Max(Matches(Min({k \in patterns : Matches(k, s, p, alone) # {}}), s, p, alone))
ListedPieces(s) == Cut(s, LAMBDA p : <<PatternEnd(1 .. 9, s, p, FALSE)>>)
\* Without the seventh pattern, \s+(?!\S), and runs of spaces in one piece.
RunPieces(s) == Cut(s, LAMBDA p : <<PatternEnd(1 .. 9 \ {7}, s, p, TRUE)>>)
====
