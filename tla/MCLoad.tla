---- MODULE MCLoad ----
\* Instance of what is loaded from the model file for TLC: a process maps one or
\* two files, fills its cache, runs some operations and closes, or turns a text
\* into tokens.
EXTENDS WeightCache, Tokenizer, TLC

VARIABLE text \* the characters of the text, or nothing

Files == Main :> 5 @@ Draft :> 2
TA == Weight(Main, 0, 2, "attn_output", "listed")
TB == Weight(Main, 2, 1, "attn_q_b", "q_b")
TC == Weight(Main, 3, 2, "other", "other")
TD == Weight(Draft, 0, 2, "shexp", "listed")
Whole == Weight(Main, 0, 5, "other", "other")
MCTensors == <<TA, TB, TC>>
P(env, limit, limit16, draft, managed, register) ==
  [env |-> env, limit |-> limit, limit16 |-> limit16, draft |-> draft, managed |-> managed, register |-> register]
MCProcesses ==
  {P({}, 99, 99, FALSE, FALSE, "never"), P({"NO_DIRECT_IO"}, 99, 2, FALSE, FALSE, "pages"),
   P({"STRICT_WEIGHT_CACHE", "Q8_F16_PRELOAD", "Q8_F16_ALL"}, 99, 3, FALSE, FALSE, "never"),
   P({"Q8_F32_PRELOAD", "Q8_F32_LARGE", "NO_FD_CACHE"}, 99, 99, FALSE, FALSE, "pages"),
   P({"DIRECT_MODEL"}, 99, 99, FALSE, FALSE, "never"),
   P({}, 3, 99, TRUE, FALSE, "never"), P({"COPY_MODEL_CHUNKED"}, 99, 99, TRUE, FALSE, "never"),
   P({"COPY_MODEL"}, 99, 99, TRUE, FALSE, "map"),
   P({"COPY_MODEL_CHUNKED", "ATTN_Q_B_F32_CACHE", "Q8_F32_PRELOAD"}, 99, 99, FALSE, FALSE, "map"),
   P({"QUALITY"}, 4, 99, TRUE, FALSE, "pages"),
   P({"NO_ATTENTION_OUTPUT_F16_CACHE", "Q8_F32_ALL"}, 99, 99, FALSE, TRUE, "never")}
\* Both files in managed memory: mapping the second frees the first.
ManagedDraft == {P({}, 99, 99, TRUE, TRUE, "never")}
MCOperations ==
  {MatmulQ8(TA, 2, FALSE), MatmulQ8(TD, 2, TRUE), MatmulQ8Expand(TA), MatmulQ8Pair(TA, TB, 1, TRUE),
   MatmulQ8Pair(TB, TA, 2, TRUE), MatmulF16(TC, 2, TRUE), MatmulF16Pair(TC, TB, 1, TRUE),
   AttentionOutput(TA, TB, 2, TRUE), AttentionOutputLow(TA), MatmulF32(Whole)}

\* A vocabulary of the bytes the texts are made of, the merges below, in an order
\* in which later ones compete with earlier ones, and shortened special strings.
Symbol(b) == Utf8(Codepoint(b))
Marked(b) == Bar \o <<b>> \o Bar
MCSpecials == <<Marked(66), Marked(69), Marked(85), Marked(65), <<60, 116, 62>>, <<60, 47, 116, 62>>, Marked(68)>>
TextBytes == <<1, 10, 32, 46, 47, 49, 60, 62, 65, 66, 68, 69, 85, 97, 116, 156, 162, 169, 173, 188, 189, 194, 195, 230, 239>>
MergePairs ==
  <<(<<Symbol(97), Symbol(97)>>), <<Symbol(97) \o Symbol(97), Symbol(97)>>, <<Symbol(32), Symbol(97)>>,
    <<Symbol(10), Symbol(10)>>, <<Symbol(195), Symbol(169)>>, <<Symbol(230), Symbol(188)>>,
    <<Symbol(97), Symbol(195) \o Symbol(169)>>, <<Symbol(46), Symbol(10)>> >>
MCMerges == [i \in DOMAIN MergePairs |-> MergePairs[i][1] \o <<32>> \o MergePairs[i][2]]
MCTokens ==
  [i \in DOMAIN TextBytes |-> Symbol(TextBytes[i])]
  \o [i \in DOMAIN MergePairs |-> MergePairs[i][1] \o MergePairs[i][2]] \o MCSpecials
MCPrefix == <<97, 46, 10, 10>>
MCHash(key) == IF key = <<>> THEN 0 ELSE key[1] + 7 * Last(key)
\* a digit, a letter, punctuation, a space, a newline; two letters and a
\* character of several bytes, a control character and two special strings
Plain == {<<49>>, <<97>>, <<46>>, <<32>>, <<10>>, <<195, 169>>}
Rare == {<<194, 173>>, <<230, 188, 162>>, <<1>>, MCSpecials[3], MCSpecials[5]}
AnyTexts == SeqOf(Plain \cup Rare, 3) \cup SeqOf(Plain, 4)

\* A text grows by a character.
TypeChar ==
  /\ todo = StartupSteps(proc) /\ proc = P({}, 99, 99, FALSE, FALSE, "never")
  /\ text' \in {Append(text, c) : c \in Plain \cup Rare} \cap AnyTexts /\ UNCHANGED weightVars
LoadInit == WeightInit /\ text = <<>>
LoadNext == TypeChar \/ (text = <<>> /\ WeightNext /\ UNCHANGED text)
LoadSpec == LoadInit /\ [][LoadNext]_<<weightVars, text>>

\* vocab_token_text() against tokenize_rendered_chat_vocab() and
\* encode_chat_prompt(): the texts of the tokens of a text spell that text.
TextKept ==
  LET s == FlattenSeq(text)
      prefix(mode) == IF mode = "max" THEN MaxPrefix ELSE <<>>
      entry(mode) == IF mode = "none" THEN ThinkEnd ELSE ThinkStart
  IN text # <<>> =>
       /\ TextOf(TokenizeRendered(s)) = s
       /\ Len(text) <= 2 => \A mode \in {"none", "high", "max"} :
            TextOf(EncodeChat(MCPrefix, s, mode))
              = Bos \o prefix(mode) \o MCPrefix \o UserMark \o s \o AssistantMark \o entry(mode)

\* A run of several spaces whose last one, not a newline, the patterns leave to
\* the next piece: by the seventh, or after a newline as the optional first
\* character of the fourth or the fifth.
SpaceLeftOver(s) ==
  \E e \in 3 .. Len(s) :
    /\ s[e] \notin Spaces /\ s[e - 1] \notin Newlines /\ InRun(s, e - 1)
    /\ s[e - 2] \in Newlines => s[e] \in Letters \/ (s[e] \in Puncts /\ s[e - 1] = 32)

\* "The split below mirrors the JoyAI BPE pre-tokenizer" (ds4_tokenizer.c:376):
\* the branches of bpe_tokenize_text() cut every text where the listed patterns do,
\* except that a run of spaces is never parted.  They cut a text exactly as listed
\* when the patterns leave no last space of a run to what follows.
PiecesFollowPatterns ==
  text # <<>> => LET s == FlattenSeq(text)
                 IN Pieces(s) = RunPieces(s) /\ (Pieces(s) = ListedPieces(s) <=> ~SpaceLeftOver(s))

\* The same without the exception.
PiecesAsListed == text # <<>> => Pieces(FlattenSeq(text)) = ListedPieces(FlattenSeq(text))
====
