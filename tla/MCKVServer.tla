----------------------------- MODULE MCKVServer -----------------------------
(* Small instances of KVServer for TLC. *)
EXTENDS KVServer, SequencesExt

\* Characters 1 and 2, and the special tokens <think>, </think> and
\* end-of-sentence.
Open  == <<3>>
Close == <<4>>
End   == <<5>>

\* A byte-pair tokenizer with one merge: "1" followed by "2" is one token.
MCTokenize(text) ==
  LET merge(tokens, char) ==
        IF tokens # <<>> /\ Last(tokens) = <<1>> /\ char = 2
          THEN Append(Front(tokens), <<1, 2>>)
          ELSE Append(tokens, <<char>>)
  IN  FoldLeft(merge, <<>>, text)

MCToken == {<<1>>, <<2>>, <<1, 2>>, Open, Close, End}

\* A prompt, a continuation of its answer as the tokenizer would spell it, a
\* prompt that thinks, and the prompt of the turn after it.
MCRequests == {<<1, 1>>, <<1, 1, 2, 1, 1>>, <<1, 1, 3>>, <<1, 1, 4, 5, 3>>}
\* The prompts that think alone.
MCThinkingRequests == {<<1, 1, 3>>, <<1, 1, 4, 5, 3>>}
MCSampled  == {<<2>>, Close}

\* One session size; the batch is smaller than the prompts.
MCConfigs == {[ctx |-> 8, cap |-> 3, raw |-> 2]}

\* A smaller context that refuses the longest prompt and uses another batch.
MCConfigPair == {[ctx |-> 8, cap |-> 3, raw |-> 2], [ctx |-> 3, cap |-> 2, raw |-> 2]}
\* Room for a longer generation.
MCLargeConfigs == {[ctx |-> 11, cap |-> 3, raw |-> 2]}
=============================================================================
