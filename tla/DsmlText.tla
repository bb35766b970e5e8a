------------------------------ MODULE DsmlText ------------------------------
(***************************************************************************)
(* The text a model generates and the parser that reads it when the turn   *)
(* is over.  A text is a sequence of pieces, the smallest parts a token    *)
(* boundary can separate: "<", "/" and the rest of a marker, the two bytes *)
(* of a character, the parts of an entity.  The three spellings of the     *)
(* DSML markers have the same structure; one is enough here.               *)
(*                                                                         *)
(* Positions count pieces from 0, as the code's offsets count bytes: the   *)
(* piece at position p of t is t[p + 1].                                   *)
(***************************************************************************)
EXTENDS Integers, Sequences, FiniteSetsExt, SequencesExt

ThinkOpen == <<"<", "think">>
ThinkClose == <<"<", "/", "think">>
ToolStart == <<"<", "dsml", "calls">>
ToolEnd == <<"<", "/", "calls">>
InvokeStart == <<"<", "invoke">>
InvokeEnd == <<"<", "/", "invoke">>
ParamStart == <<"<", "param">>
ParamEnd == <<"<", "/", "param">>

\* What a tag may hold before its ">".
NameAttr == "name"          \* name="..."
StringTrue == "string"      \* string="true"
StringFalse == "json"       \* string="false"

Space == " "
LeadByte == "C3"
NextByte == "A9"
Entity == <<"&", "lt", ";">>
Unescaped == "LT"

-----------------------------------------------------------------------------
(* Looking at a text. *)

\* raw_full_lit(), strncmp(p, lit, n): lit stands at position p of t[0..n).
FullLit(t, n, p, lit) ==
  p + Len(lit) <= n /\ SubSeq(t, p + 1, p + Len(lit)) = lit

\* raw_partial_lit(): the text ends at n inside what may become lit.
PartialLit(t, n, p, lit) ==
  p <= n /\ n - p < Len(lit) /\ IsPrefix(SubSeq(t, p + 1, n), lit)

\* strstr(), find_lit_bounded(): where lit stands from position p on.
Places(t, n, p, lit) == {q \in p .. n - Len(lit) : FullLit(t, n, q, lit)}

\* The first '>' from p on, memchr() and strchr(): where the tag at p ends.
TagEnds(t, n, p) == {q \in p .. n - 1 : t[q + 1] = ">"}
Tag(t, p, q) == {t[k] : k \in p + 1 .. q}

\* skip_ascii_ws() and the loops over isspace().
SkipSpace(t, n, p) ==
  Min({q \in p .. n : q = n \/ t[q + 1] # Space} \cup {Max({p, n})})

\* trim_tool_separator_ws()
TrimSpace(t, start, limit) ==
  Max({q \in start .. limit : q = start \/ t[q] # Space} \cup {Min({start, limit})})

\* utf8_stream_safe_len(): do not end a delta inside a character.
Utf8Safe(t, start, limit, final) ==
  IF final \/ limit <= start THEN limit
  ELSE IF t[limit] = LeadByte THEN limit - 1
  ELSE IF \A k \in start + 1 .. limit : t[k] = NextByte THEN start
  ELSE limit

\* dsml_unescape_text(): entities are decoded, any other "&" stays.
RECURSIVE Unescape(_)
Unescape(s) ==
  LET entity == IsPrefix(Entity, s)
  IN  IF s = <<>> THEN <<>>
      ELSE <<IF entity THEN Unescaped ELSE Head(s)>>
           \o Unescape(SubSeq(s, IF entity THEN Len(Entity) + 1 ELSE 2, Len(s)))

-----------------------------------------------------------------------------
(* JSON values among the pieces: "1" is a digit, "null" a literal, "key" a    *)
(* member's name with its colon.  -1 is where nothing can be read.  Escapes   *)
(* other than of quotes and backslashes are left out.                         *)

\* json_string(): past the quote that ends the string whose text goes on at p.
RECURSIVE StringEnd(_, _)
StringEnd(t, p) ==
  IF p >= Len(t) THEN -1
  ELSE IF t[p + 1] = "QUOTE" THEN p + 1
  ELSE IF t[p + 1] # "BACKSLASH" THEN StringEnd(t, p + 1)
  ELSE IF p + 1 < Len(t) /\ t[p + 2] \in {"QUOTE", "BACKSLASH"} THEN StringEnd(t, p + 2)
  ELSE -1

\* json_skip_value(), json_skip_object_depth(): past the value at p.  Arrays,
\* read as objects are, are left out.
RECURSIVE ValueEnd(_, _), MembersEnd(_, _)
ObjectEnd(t, q) ==
  IF q < Len(t) /\ t[q + 1] = "}" THEN q + 1 ELSE MembersEnd(t, q)
ValueAt(t, q) ==
  CASE q >= Len(t) -> -1
    [] q < Len(t) /\ t[q + 1] = "QUOTE" -> StringEnd(t, q + 1)
    [] q < Len(t) /\ t[q + 1] = "{" -> ObjectEnd(t, SkipSpace(t, Len(t), q + 1))
    [] q < Len(t) /\ t[q + 1] = "null" -> q + 1
    [] q < Len(t) /\ t[q + 1] = "1" ->
         Min({k \in q .. Len(t) : k = Len(t) \/ t[k + 1] # "1"})
    [] OTHER -> -1
ValueEnd(t, p) == ValueAt(t, SkipSpace(t, Len(t), p))
MembersOn(t, q) ==
  CASE q >= Len(t) -> -1
    [] q < Len(t) /\ t[q + 1] = "}" -> q + 1
    [] q < Len(t) /\ t[q + 1] = "," -> MembersEnd(t, SkipSpace(t, Len(t), q + 1))
    [] OTHER -> -1
MembersAfter(t, end) == IF end = -1 THEN -1 ELSE MembersOn(t, SkipSpace(t, Len(t), end))
MembersEnd(t, q) ==
  IF q < Len(t) /\ t[q + 1] = "key" THEN MembersAfter(t, ValueEnd(t, q + 1)) ELSE -1

\* The loop of json_minify_raw_value(): spaces go, except inside strings.
Compact(t) ==
  FoldLeft(LAMBDA st, c :
    [out |-> IF ~st.inside /\ c = Space THEN st.out ELSE Append(st.out, c),
     inside |-> IF c = "QUOTE" /\ ~st.escape THEN ~st.inside ELSE st.inside,
     escape |-> st.inside /\ ~st.escape /\ c = "BACKSLASH"],
    [out |-> <<>>, inside |-> FALSE, escape |-> FALSE], t).out

\* json_minify_raw_value(): what follows the first value is dropped, and what is
\* not a value stays as it is.
Minify(s) ==
  LET end == ValueEnd(s, 0)
  IN  IF end = -1 THEN s ELSE Compact(SubSeq(s, SkipSpace(s, Len(s), 0) + 1, end))

\* json_escape(), json_escape_fragment_n()
Escape(s) ==
  FlattenSeq([k \in DOMAIN s |->
    IF s[k] \in {"QUOTE", "BACKSLASH"} THEN <<"BACKSLASH", s[k]>> ELSE <<s[k]>>])

Quoted(s) == <<"QUOTE">> \o Escape(s) \o <<"QUOTE">>

-----------------------------------------------------------------------------
(* Arguments.  typed: the tag says whether the value is a string; a value that *)
(* is one has its entities decoded.  ", " and ": " are not told from "," and ":". *)

\* Faulty variant for the checks: an empty value is written as it is.
ArgTextEmpty(arg) == IF arg.string THEN Quoted(arg.value) ELSE Minify(arg.value)

\* The value tool_call_json_args_add() writes.
ArgText(arg) ==
  IF arg.string THEN Quoted(arg.value)
  ELSE IF Minify(arg.value) = <<>> THEN <<"null">> ELSE Minify(arg.value)

\* tool_call_json_args_add() for each argument: {"k":value,"k":value}.
Members(values) ==
  FlattenSeq([k \in DOMAIN values |->
    (IF k = 1 THEN <<>> ELSE <<",">>) \o <<"key">> \o values[k]])
CallText(args) == <<"{">> \o Members([k \in DOMAIN args |-> ArgText(args[k])]) \o <<"}">>

\* json_args_parse(): the values from p on as append_json_arg_pair() writes them
\* again, up to the first "}".  Commas are optional.
RECURSIVE Pairs(_, _, _)
PairsOn(t, v, end, values) ==
  IF end = -1 THEN [ok |-> FALSE]
  ELSE LET q == SkipSpace(t, Len(t), end)
       IN  Pairs(t, IF q < Len(t) /\ t[q + 1] = "," THEN q + 1 ELSE q,
                 Append(values, Compact(SubSeq(t, v + 1, end))))
PairsAt(t, q, values) ==
  CASE q < Len(t) /\ t[q + 1] = "}" -> [ok |-> TRUE, values |-> values]
    [] q < Len(t) /\ t[q + 1] = "key" ->
         PairsOn(t, SkipSpace(t, Len(t), q + 1), ValueEnd(t, q + 1), values)
    [] OTHER -> [ok |-> FALSE]
Pairs(t, p, values) == PairsAt(t, SkipSpace(t, Len(t), p), values)

\* append_json_object_or_empty(): arguments that are no JSON go out as {}.
ObjectOrEmpty(call) ==
  LET pairs == Pairs(call, 1, <<>>)
  IN  IF pairs.ok
      THEN <<"{">> \o Members(pairs.values) \o <<"}">>
      ELSE <<"{", "}">>
WholeCalls(calls) == [i \in DOMAIN calls |-> ObjectOrEmpty(calls[i])]

-----------------------------------------------------------------------------
(* split_reasoning_content(), parse_generated_message(). *)

SplitReasoning(t, n) ==
  LET body == IF FullLit(t, n, 0, ThinkOpen) THEN Len(ThinkOpen) ELSE 0
      close == Places(t, n, body, ThinkClose)
  IN  IF close = {}
      THEN [reasoning |-> <<>>, content |-> SubSeq(t, 1, n)]
      ELSE [reasoning |-> SubSeq(t, body + 1, Min(close)),
            content |-> SubSeq(t, Min(close) + Len(ThinkClose) + 1, n)]

Failed == [ok |-> FALSE]

\* A value between tags: a missing string attribute means a string.
ArgOf(tag, value) ==
  LET string == StringFalse \notin tag
  IN  [typed |-> tag \cap {StringTrue, StringFalse} # {}, string |-> string,
       value |-> IF string THEN Unescape(value) ELSE value]

\* One parameter at p: dsml_parse_leaf_param_json(), and the same code in the
\* loop over an invoke's parameters.
Leaf(t, p, args) ==
  LET n == Len(t)
      ends == TagEnds(t, n, p)
      tag == Tag(t, p, Min(ends))
      from == Min(ends) + 1
      close == Places(t, n, from, ParamEnd)
  IN  IF ends = {} \/ NameAttr \notin tag \/ close = {} THEN Failed
      ELSE [ok |-> TRUE, pos |-> Min(close) + Len(ParamEnd),
            args |-> Append(args, ArgOf(tag, SubSeq(t, from + 1, Min(close))))]

\* dsml_parse_nested_params_object(): parameters until something else.
RECURSIVE Nested(_, _, _)
NestedOn(t, leaf) == IF leaf.ok THEN Nested(t, leaf.pos, leaf.args) ELSE Failed
NestedAt(t, q, args) ==
  IF FullLit(t, Len(t), q, ParamStart) THEN NestedOn(t, Leaf(t, q, args))
  ELSE IF args = <<>> THEN Failed ELSE [ok |-> TRUE, pos |-> q, args |-> args]
Nested(t, p, args) == NestedAt(t, SkipSpace(t, Len(t), p), args)

\* A parameter whose value is the object the nested ones make.
Object(t, nested, after, args) ==
  IF nested.ok
  THEN [ok |-> TRUE,
        pos |-> IF FullLit(t, Len(t), after, ParamEnd) THEN after + Len(ParamEnd) ELSE after,
        args |-> Append(args, [typed |-> FALSE, string |-> FALSE,
                               value |-> CallText(nested.args)])]
  ELSE Failed
NestedParam(t, nested, args) ==
  Object(t, nested, IF nested.ok THEN SkipSpace(t, Len(t), nested.pos) ELSE 0, args)

\* The parameter at q.
ParamAt(t, q, args) ==
  LET ends == TagEnds(t, Len(t), q)
      inner == SkipSpace(t, Len(t), Min(ends) + 1)
  IN  IF ~FullLit(t, Len(t), q, ParamStart) \/ ends = {} THEN Failed
      ELSE IF NameAttr \notin Tag(t, q, Min(ends)) THEN Failed
      ELSE IF /\ Tag(t, q, Min(ends)) \cap {StringTrue, StringFalse} = {}
              /\ FullLit(t, Len(t), inner, ParamStart)
      THEN NestedParam(t, Nested(t, inner, <<>>), args)
      ELSE Leaf(t, q, args)

\* The parameters of an invoke, up to and with its end.
RECURSIVE Params(_, _, _)
ParamsOn(t, param) == IF param.ok THEN Params(t, param.pos, param.args) ELSE Failed
ParamsAt(t, q, args) ==
  IF FullLit(t, Len(t), q, InvokeEnd)
  THEN [ok |-> TRUE, pos |-> q + Len(InvokeEnd), args |-> args]
  ELSE ParamsOn(t, ParamAt(t, q, args))
Params(t, p, args) == ParamsAt(t, SkipSpace(t, Len(t), p), args)

RECURSIVE Invokes(_, _, _)
InvokesOn(t, params, calls) ==
  IF params.ok THEN Invokes(t, params.pos, Append(calls, params.args))
  ELSE Failed
InvokesAt(t, q, ends, calls) ==
  IF FullLit(t, Len(t), q, ToolEnd) THEN [ok |-> TRUE, calls |-> calls]
  ELSE IF ~FullLit(t, Len(t), q, InvokeStart) \/ ends = {} THEN Failed
  ELSE IF NameAttr \notin Tag(t, q, Min(ends)) THEN Failed
  ELSE InvokesOn(t, Params(t, Min(ends) + 1, <<>>), calls)
Invokes(t, p, calls) ==
  LET q == SkipSpace(t, Len(t), p)
  IN  InvokesAt(t, q, TagEnds(t, Len(t), q), calls)

\* parse_generated_message().  A block right after blank lines is preferred to
\* an earlier one without them.
ParsedCalls(split, invokes) ==
  IF invokes.ok
  THEN [ok |-> TRUE, content |-> split.content, reasoning |-> split.reasoning,
        args |-> invokes.calls,
        calls |-> [i \in DOMAIN invokes.calls |-> CallText(invokes.calls[i])]]
  ELSE Failed
ParseBlock(t, start) ==
  ParsedCalls(SplitReasoning(t, TrimSpace(t, 0, start)),
              Invokes(t, start + Len(ToolStart), <<>>))
Parse(t) ==
  LET starts == Places(t, Len(t), 0, ToolStart)
      spaced == Places(t, Len(t), 0, <<Space, Space>> \o ToolStart)
  IN  IF starts = {} THEN ParsedCalls(SplitReasoning(t, Len(t)), [ok |-> TRUE, calls |-> <<>>])
      ELSE ParseBlock(t, IF spaced # {} THEN Min(spaced) + 2 ELSE Min(starts))
=============================================================================
