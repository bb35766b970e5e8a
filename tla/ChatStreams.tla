---------------------------- MODULE ChatStreams -----------------------------
(***************************************************************************)
(* The two live streams: openai_sse_stream_update() and                    *)
(* anthropic_sse_stream_update() translate the raw text that exists so far *)
(* into deltas of reasoning, content and tool arguments, and hold back     *)
(* what may still turn out to be syntax.  Every operator here is one call; *)
(* "out" is what the client has received.                                  *)
(***************************************************************************)
EXTENDS DsmlText

CONSTANT MarkerScan   \* pieces searched backwards for a "<" (80 bytes)

ASSUME MarkerScanAssumption == MarkerScan \in Nat /\ MarkerScan >= Len(ToolEnd)

-----------------------------------------------------------------------------
(* Holding back. *)

\* text_stream_safe_limit(): find_any_tool_start() looks at the whole text, the
\* other tests at the n pieces that may be shown.
TextSafe(t, start, n, tools, final) ==
  LET tool == Places(t, Len(t), start, ToolStart)
      trimmed == TrimSpace(t, start, n)
      opens == {q \in Max({start, n - MarkerScan}) .. n - 1 : t[q + 1] = "<"}
      held == IF opens = {} THEN trimmed ELSE Min({trimmed, Max(opens)})
  IN  IF n <= start THEN n
      ELSE IF tools /\ tool # {}
      THEN TrimSpace(t, start, Min(tool))
      ELSE IF tools /\ ~final
      THEN Utf8Safe(t, start, TrimSpace(t, start, held), FALSE)
      ELSE Utf8Safe(t, start, n, final)

\* dsml_entity_stream_safe_len()
EntitySafe(t, start, limit) ==
  LET amps == {q \in Max({start, limit - Len(Entity)}) .. limit - 1 : t[q + 1] = "&"}
  IN  IF amps # {} /\ PartialLit(t, limit, Max(amps), Entity) THEN Max(amps) ELSE limit

\* tool_param_value_stream_safe_len()
ParamSafe(t, start, n, isString) ==
  LET opens == {q \in Max({start, n - Len(ParamEnd)}) .. n - 1 : t[q + 1] = "<"}
      limit == IF opens # {} /\ PartialLit(t, n, Max(opens), ParamEnd)
               THEN Max(opens) ELSE n
  IN  Utf8Safe(t, start, IF isString THEN EntitySafe(t, start, limit) ELSE limit, FALSE)

-----------------------------------------------------------------------------
(* The part both streams share: the reasoning before </think>. *)

\* How far the reasoning may be shown, from where, and whether it is over.
Thinking(st, t, n, final) ==
  LET waits == ~st.checked /\ PartialLit(t, n, 0, ThinkOpen) /\ ~final
      from == IF ~st.checked /\ FullLit(t, n, 0, ThinkOpen)
              THEN Len(ThinkOpen) ELSE st.emit
      close == Places(t, Len(t), from, ThinkClose)
      hold == Len(ThinkClose) - 1
  IN  [waits |-> waits, from |-> from, closed |-> close # {},
       limit |-> IF close # {} THEN Min(close)
                 ELSE IF final THEN n
                 ELSE Utf8Safe(t, from, IF n > hold THEN n - hold ELSE from, FALSE)]

-----------------------------------------------------------------------------
(* OpenAI: arguments are streamed too. *)

\* openai_tool_stream: args is the text of each call sent so far.
NoTool == [state |-> "none", pos |-> 0, active |-> FALSE, index |-> 0,
           emitted |-> FALSE, open |-> FALSE, first |-> FALSE, isString |-> FALSE,
           args |-> <<>>]

\* openai_stream_start()
OpenAIStart(think) ==
  [mode |-> IF think THEN "thinking" ELSE "text", emit |-> 0, checked |-> FALSE,
   tool |-> NoTool, reasoning |-> <<>>, content |-> <<>>]

\* openai_tool_stream_init(): fails when the marker is not whole among the n
\* pieces that may be shown.
ToolInit(t, n, pos) ==
  IF FullLit(t, n, pos, ToolStart)
  THEN [NoTool EXCEPT !.state = "invokes", !.active = TRUE, !.pos = pos + Len(ToolStart)]
  ELSE [NoTool EXCEPT !.state = "error", !.pos = pos]

\* openai_tool_stream_fail()
ToolFail(ts) == [ts EXCEPT !.active = FALSE, !.state = "error"]

\* openai_tool_emit_args_fragment()
EmitArgs(ts, s) == [ts EXCEPT !.args[ts.index + 1] = @ \o s]

\* openai_tool_start_invoke()
StartInvoke(ts, t, n) ==
  LET ends == TagEnds(t, n, ts.pos)
  IN  IF ends = {} THEN ts
      ELSE IF NameAttr \notin Tag(t, ts.pos, Min(ends)) THEN ToolFail(ts)
      ELSE [ts EXCEPT !.args = Append(@, <<"{">>), !.emitted = TRUE, !.open = TRUE,
                      !.first = TRUE, !.pos = Min(ends) + 1, !.state = "params"]

\* openai_tool_emit_param_prefix()
ArgPrefix(first, isString) ==
  (IF first THEN <<>> ELSE <<",">>) \o <<"key">> \o (IF isString THEN <<"QUOTE">> ELSE <<>>)

\* openai_tool_start_param(): both attributes are required.
StartParam(ts, t, n) ==
  LET ends == TagEnds(t, n, ts.pos)
      tag == Tag(t, ts.pos, Min(ends))
      isString == StringTrue \in tag
  IN  IF ends = {} THEN ts
      ELSE IF NameAttr \notin tag \/ tag \cap {StringTrue, StringFalse} = {}
      THEN ToolFail(ts)
      ELSE [EmitArgs(ts, ArgPrefix(ts.first, isString)) EXCEPT
              !.first = FALSE, !.isString = isString,
              !.pos = Min(ends) + 1, !.state = "value"]

\* openai_tool_emit_string_value(), or the value as it was generated.
EmitValue(ts, t, upto) ==
  LET value == SubSeq(t, ts.pos + 1, upto)
  IN  [EmitArgs(ts, IF ts.isString THEN Escape(Unescape(value)) ELSE value) EXCEPT
         !.pos = upto]

\* openai_tool_finish_param()
FinishParam(ts, t, end) ==
  LET shown == EmitValue(ts, t, end)
  IN  [EmitArgs(shown, IF ts.isString THEN <<"QUOTE">> ELSE <<>>) EXCEPT
         !.pos = end + Len(ParamEnd), !.state = "params"]

\* One round of openai_tool_stream_update()'s loop.
BetweenInvokes(ts, t, n) ==
  LET p == SkipSpace(t, n, ts.pos)
      at == [ts EXCEPT !.pos = p]
  IN  IF p >= n THEN at
      ELSE IF FullLit(t, n, p, ToolEnd)
      THEN [at EXCEPT !.pos = p + Len(ToolEnd), !.active = FALSE, !.state = "done"]
      ELSE IF PartialLit(t, n, p, ToolEnd) \/ PartialLit(t, n, p, InvokeStart) THEN at
      ELSE IF FullLit(t, n, p, InvokeStart) THEN StartInvoke(at, t, n)
      ELSE ToolFail(at)

BetweenParams(ts, t, n) ==
  LET p == SkipSpace(t, n, ts.pos)
      at == [ts EXCEPT !.pos = p]
  IN  IF p >= n THEN at
      ELSE IF FullLit(t, n, p, InvokeEnd)
      THEN [(IF ts.open THEN EmitArgs(at, <<"}">>) ELSE at) EXCEPT
              !.open = FALSE, !.pos = p + Len(InvokeEnd), !.index = @ + 1,
              !.state = "invokes"]
      ELSE IF PartialLit(t, n, p, InvokeEnd) \/ PartialLit(t, n, p, ParamStart) THEN at
      ELSE IF FullLit(t, n, p, ParamStart) THEN StartParam(at, t, n)
      ELSE ToolFail(at)

ParamValue(ts, t, n) ==
  LET end == Places(t, n, ts.pos, ParamEnd)
      limit == ParamSafe(t, ts.pos, n, ts.isString)
  IN  IF end # {} THEN FinishParam(ts, t, Min(end))
      ELSE IF limit > ts.pos THEN EmitValue(ts, t, limit)
      ELSE ts

ToolRound(ts, t, n) ==
  CASE ts.state = "invokes" -> BetweenInvokes(ts, t, n)
    [] ts.state = "params" -> BetweenParams(ts, t, n)
    [] ts.state = "value" -> ParamValue(ts, t, n)
    [] OTHER -> ts

\* openai_tool_stream_update(): rounds until the text or the block is used up.
RECURSIVE ToolUpdate(_, _, _)
ToolOn(ts, next, t, n) ==
  IF ~ts.active \/ ts.pos >= n \/ next = ts THEN ts ELSE ToolUpdate(next, t, n)
ToolUpdate(ts, t, n) == ToolOn(ts, ToolRound(ts, t, n), t, n)

OpenAIThought(st, th, t, final) ==
  IF th.waits THEN st
  ELSE [st EXCEPT
          !.checked = TRUE,
          !.reasoning = @ \o SubSeq(t, th.from + 1, th.limit),
          !.emit = IF th.closed THEN th.limit + Len(ThinkClose)
                   ELSE Max({th.from, th.limit}),
          !.mode = IF th.closed THEN "text" ELSE IF final THEN "suppress" ELSE @]

OpenAIThink(st, t, n, final) ==
  IF st.mode = "thinking" THEN OpenAIThought(st, Thinking(st, t, n, final), t, final) ELSE st

\* tool: where a block starts; limit: how far the text before it may be shown.
\* A block whose stream cannot start is not streamed.
OpenAIShow(st, t, n, tool, limit, final) ==
  LET block == IF tool # {} THEN ToolInit(t, n, Min(tool)) ELSE st.tool
  IN  [st EXCEPT
         !.content = @ \o SubSeq(t, st.emit + 1, limit),
         !.emit = IF tool # {} THEN Min(tool) ELSE Max({@, limit}),
         !.tool = block,
         !.mode = CASE tool # {} /\ block.active -> "tool"
                    [] tool # {} /\ ~block.active -> "suppress"
                    [] OTHER -> IF final THEN "suppress" ELSE @]

BlockStarts(st, t, tools) == IF tools THEN Places(t, Len(t), st.emit, ToolStart) ELSE {}

OpenAIText(st, t, n, tools, final) ==
  IF st.mode = "text"
  THEN OpenAIShow(st, t, n, BlockStarts(st, t, tools),
                  TextSafe(t, st.emit, n, tools, final), final)
  ELSE st

OpenAICalls(st, ts) == [st EXCEPT !.tool = ts, !.mode = IF ts.active THEN @ ELSE "suppress"]

OpenAITool(st, t, n) ==
  IF st.mode = "tool" THEN OpenAICalls(st, ToolUpdate(st.tool, t, n)) ELSE st

\* openai_sse_stream_update()
OpenAIUpdate(st, t, n, tools, final) ==
  OpenAITool(OpenAIText(OpenAIThink(st, t, n, final), t, n, tools, final), t, n)

WithCalls(st, calls) ==
  IF calls # <<>> /\ ~st.tool.emitted THEN [st EXCEPT !.tool.args = WholeCalls(calls)] ELSE st

\* openai_sse_finish_live(): the calls go out whole if none was streamed.
OpenAIFinish(st, t, tools, calls) ==
  WithCalls(OpenAIUpdate(st, t, Len(t), tools, TRUE), calls)

-----------------------------------------------------------------------------
(* Anthropic: numbered blocks, each started, filled and stopped. *)

\* anthropic_sse_start_live()
AnthropicStart(think) ==
  [mode |-> IF think THEN "thinking" ELSE "text", open |-> "none", next |-> 0,
   emit |-> 0, checked |-> FALSE, sentThinking |-> FALSE, sentText |-> FALSE,
   blocks |-> <<>>]

Block(index, kind) == [index |-> index, kind |-> kind, text |-> <<>>, stopped |-> FALSE]

\* anthropic_sse_open_block()
OpenBlock(st, kind) ==
  IF st.open = kind THEN st
  ELSE [st EXCEPT !.open = kind, !.blocks = Append(@, Block(st.next, kind))]

\* anthropic_sse_delta_live(): the delta names the block by its number.
BlockDelta(st, s) ==
  [st EXCEPT !.blocks =
     [k \in DOMAIN @ |-> IF @[k].index = st.next THEN [@[k] EXCEPT !.text = @ \o s]
                         ELSE @[k]]]

\* Faulty variant for the checks: the next block gets the same number.
CloseBlockUncounted(st) ==
  IF st.open = "none" THEN st
  ELSE [st EXCEPT !.open = "none",
          !.blocks = [k \in DOMAIN @ |->
             IF @[k].index = st.next THEN [@[k] EXCEPT !.stopped = TRUE] ELSE @[k]]]

\* anthropic_sse_close_block_live()
CloseBlock(st) ==
  IF st.open = "none" THEN st
  ELSE [st EXCEPT !.open = "none", !.next = @ + 1,
          !.blocks = [k \in DOMAIN @ |->
             IF @[k].index = st.next THEN [@[k] EXCEPT !.stopped = TRUE] ELSE @[k]]]

\* Part of a text, if there is any, as deltas of an open block of its kind.
ShowPart(st, kind, s) == IF s = <<>> THEN st ELSE BlockDelta(OpenBlock(st, kind), s)
CloseIf(st, over) == IF over THEN CloseBlock(st) ELSE st

AnthropicThought(st, th, t, final) ==
  IF th.waits THEN st
  ELSE [CloseIf(ShowPart(st, "thinking", SubSeq(t, th.from + 1, th.limit)),
                th.closed \/ final) EXCEPT
          !.checked = TRUE,
          !.sentThinking = @ \/ th.limit > th.from,
          !.emit = IF th.closed THEN th.limit + Len(ThinkClose)
                   ELSE Max({th.from, th.limit}),
          !.mode = IF th.closed THEN "text" ELSE IF final THEN "suppress" ELSE @]

AnthropicThink(st, t, n, final) ==
  IF st.mode = "thinking" THEN AnthropicThought(st, Thinking(st, t, n, final), t, final) ELSE st

AnthropicShow(st, t, tool, limit, final) ==
  [CloseIf(ShowPart(st, "text", SubSeq(t, st.emit + 1, limit)), tool # {} \/ final) EXCEPT
     !.sentText = @ \/ limit > st.emit,
     !.emit = IF tool # {} THEN Min(tool) ELSE Max({@, limit}),
     !.mode = IF tool # {} \/ final THEN "suppress" ELSE @]

AnthropicText(st, t, n, tools, final) ==
  IF st.mode = "text"
  THEN AnthropicShow(st, t, BlockStarts(st, t, tools), TextSafe(t, st.emit, n, tools, final),
                     final)
  ELSE st

\* anthropic_sse_stream_update()
AnthropicUpdate(st, t, n, tools, final) ==
  AnthropicText(AnthropicThink(st, t, n, final), t, n, tools, final)

\* anthropic_sse_tool_blocks_live(): whole blocks, one for each call.
ToolBlocks(st, calls) ==
  [st EXCEPT !.next = @ + Len(calls),
     !.blocks = @ \o [i \in 1..Len(calls) |->
        [index |-> st.next + i - 1, kind |-> "tool", text |-> ObjectOrEmpty(calls[i]),
         stopped |-> TRUE]]]

\* Faulty variant for the checks: the calls are sent before the held text.
AnthropicFinishCallsFirst(st, t, tools, calls) ==
  CloseBlock(AnthropicUpdate(ToolBlocks(CloseBlock(st), calls), t, Len(t), tools, TRUE))

\* A turn of thinking alone gets an empty text.
AnthropicLast(st, calls) ==
  IF st.sentThinking /\ ~st.sentText /\ calls = <<>>
  THEN CloseBlock(OpenBlock(st, "text")) ELSE st

\* anthropic_sse_finish_live()
AnthropicFinish(st, t, tools, calls) ==
  ToolBlocks(AnthropicLast(AnthropicUpdate(st, t, Len(t), tools, TRUE), calls), calls)

-----------------------------------------------------------------------------
(* The same reply sent whole. *)

\* append_anthropic_content(): a reply without text or calls gets an empty text.
AnthropicContent(r) ==
  LET block(kind, t) == [kind |-> kind, text |-> t]
      after == (IF r.content # <<>> THEN <<block("text", r.content)>> ELSE <<>>)
               \o [i \in 1..Len(r.calls) |-> block("tool", ObjectOrEmpty(r.calls[i]))]
  IN  (IF r.reasoning # <<>> THEN <<block("thinking", r.reasoning)>> ELSE <<>>)
      \o (IF after = <<>> THEN <<block("text", <<>>)>> ELSE after)
=============================================================================
