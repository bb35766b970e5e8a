----------------------------- MODULE Generation -----------------------------
(***************************************************************************)
(* The decode loop of generate_job() and what follows it: tokens add to    *)
(* the text, stop sequences and tool markers end it, the live streams show *)
(* what is safe to show, and the finished text is parsed for the reply.    *)
(* The text a turn would produce is fixed at its start (req.text); how it  *)
(* is cut into tokens, and where it ends, is not.                          *)
(***************************************************************************)
EXTENDS ChatStreams, DsmlTracker

CONSTANTS
  Requests,    \* [text, api, tools, think, stops, splits]: what may be asked and answered;
               \* splits: a token may end in a "<" whose marker goes on
  MaxPiece,    \* bound: pieces in one token
  MarkerHold   \* pieces searched again for tool markers (80 bytes)

ASSUME GenerationAssumption ==
  /\ MaxPiece \in Nat \ {0} /\ MarkerHold \in Nat
  /\ \A r \in Requests : r.api \in {"openai", "anthropic", "plain"}

VARIABLES
  req,       \* the request and the text the model would generate
  text,      \* buf text
  live,      \* openai_live, anthropic_live, or the text sent as plain chunks
  scan,      \* stop_scan_from
  toolScan,  \* tool_scan_from
  saw,       \* saw_tool_start, saw_tool_end
  thinking,  \* thinking_state
  tracker,   \* dsml_tracker
  finish,    \* why the loop ended
  reply,     \* what was parsed and the finish reported
  connected  \* every write has succeeded

vars == <<req, text, live, scan, toolScan, saw, thinking, tracker, finish, reply, connected>>

Decoding == finish = "none"
NoReply == [finish |-> "none"]

LiveStart(r) ==
  CASE r.api = "openai" -> OpenAIStart(r.think)
    [] r.api = "anthropic" -> AnthropicStart(r.think)
    [] OTHER -> <<>>

\* thinking_state_from_prompt(): the prompt ends with <think> or </think>.
ThinkingStart(think) ==
  [inside |-> think, tail |-> IF think THEN ThinkOpen ELSE ThinkClose]

Init ==
  /\ req \in Requests
  /\ text = <<>>
  /\ live = LiveStart(req)
  /\ scan = 0 /\ toolScan = 0
  /\ saw = [start |-> FALSE, end |-> FALSE]
  /\ thinking = ThinkingStart(req.think)
  /\ tracker = TrackerInit
  /\ finish = "none" /\ reply = NoReply /\ connected = TRUE

-----------------------------------------------------------------------------
(* Stop sequences. *)

Longest(stops) == Max({Len(s) : s \in stops} \cup {0})

\* stop_list_find_from(): where the earliest stop sequence stands.
StopAt(t, from, stops) == UNION {Places(t, Len(t), from, s) : s \in stops}

\* Faulty variant for the checks: one piece too few is held.
StopSafeShort(n, stops) ==
  IF Longest(stops) <= 1 THEN n ELSE Max({0, n - (Longest(stops) - 2)})

\* stop_list_stream_safe_len()
StopSafe(n, stops) ==
  IF Longest(stops) <= 1 THEN n ELSE Max({0, n - (Longest(stops) - 1)})

\* Where the next search for stop sequences begins.
ScanFrom(n, stops) == Max({0, n - (Longest(stops) - 1)})

-----------------------------------------------------------------------------
(* One token. *)

\* thinking_state_feed(): the last bytes, as many as </think> has.
Feed(st, piece) ==
  FoldLeft(LAMBDA s, c :
    LET long == Append(s.tail, c)
        tail == IF Len(long) > Len(ThinkClose) THEN Tail(long) ELSE long
    IN  [tail |-> tail,
         inside |-> IF IsSuffix(ThinkOpen, tail) THEN TRUE
                    ELSE IF IsSuffix(ThinkClose, tail) THEN FALSE ELSE s.inside],
    st, piece)

\* observe_tool_markers() over the text from toolScan on.  Once a block has
\* started any end marker in the window ends it.
Observe(t) ==
  LET n == Len(t)
      start == Places(t, n, toolScan, ToolStart)
      from == IF saw.start THEN toolScan ELSE Min(start)
  IN  [start |-> saw.start \/ start # {},
       end |-> saw.end \/ ((saw.start \/ start # {}) /\ Places(t, n, from, ToolEnd) # {})]

\* What the client is shown of t when n pieces may be shown.
Show(t, n) ==
  CASE req.api = "openai" -> OpenAIUpdate(live, t, n, req.tools, FALSE)
    [] req.api = "anthropic" -> AnthropicUpdate(live, t, n, req.tools, FALSE)
    [] OTHER -> SubSeq(t, 1, Max({n, Len(live)}))

\* stream_len: up to the stop sequence, or what no stop sequence can reach.
Showable(t) ==
  LET stop == StopAt(t, scan, req.stops)
  IN  Utf8Safe(t, IF req.api = "plain" THEN Len(live) ELSE 0,
               IF stop # {} THEN Min(stop) ELSE StopSafe(Len(t), req.stops),
               stop # {})

\* The sampled token's text, with everything the loop does for it.
Token(k) ==
  /\ Decoding /\ Len(text) + k <= Len(req.text)
  /\ req.splits \/ req.text[Len(text) + k] # "<" \/ Len(text) + k = Len(req.text)
  /\ \E t \in {SubSeq(req.text, 1, Len(text) + k)} :
     \E stop \in {StopAt(t, scan, req.stops)} :
     \E seen \in {IF req.tools THEN Observe(t) ELSE saw} :
       /\ live' = Show(t, Showable(t))
       /\ thinking' = Feed(thinking, SubSeq(req.text, Len(text) + 1, Len(t)))
       /\ tracker' = IF req.tools THEN TrackerUpdate(tracker, t, Len(t)) ELSE tracker
       /\ saw' = seen
       /\ toolScan' = IF req.tools THEN Max({0, Len(t) - MarkerHold}) ELSE toolScan
       /\ scan' = IF stop = {} /\ Longest(req.stops) > 1
                  THEN ScanFrom(Len(t), req.stops) ELSE scan
       /\ text' = IF stop # {} THEN SubSeq(t, 1, Min(stop)) ELSE t
       /\ finish' = IF stop # {} THEN "stop"
                    ELSE IF seen.end THEN "tool_calls" ELSE "none"
  /\ UNCHANGED <<req, reply, connected>>

\* A delta cannot be written: the turn ends, the token stays in the text.
WriteFails(k) ==
  LET t == SubSeq(req.text, 1, Len(text) + k)
  IN  /\ Decoding /\ Len(text) + k <= Len(req.text)
      /\ Show(t, Showable(t)) # live
      /\ text' = t
      /\ thinking' = Feed(thinking, SubSeq(req.text, Len(text) + 1, Len(t)))
      /\ tracker' = IF req.tools THEN TrackerUpdate(tracker, t, Len(t)) ELSE tracker
      /\ finish' = "error" /\ connected' = FALSE
      /\ UNCHANGED <<req, live, scan, toolScan, saw, reply>>

\* The end token, max_tokens or the end of the context, g_stop_requested.
Stops(why) ==
  /\ Decoding
  /\ why \in {"stop", "length", "error"}
  /\ finish' = why
  /\ UNCHANGED <<req, text, live, scan, toolScan, saw, thinking, tracker, reply, connected>>

-----------------------------------------------------------------------------
(* After the loop. *)

\* An open block fails the turn.
Why ==
  IF req.tools /\ saw.start /\ ~saw.end THEN "error" ELSE finish

\* parse_generated_message_for_response(): a malformed block is an answer too.
ReplyOf(p) ==
  IF p.ok
  THEN [content |-> p.content, reasoning |-> p.reasoning, calls |-> p.calls,
        finish |-> IF p.calls # <<>> THEN "tool_calls" ELSE Why]
  ELSE [content |-> text, reasoning |-> <<>>, calls |-> <<>>,
        finish |-> IF ~req.tools \/ ~saw.start \/ Why \in {"error", "length"}
                   THEN Why ELSE "stop"]
Parsed == ReplyOf(Parse(text))

PlainReply == [content |-> text, reasoning |-> <<>>, calls |-> <<>>, finish |-> finish]

\* The reply and the end of the stream.
Finish ==
  /\ ~Decoding /\ reply = NoReply
  /\ \E r \in {Parsed} :
       /\ reply' = IF req.api = "plain" THEN PlainReply ELSE r
       /\ live' = CASE ~connected -> live
                    [] connected /\ req.api = "openai" ->
                         OpenAIFinish(live, text, req.tools, r.calls)
                    [] connected /\ req.api = "anthropic" ->
                         AnthropicFinish(live, text, req.tools, r.calls)
                    [] OTHER -> text
  /\ UNCHANGED <<req, text, scan, toolScan, saw, thinking, tracker, finish, connected>>

Done == reply # NoReply

Next ==
  \/ \E k \in 1..MaxPiece : Token(k) \/ WriteFails(k)
  \/ \E why \in {"stop", "length", "error"} : Stops(why)
  \/ Finish
  \/ Done /\ UNCHANGED vars

Spec == Init /\ [][Next]_vars

-----------------------------------------------------------------------------
(* What the client has. *)

Concat(blocks, kind) ==
  FoldLeft(LAMBDA a, b : IF b.kind = kind THEN a \o b.text ELSE a, <<>>, blocks)

Got ==
  CASE req.api = "openai" ->
         [reasoning |-> live.reasoning, content |-> live.content, calls |-> live.tool.args]
    [] req.api = "anthropic" ->
         [reasoning |-> Concat(live.blocks, "thinking"),
          content |-> Concat(live.blocks, "text"),
          calls |-> LET tools == SelectSeq(live.blocks, LAMBDA b : b.kind = "tool")
                    IN  [i \in DOMAIN tools |-> tools[i].text]]
    [] OTHER -> [reasoning |-> <<>>, content |-> live, calls |-> <<>>]

\* What the streams show of a finished text: the thought a prompt has opened,
\* up to the first </think>, and the content, up to the block that follows.
ThoughtEnds(t) == IF req.think THEN Places(t, Len(t), 0, ThinkClose) ELSE {}
Shown(t) ==
  LET close == ThoughtEnds(t)
      opened == IF IsPrefix(ThinkOpen, t) THEN Len(ThinkOpen) ELSE 0
      from == CASE ~req.think -> 0
                [] req.think /\ close = {} -> Len(t)
                [] OTHER -> Min(close) + Len(ThinkClose)
      block == IF req.tools THEN Places(t, Len(t), from, ToolStart) ELSE {}
  IN  IF req.api = "plain" THEN [reasoning |-> <<>>, content |-> t]
      ELSE [reasoning |-> IF ~req.think THEN <<>>
                          ELSE SubSeq(t, opened + 1, IF close = {} THEN Len(t) ELSE Min(close)),
            content |-> SubSeq(t, from + 1, IF block = {} THEN Len(t)
                                            ELSE TrimSpace(t, from, Min(block)))]

\* Calls as openai_tool_stream_update() sends them: strings as the parser writes
\* them, other values as they were generated.  A parameter whose tag does not say
\* what it is ends the stream inside its call.
SentTexts(args) ==
  [k \in DOMAIN args |-> IF args[k].string THEN Quoted(args[k].value) ELSE args[k].value]
Vague(args) == {k \in DOMAIN args : ~args[k].typed}
SentCall(args) ==
  IF Vague(args) = {} THEN <<"{">> \o Members(SentTexts(args)) \o <<"}">>
  ELSE <<"{">> \o Members(SentTexts(SubSeq(args, 1, Min(Vague(args)) - 1)))
Sent(calls) ==
  [i \in 1..Min({k \in DOMAIN calls : Vague(calls[k]) # {}} \cup {Len(calls)}) |->
     SentCall(calls[i])]

\* The parser takes a text apart without knowing the request.  It finds the same
\* parts as the streams when a thought the prompt opened is closed before any
\* block, one it did not open is not closed, and the one block is meant as such.
WellFormed(t) ==
  LET blocks == Places(t, Len(t), 0, ToolStart)
      closes == Places(t, Len(t), 0, ThinkClose)
  IN  /\ req.api # "plain" /\ Parse(t).ok
      /\ IF req.think THEN closes # {} /\ \A q \in blocks : Min(closes) < q
         ELSE closes = {} /\ ~IsPrefix(ThinkOpen, t)
      /\ IF req.tools THEN Cardinality(blocks) <= 1 ELSE blocks = {}

\* The text up to the first stop sequence.
CutAtStop(t) ==
  LET stop == StopAt(t, 0, req.stops)
  IN  IF stop = {} THEN t ELSE SubSeq(t, 1, Min(stop))

\* The state has its type: one live stream of the request's kind, positions
\* inside the text.
TypeOK ==
  /\ req \in Requests
  /\ scan \in 0..Len(req.text) /\ toolScan \in 0..Len(req.text)
  /\ saw \in [start : BOOLEAN, end : BOOLEAN]
  /\ thinking.inside \in BOOLEAN /\ Len(thinking.tail) <= Len(ThinkClose)
  /\ finish \in {"none", "stop", "length", "error", "tool_calls"}
  /\ connected \in BOOLEAN

\* The first stop sequence begins inside the thought, or inside or before the
\* marker of a block: whoever looks for that marker looks at the whole text, stop
\* sequence or not (strstr(), find_any_tool_start()).
StopOverMarker ==
  LET stop == StopAt(req.text, 0, req.stops)
      ends == {q + Len(ThinkClose) :
                 q \in IF req.think THEN Places(req.text, Len(req.text), 0, ThinkClose) ELSE {}}
              \cup {q + Len(ToolStart) :
                 q \in IF req.tools THEN Places(req.text, Len(req.text), 0, ToolStart) ELSE {}}
  IN  stop # {} /\ \E q \in ends : Min(stop) < q

\* got is the beginning of what the streams show of t.
Begins(got, t) ==
  /\ \E shown \in {Shown(t)} : /\ IsPrefix(got.reasoning, shown.reasoning)
                               /\ IsPrefix(got.content, shown.content)
  /\ WellFormed(t) =>
       \E sent \in {Sent(Parse(t).args)} :
          /\ Len(got.calls) <= Len(sent)
          /\ \A i \in 1..Len(got.calls) : IsPrefix(got.calls[i], sent[i])

\* A delta cannot be taken back: whatever has been sent, at whatever split into
\* tokens, is the beginning of what the finished text holds and ends with a whole
\* character (the holds of text_stream_safe_limit(), of the 7 bytes before
\* </think>, of a parameter's tail and of stop_list_stream_safe_len()).  The text
\* ends at the first stop sequence; only when one reaches over a marker may a
\* delta hold what follows it, and then it is still what the model wrote.
NeverRetracted ==
  ~Done =>
    \E got \in {Got} :
      /\ Begins(got, CutAtStop(req.text)) \/ (StopOverMarker /\ Begins(got, req.text))
      /\ \A t \in {got.reasoning, got.content} \cup ToSet(got.calls) :
           t # <<>> => Last(t) # LeadByte

\* The same without the exception: no part of a stop sequence is ever sent
\* ("Streaming cannot emit the last max_stop_len-1 bytes yet: a stop sequence may
\* start there and finish in the next token", ds4_server.c 888-890).
StopsHeld == ~Done => Begins(Got, CutAtStop(req.text))

\* The arguments are JSON values, as the tags of the parameters promise.
IsJson(arg) ==
  LET end == ValueEnd(arg.value, 0)
  IN  arg.typed /\ (arg.string \/ (end # -1 /\ SkipSpace(arg.value, Len(arg.value), end)
                                               = Len(arg.value)))

\* A stop sequence cut the text inside the thought or the </think> after it: the
\* reasoning sent may already be all of the thought.
ThoughtCut == finish = "stop" /\ req.think /\ req.stops # {} /\ ThoughtEnds(text) = {}

\* When a turn ends without an error, the deltas together are exactly what the
\* text holds, in whichever pieces they were sent.  Of a well-formed text that is
\* the reasoning, the content and the calls of the reply: streamed calls with the
\* bytes the model wrote, which are the reply's JSON (what tool_memory_remember()
\* keeps) whenever they are JSON, and the others as append_json_object_or_empty()
\* writes the reply's, which loses nothing of them when every value that is there
\* is JSON.
Delivered ==
  (Done /\ connected /\ reply.finish # "error") =>
    \A shown \in {Shown(text)}, got \in {Got} :
      /\ got.content = shown.content
      /\ \/ got.reasoning = shown.reasoning
         \/ ThoughtCut /\ got.reasoning = Shown(req.text).reasoning
      /\ WellFormed(text) =>
           \A args \in {Parse(text).args} :
             /\ reply.content = got.content /\ reply.reasoning = got.reasoning
             /\ got.calls = IF req.api = "openai" /\ live.tool.emitted
                            THEN Sent(args) ELSE WholeCalls(reply.calls)
             /\ \A i \in DOMAIN got.calls :
                  /\ (\A k \in DOMAIN args[i] : IsJson(args[i][k]))
                       => Compact(got.calls[i]) = reply.calls[i]
                  /\ (\A k \in DOMAIN args[i] : IsJson(args[i][k]) \/ args[i][k].value = <<>>)
                       => ObjectOrEmpty(reply.calls[i]) = reply.calls[i]

\* anthropic_sse_*_live(): blocks are numbered without gaps, one at a time is
\* open, and a finished message has no open block and does not end in thinking.
BlocksNested ==
  req.api = "anthropic" =>
     /\ \A k \in DOMAIN live.blocks :
          /\ live.blocks[k].index = k - 1
          /\ ~live.blocks[k].stopped => k = Len(live.blocks) /\ live.open = live.blocks[k].kind
     /\ (Done /\ connected) =>
          /\ \A k \in DOMAIN live.blocks : live.blocks[k].stopped
          /\ live.blocks # <<>> => Last(live.blocks).kind # "thinking"

\* A client that streams gets the message that anthropic_final_response() would
\* have sent whole: the same blocks in the same order.
StreamsAgree ==
  (Done /\ connected /\ req.api = "anthropic" /\ live.blocks # <<>>
   /\ reply.finish # "error" /\ WellFormed(text)) =>
     [k \in DOMAIN live.blocks |->
        [kind |-> live.blocks[k].kind, text |-> live.blocks[k].text]]
     = AnthropicContent(reply)

\* thinking_state_feed(): across any token boundaries, "inside" says whether the
\* last think marker of prompt and text opens or closes.
ThinkingExact ==
  LET t == (IF req.think THEN ThinkOpen ELSE ThinkClose) \o SubSeq(req.text, 1, Len(text))
      opens == Places(t, Len(t), 0, ThinkOpen)
      closes == Places(t, Len(t), 0, ThinkClose)
  IN  (Decoding \/ req.stops = {}) =>
        (thinking.inside <=> (opens # {} /\ \A q \in closes : q < Max(opens)))

\* A closing tag, whole or not yet, of which the tracker has passed the "<": it is
\* still in the parameter that the tag closes.
Missed ==
  /\ tracker.mode \in {"string_body", "json_param"}
  /\ \E p \in 0 .. tracker.pos - 1 :
       FullLit(text, Len(text), p, ParamEnd) \/ ClosePartial(text, Len(text), p)


\* The same for every way to cut the text into tokens.
TrackerAgreesSplit ==
  (req.tools /\ Decoding) => tracker.decode = DecodeOf(text, Len(text))

\* A turn reported as tool calls has sent each call whole: its arguments are
\* closed and are the parsed ones.
CallsComplete ==
  (Done /\ connected /\ reply.finish = "tool_calls") => Got.calls = reply.calls

\* An end marker before any block is ignored: a block counts as ended only when
\* an end marker follows its start.
OrphanIgnored ==
  saw.end =>
     \E p \in Places(text, Len(text), 0, ToolStart) :
        Places(text, Len(text), p, ToolEnd) # {}

\* A malformed block is returned as ordinary text: the client has all of it.
RawTextReturned ==
  (Done /\ connected /\ reply.finish = "stop" /\ ~Parse(text).ok /\ req.tools) =>
     Got.content = text
=============================================================================
