---------------------------- MODULE DsmlTracker -----------------------------
(***************************************************************************)
(* Where generation is inside a DSML block: dsml_decode_tracker_update()   *)
(* decides from it whether the next token is sampled as protocol syntax    *)
(* (greedy) or as payload.  The tracker reads each token once and keeps    *)
(* its position; DecodeOf reads the whole text again, as the recognizer    *)
(* the tests compare it with does.                                         *)
(***************************************************************************)
EXTENDS DsmlText

Payload == {"string_body", "json_string"}

\* dsml_decode_tracker_init()
TrackerInit ==
  [mode |-> "search", decode |-> "outside", pos |-> 0, inString |-> FALSE, escaped |-> FALSE]

\* raw_partial_lit_min(..., 2)
ClosePartial(t, n, p) == n - p >= 2 /\ PartialLit(t, n, p, ParamEnd)

\* The piece at pos of a JSON value: quotes open and close a string, a
\* backslash protects the piece after it.
JsonPiece(dt, c) ==
  [dt EXCEPT !.pos = @ + 1,
     !.escaped = dt.inString /\ ~dt.escaped /\ c = "BACKSLASH",
     !.inString = IF c = "QUOTE" /\ ~dt.escaped THEN ~@ ELSE @]

\* One piece of a parameter's body, or its end.  A "<" that is the last piece
\* of the text is passed over.
BodyRound(dt, t, n) ==
  LET json == dt.mode = "json_param"
      looks == ~json \/ ~dt.inString
  IN  IF dt.pos >= n
      THEN [dt EXCEPT !.decode = IF ~json THEN "string_body"
                                 ELSE IF dt.inString THEN "json_string"
                                 ELSE "json_structural"]
      ELSE IF looks /\ FullLit(t, n, dt.pos, ParamEnd)
      THEN [dt EXCEPT !.pos = @ + Len(ParamEnd), !.mode = "structural",
                      !.decode = "structural"]
      ELSE IF looks /\ ClosePartial(t, n, dt.pos)
      THEN [dt EXCEPT !.decode = "structural"]
      ELSE IF json THEN JsonPiece(dt, t[dt.pos + 1])
      ELSE [dt EXCEPT !.pos = @ + 1]

\* Between the markers.
StructuralRound(dt, t, n) ==
  LET p == SkipSpace(t, n, dt.pos)
      at == [dt EXCEPT !.pos = p, !.decode = "structural"]
      ends == TagEnds(t, n, p)
      isString == StringTrue \in Tag(t, p, Min(ends))
  IN  IF FullLit(t, n, p, ToolEnd)
      THEN [at EXCEPT !.mode = "done", !.pos = p + Len(ToolEnd), !.decode = "outside"]
      ELSE IF FullLit(t, n, p, InvokeEnd) THEN [at EXCEPT !.pos = p + Len(InvokeEnd)]
      ELSE IF FullLit(t, n, p, InvokeStart) /\ ends # {}
      THEN [at EXCEPT !.pos = Min(ends) + 1]
      ELSE IF FullLit(t, n, p, ParamStart) /\ ends # {}
      THEN [at EXCEPT !.pos = Min(ends) + 1, !.inString = FALSE, !.escaped = FALSE,
                      !.mode = IF isString THEN "string_body" ELSE "json_param",
                      !.decode = IF isString THEN "string_body" ELSE "json_structural"]
      ELSE at


\* Before the block: the search keeps one marker length behind the text.
SearchRound(dt, t, n) ==
  LET start == Places(t, n, dt.pos, ToolStart)
  IN  IF start = {} THEN [dt EXCEPT !.pos = Max({0, n - Len(ToolStart)})]
      ELSE [dt EXCEPT !.mode = "structural", !.decode = "structural",
                      !.pos = Min(start) + Len(ToolStart)]

TrackerRound(dt, t, n) ==
  CASE dt.mode = "search" -> SearchRound(dt, t, n)
    [] dt.mode = "structural" -> StructuralRound(dt, t, n)
    [] dt.mode \in {"string_body", "json_param"} -> BodyRound(dt, t, n)
    [] OTHER -> dt

\* dsml_decode_tracker_update(): rounds until one changes nothing.
RECURSIVE TrackerUpdate(_, _, _)
TrackerOn(dt, next, t, n) == IF next = dt THEN dt ELSE TrackerUpdate(next, t, n)
TrackerUpdate(dt, t, n) == TrackerOn(dt, TrackerRound(dt, t, n), t, n)

-----------------------------------------------------------------------------
(* The slow recognizer. *)

\* raw_suffix_partial_lit(..., 2)
EndsInClose(t, n) == \E p \in 0..n : ClosePartial(t, n, p)

\* dsml_decode_scan_json_param()
RECURSIVE ScanJson(_, _, _)
ScanJson(dt, t, n) ==
  IF ~dt.inString /\ FullLit(t, n, dt.pos, ParamEnd) THEN "structural"
  ELSE IF dt.pos < n THEN ScanJson(JsonPiece(dt, t[dt.pos + 1]), t, n)
  ELSE IF dt.inString THEN "json_string"
  ELSE IF EndsInClose(t, n) THEN "structural" ELSE "json_structural"

\* dsml_decode_state_for_text(), from position p of an open block.
RECURSIVE DecodeFrom(_, _, _)
\* In the body of a parameter that begins at from: on after its end, if closed.
DecodeBody(t, n, from, close, state) ==
  IF state = "structural" /\ close # {} THEN DecodeFrom(t, n, Min(close) + Len(ParamEnd))
  ELSE state
DecodeParam(t, n, from, close, isString) ==
  DecodeBody(t, n, from, close,
    IF ~isString THEN ScanJson([pos |-> from, inString |-> FALSE, escaped |-> FALSE], t, n)
    ELSE IF close # {} \/ EndsInClose(t, n) THEN "structural"
    ELSE "string_body")
DecodeAt(t, n, q, ends) ==
  IF FullLit(t, n, q, ToolEnd) THEN "outside"
  ELSE IF \/ FullLit(t, n, q, InvokeEnd)
          \/ FullLit(t, n, q, InvokeStart) /\ ends # {}
  THEN DecodeFrom(t, n, IF FullLit(t, n, q, InvokeEnd) THEN q + Len(InvokeEnd)
                        ELSE Min(ends) + 1)
  ELSE IF ends = {} \/ ~FullLit(t, n, q, ParamStart) THEN "structural"
  ELSE DecodeParam(t, n, Min(ends) + 1, Places(t, n, Min(ends) + 1, ParamEnd),
                   StringTrue \in Tag(t, q, Min(ends)))
DecodeFrom(t, n, p) ==
  LET q == SkipSpace(t, n, p) IN DecodeAt(t, n, q, TagEnds(t, n, q))

DecodeOf(t, n) ==
  LET start == Places(t, n, 0, ToolStart)
  IN  IF start = {} THEN "outside" ELSE DecodeFrom(t, n, Min(start) + Len(ToolStart))
=============================================================================
