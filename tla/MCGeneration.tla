---------------------------- MODULE MCGeneration ----------------------------
(***************************************************************************)
(* Texts for Generation: thoughts, contents and tool blocks in every       *)
(* combination, and the shapes that are read differently by different      *)
(* parts of the server.                                                    *)
(***************************************************************************)
EXTENDS Generation

x == <<"x">>
accent == <<LeadByte, NextByte>>

Thoughts ==
  {ThinkClose, x \o accent \o ThinkClose, ThinkOpen \o x \o <<"<">> \o ThinkClose}
Contents == {<<>>, x \o accent, x \o <<"<">> \o x \o <<Space>>, <<Space>> \o x}

Invoke(params) == InvokeStart \o <<NameAttr, ">">> \o params \o InvokeEnd
Param(attrs, value) == ParamStart \o <<NameAttr>> \o attrs \o <<">">> \o value \o ParamEnd
Calls(invokes) == ToolStart \o invokes \o ToolEnd

StringParam == Param(<<StringTrue>>, <<"<">> \o Entity \o <<"&", "QUOTE">>)
AccentParam == Param(<<StringTrue>>, accent \o <<"<", "/">>)
JsonParam == Param(<<StringFalse>>, <<"QUOTE", "x", Space, "QUOTE", Space>>)
JsonTrap == Param(<<StringFalse>>, <<"QUOTE", "BACKSLASH", "QUOTE", "<", "QUOTE">>)
ObjectParam == Param(<<StringFalse>>, <<"{", "key", Space, "1", Space, "}">>)
EmptyParam == Param(<<StringFalse>>, <<>>)
NoJson == Param(<<StringFalse>>, <<"x", "1">>)
TailParam == Param(<<StringFalse>>, <<"1", Space, "x">>)
NoType == Param(<<>>, x)
NestedParams == Param(<<>>, EmptyParam \o JsonParam)

TwoCalls == Calls(Invoke(StringParam \o <<Space>> \o AccentParam))
Blocks ==
  {<<>>,
   <<Space, Space>> \o Calls(Invoke(<<>>) \o <<Space>> \o Invoke(JsonParam)),
   TwoCalls,
   Calls(Invoke(JsonTrap \o ObjectParam)),
   Calls(Invoke(EmptyParam))}

Request(t, api, tools, think, stops) ==
  [text |-> t, api |-> api, tools |-> tools, think |-> think, stops |-> stops,
   splits |-> TRUE]

Whole(turns) == {[r EXCEPT !.splits = FALSE] : r \in turns}

LiveApis == {"openai", "anthropic"}

\* Well-formed answers to requests with tools, thinking or not.
Turns ==
  {Request(th \o c \o b, api, TRUE, th # <<>>, {}) :
     th \in Thoughts \cup {<<>>}, c \in Contents, b \in Blocks, api \in LiveApis}

\* An end marker no block has opened, and a block soon after it.
OrphanTurn ==
  {Request(x \o ToolEnd \o x \o Calls(Invoke(JsonParam)), "openai", TRUE, FALSE, {})}

\* Answers without tools that may meet a stop sequence.
Stop == <<"x", "<", "x">>
Endings == {<<>>, Stop \o x, accent \o <<Space, Space>> \o x}
Stopped ==
  {Request(th \o c \o d, api, FALSE, th # <<>>, {Stop, accent \o <<Space>>}) :
     th \in {<<>>, x \o <<"<">> \o ThinkClose}, c \in Contents,
     d \in Endings, api \in LiveApis \cup {"plain"}}

\* Blocks whose stream and reply differ, and texts the parser and the streams
\* take apart in different ways.
Odd ==
  {Request(Calls(Invoke(p)), api, TRUE, FALSE, {}) :
     p \in {NoJson, TailParam, NoType, JsonParam \o NoType, NestedParams}, api \in LiveApis}
  \cup {Request(x \o Calls(x), api, TRUE, FALSE, {}) : api \in LiveApis}
  \cup {Request(x \o ThinkClose \o x \o Calls(<<>>), api, tools, FALSE, {}) :
          api \in LiveApis, tools \in BOOLEAN}
  \cup {Request(x \o Calls(<<>>) \o ThinkClose \o x, api, TRUE, TRUE, {}) : api \in LiveApis}
  \cup OrphanTurn

\* Stop sequences that reach over the markers.
StopsOver ==
  {Request(x \o x \o ThinkClose \o x \o accent, api, FALSE, TRUE, {stop}) :
     stop \in {x \o ThinkClose \o x, <<"think">>, ThinkClose}, api \in LiveApis}
  \cup {Request(x \o x \o Calls(Invoke(JsonParam)), api, TRUE, FALSE, {stop}) :
     stop \in {x \o ToolStart, x \o ToolStart \o InvokeStart, <<"dsml", "calls">>,
               <<"x", "<", "x">>, <<Space, "QUOTE">>},
     api \in LiveApis}

Answers ==
  Turns \cup Whole({r \in Turns : r.api = "openai"}) \cup Stopped \cup Odd \cup StopsOver
=============================================================================
