------------------------------- MODULE Streams -------------------------------
(***************************************************************************)
(* An answer on its way from the model to the page and to the record       *)
(* (ai_provider.py, compute_runner.py, static/termin.js).  A thread of its *)
(* own takes the JSON of a tool call from the provider piece by piece, a   *)
(* scanner finds the fields in it, a queue takes the events to the runner,  *)
(* which publishes them, and the cells of the page fill up.  In the end the *)
(* runner of an LLM compute parses the JSON and stores its fields; an agent *)
(* goes on to the tools of its message, which may have been cut off.       *)
(*                                                                         *)
(* The streams of one record follow each other; several at a time, other   *)
(* writers and the audit log are in EventRules.tla, the conversation loop  *)
(* of an agent in AgentTurn.tla.                                           *)
(***************************************************************************)
EXTENDS Integers, Sequences, SequencesExt, FiniteSets

CONSTANTS
  Chars,      \* characters of keys and values
  Fields,     \* the record's fields, each with a cell on the page
  Initial,    \* what they hold at the start
  Scripts,    \* what the model may say: [kind, turns]
  MaxTurns,   \* turns of an agent (20)
  MaxRounds,  \* bound: invocations
  MaxDrops    \* bound: losses of the socket

Quote == "\""
Back == "\\"
Value == [kind : {"text", "num"}, of : Seq(Chars)]

(* The input of a tool call: its keys and what they carry.  An update has   *)
(* the data for the record under "d".                                      *)
List == [kind : {"list"}, of : Seq(Seq(Chars))]
Data == [kind : {"data"}, of : Seq(Seq(Chars) \X (Value \cup List))]
Input == Seq(Seq(Chars) \X (Value \cup List \cup Data))
Call == [tool : {"update", "create", "set_output"}, doc : Input]

(* The pairs of an input and of the data in it. *)
Nested(doc) == {doc} \cup {p[2].of : p \in {q \in ToSet(doc) : q[2].kind = "data"}}

(* A number has digits, and none of the characters JSON gives a meaning; a  *)
(* field of the record is given a text or a number, as the schema of        *)
(* set_output says (build_output_tool).                                    *)
Marks == {Quote, Back, "{", "}", "[", "]", ":", ","}
Sound(pairs) ==
  \A i \in DOMAIN pairs :
    /\ pairs[i][2].kind = "num" => pairs[i][2].of \in Seq(Chars \ Marks) \ {<<>>}
    /\ pairs[i][1] \in Fields => pairs[i][2] \in Value

ASSUME StreamsAssumption ==
  /\ Marks \cup {"n", "u", "e", "\n"} \subseteq Chars
  /\ Fields \subseteq Seq(Chars) /\ Initial \in [Fields -> Value]
  /\ \A s \in Scripts :
       /\ s.turns \in Seq(Seq(Call)) /\ s.turns # <<>>
       /\ \A n \in DOMAIN s.turns : \A b \in DOMAIN s.turns[n] :
            \A pairs \in Nested(s.turns[n][b].doc) : Sound(pairs)
       /\ \A n \in DOMAIN s.turns : \A b \in DOMAIN s.turns[n] :
            s.turns[n][b].tool = "update" =>
              \A p \in ToSet(s.turns[n][b].doc) : p[1] = <<"d">> => p[2] \in Data
       /\ s.kind \in {"llm", "agent"}
       /\ s.kind = "llm" => Len(s.turns) = 1 /\ Len(s.turns[1]) = 1
  /\ MaxTurns \in Nat \ {0} /\ MaxRounds \in Nat /\ MaxDrops \in Nat

VARIABLES
  script, turn, block,  \* what the model says, and how far the turn has got
  json, pos, \* the block's JSON, and how much of it has been received
  scan,      \* the scanner of the block
  producer,  \* "open" while the thread of the turn runs
  said,      \* the tool calls of the message, once it has ended
  queue,     \* between the thread and the runner
  runner,    \* what the runner is doing
  call,      \* the next tool call
  result,    \* the output the invocation returns
  outcome,
  row,       \* the stored record
  cell,      \* the page: the text of each cell
  streaming, \* the page: data-termin-streaming of each cell
  online, drops, round,
  lost,      \* history: an event of this invocation did not reach the page
  told       \* history: the events of the block's scanner

thread == <<block, json, pos, scan, producer, said, told>>
page == <<cell, streaming, online, drops, lost>>
vars == <<script, turn, thread, queue, runner, call, result, outcome, row, page, round>>

-----------------------------------------------------------------------------
(* The JSON of a tool call, as the provider sends it.  A value is a text, a *)
(* number, a list of texts, or the data of a record.  "e'" is a letter sent *)
(* as a Unicode escape, with one digit for the four.                       *)

Escaped(c) == CASE c \in {Quote, Back} -> <<Back, c>>
                [] c = "\n" -> <<Back, "n">>
                [] c = "e'" -> <<Back, "u", "e">>
                [] OTHER -> <<c>>
Quoted(t) == <<Quote>> \o FlattenSeq([i \in DOMAIN t |-> Escaped(t[i])]) \o <<Quote>>
Joined(parts) ==
  FlattenSeq([i \in DOMAIN parts |-> IF i = 1 THEN parts[i] ELSE <<",">> \o parts[i]])
Object(pairs, J(_)) ==
  <<"{">> \o Joined([i \in DOMAIN pairs |-> Quoted(pairs[i][1]) \o <<":">> \o J(pairs[i][2])])
          \o <<"}">>
Flat(v) == CASE v.kind = "text" -> Quoted(v.of)
             [] v.kind = "num" -> v.of
             [] v.kind = "list" -> <<"[">> \o Joined([i \in DOMAIN v.of |-> Quoted(v.of[i])]) \o <<"]">>
Json(v) == IF v.kind = "data" THEN Object(v.of, Flat) ELSE Flat(v)
Source(doc) == Object(doc, Json)

(* The calls of a message; having said all of it, the model makes no more. *)
Message(s, n) == IF n \in DOMAIN s.turns THEN s.turns[n] ELSE <<>>
Blocks == Message(script, turn)
JsonOf(blocks, n) == IF n \in DOMAIN blocks THEN Source(blocks[n].doc) ELSE <<>>
Doc == Blocks[block].doc
Text(t) == [kind |-> "text", of |-> t]
Event(type, field, value) == [type |-> type, field |-> field, value |-> value]
Signal(type) == Event(type, <<>>, Text(<<>>))

-----------------------------------------------------------------------------
(* StreamingJsonFieldExtractor: one step of _scan for each character. *)

Fresh == [at |-> "seek_key", key |-> <<>>, val |-> <<>>, esc |-> FALSE, depth |-> 0]

Open(s) == [s EXCEPT !.at = "seek_key", !.depth = @ + 1]
Close(s) == [s EXCEPT !.at = IF s.depth <= 1 THEN "done" ELSE "seek_key", !.depth = @ - 1]

SeekKey(s, c) == CASE c = Quote -> [s EXCEPT !.at = "in_key", !.key = <<>>]
                   [] c = "{" -> Open(s)
                   [] c = "}" -> Close(s)
                   [] OTHER -> s
InKey(s, c) ==
  IF s.esc THEN [s EXCEPT !.key = Append(@, c), !.esc = FALSE]
  ELSE IF c = Back THEN [s EXCEPT !.esc = TRUE]
  ELSE IF c = Quote THEN [s EXCEPT !.at = "seek_colon"]
  ELSE [s EXCEPT !.key = Append(@, c)]
SeekValue(s, c) == CASE c = Quote -> [s EXCEPT !.at = "in_string", !.val = <<>>]
                     [] c = "{" -> Open(s)
                     [] OTHER -> [s EXCEPT !.at = "in_other"]

(* Variant: a comma does not end a number or a list. *)
InOtherDeaf(s, c) == IF c = "}" THEN Close(s) ELSE s

InOther(s, c) == CASE c = "," -> [s EXCEPT !.at = "seek_key"]
                   [] c = "}" -> Close(s)
                   [] OTHER -> s

Decode(c) == IF c = "n" THEN "\n" ELSE c
InString(s, c) ==
  IF s.esc THEN [s EXCEPT !.val = Append(@, Decode(c)), !.esc = FALSE]
  ELSE IF c = Back THEN [s EXCEPT !.esc = TRUE]
  ELSE IF c = Quote THEN [s EXCEPT !.at = "seek_key", !.key = <<>>, !.val = <<>>]
  ELSE [s EXCEPT !.val = Append(@, c)]

Advance(s, c) ==
  CASE s.at = "seek_key" -> SeekKey(s, c)
    [] s.at = "in_key" -> InKey(s, c)
    [] s.at = "seek_colon" -> IF c = ":" THEN [s EXCEPT !.at = "seek_value"] ELSE s
    [] s.at = "seek_value" -> SeekValue(s, c)
    [] s.at = "in_string" -> InString(s, c)
    [] s.at = "in_other" -> InOther(s, c)
    [] s.at = "done" -> s

(* A letter of a text value, or its end. *)
Emitted(s, c) ==
  IF s.at # "in_string" \/ (c = Back /\ ~s.esc) THEN <<>>
  ELSE IF c = Quote /\ ~s.esc THEN <<Event("field_done", s.key, Text(s.val))>>
  ELSE <<Event("field_delta", s.key, Text(<<IF s.esc THEN Decode(c) ELSE c>>))>>

(* What a cut leaves of an input: the pairs before it and, of the last one,  *)
(* the digits of a number, the elements of a list, the pairs of the data.  *)
CutAt(pairs, Part(_)) ==
  {<<>>} \cup UNION {
    {Append(SubSeq(pairs, 1, n - 1), <<pairs[n][1], v>>) : v \in Part(pairs[n][2])} :
      n \in DOMAIN pairs}
Parts(v) == CASE v.kind = "text" -> {v}
              [] v.kind = "num" -> {[v EXCEPT !.of = SubSeq(@, 1, k)] : k \in DOMAIN v.of}
              [] v.kind = "list" -> {[v EXCEPT !.of = SubSeq(@, 1, k)] : k \in 0..Len(v.of)}
AllParts(v) == IF v.kind = "data" THEN {[v EXCEPT !.of = d] : d \in CutAt(v.of, Parts)} ELSE Parts(v)
Cuts(doc) == CutAt(doc, AllParts)

(* What has been received parses to: closed with as many braces as it       *)
(* lacks, it is the JSON of what came before the cut, or nothing.          *)
Count(text, c) == Cardinality({i \in DOMAIN text : text[i] = c})
Closed(text) ==
  LET lacks == Count(text, "{") - Count(text, "}")
  IN  IF lacks > 0 THEN text \o [i \in 1..lacks |-> "}"] ELSE text

(* Variant: the text the stream was in is closed as well. *)
ParsedOpen ==
  LET got == SubSeq(json, 1, pos)
      fits == {d \in Cuts(Doc) : Source(d) = Closed(got)}
  IN  IF scan.at = "in_string" THEN <<<<scan.key, Text(scan.val)>>>>
      ELSE IF fits = {} THEN <<>> ELSE CHOOSE d \in fits : TRUE

Parsed ==
  LET got == SubSeq(json, 1, pos)
      fits == {d \in Cuts(Doc) : Source(d) = Closed(got)}
  IN  IF fits = {} THEN <<>> ELSE CHOOSE d \in fits : TRUE

(* The input of a call that was cut off, as the SDK has it: whatever is     *)
(* closed by then, and of a number what has come.                          *)
Begun(d) == LET text == Source(d)
            IN  SubSeq(text, 1, Max({i \in DOMAIN text : text[i] \notin {"}", "]"}} \cup {0}))
Partial ==
  LET fits == {d \in Cuts(Doc) : d = <<>> \/ IsPrefix(Begun(d), SubSeq(json, 1, pos))}
  IN  {d \in fits : \A e \in fits : Len(Source(e)) <= Len(Source(d))}

(* finish: the fields that are not texts. *)
Finish(doc) ==
  FlattenSeq([i \in DOMAIN doc |->
    IF doc[i][2].kind = "text" THEN <<>> ELSE <<Event("field_done", doc[i][1], doc[i][2])>>])

TypeOK ==
  /\ script \in Scripts /\ turn \in 1..MaxTurns
  /\ block \in Nat \ {0} /\ json \in Seq(Chars) /\ pos \in 0..Len(json)
  /\ scan \in [at : {"seek_key", "in_key", "seek_colon", "seek_value", "in_string",
                     "in_other", "done"},
               key : Seq(Chars), val : Seq(Chars), esc : BOOLEAN, depth : Nat]
  /\ producer \in {"off", "open"} /\ said \in Seq(Call)
  /\ \A i \in DOMAIN queue : queue[i].type \in {"field_delta", "field_done", "done", "error", "end"}
  /\ \A i \in DOMAIN told : told[i].type \in {"field_delta", "field_done"}
  /\ runner \in {"idle", "consuming", "calls", "write", "publish", "done"}
  /\ call \in Nat /\ outcome \in {"none", "success", "error", "crashed"}
  /\ row \in [Fields -> Value]
  /\ cell \in [Fields -> Seq(Chars)] /\ streaming \in [Fields -> BOOLEAN]
  /\ online \in BOOLEAN /\ drops \in 0..MaxDrops /\ round \in 0..MaxRounds /\ lost \in BOOLEAN

-----------------------------------------------------------------------------
(* The thread of a turn.  A piece of JSON is one character: the scanner     *)
(* keeps its state between two pieces, and the queue has no limit.         *)

Begin(blocks) ==
  /\ block' = 1 /\ json' = JsonOf(blocks, 1) /\ pos' = 0 /\ scan' = Fresh /\ producer' = "open"
  /\ said' = <<>> /\ told' = <<>>

Start ==
  /\ runner \in {"idle", "done"} /\ round < MaxRounds
  /\ script' \in Scripts /\ turn' = 1 /\ Begin(Message(script', 1))
  /\ queue' = <<>> /\ runner' = "consuming" /\ call' = 1 /\ result' = <<>>
  /\ outcome' = "none" /\ lost' = FALSE /\ round' = round + 1
  /\ UNCHANGED <<row, cell, streaming, online, drops>>

Streaming == producer = "open" /\ block <= Len(Blocks)
Rest == <<script, turn, runner, call, result, outcome, row, page, round>>

Receive ==
  /\ Streaming /\ pos < Len(json)
  /\ LET c == json[pos + 1] IN
       /\ scan' = Advance(scan, c)
       /\ queue' = queue \o Emitted(scan, c) /\ told' = told \o Emitted(scan, c)
  /\ pos' = pos + 1
  /\ UNCHANGED <<block, json, producer, said, Rest>>

(* An agent's block has stopped; the next one has a scanner of its own. *)
EndBlock ==
  /\ Streaming /\ script.kind = "agent" /\ pos = Len(json)
  /\ \E doc \in {Parsed} : queue' = queue \o Finish(doc)
  /\ block' = block + 1 /\ json' = JsonOf(Blocks, block + 1) /\ pos' = 0 /\ scan' = Fresh
  /\ told' = <<>>
  /\ UNCHANGED <<producer, said, Rest>>

(* The stream is over: an LLM compute parses what there is of its call,     *)
(* whether it is whole or not; the message of an agent is whole.           *)
EndStream ==
  /\ producer = "open"
  /\ script.kind = "llm" \/ block > Len(Blocks)
  /\ producer' = "off" /\ queue' = Append(queue, Signal("end")) /\ said' = Blocks
  /\ UNCHANGED <<block, json, pos, scan, told, Rest>>

(* max_tokens has cut an agent's message off, in a call or just before it:  *)
(* the call is part of the message as far as it has come, and nobody asks  *)
(* for the stop reason.                                                    *)
CutStream ==
  /\ Streaming /\ script.kind = "agent"
  /\ \E doc \in {Parsed} : queue' = queue \o Append(Finish(doc), Signal("end"))
  /\ \E doc \in Partial, begun \in {TRUE, pos > 0} :
       said' = SubSeq(Blocks, 1, block - 1) \o
               IF begun THEN <<[tool |-> Blocks[block].tool, doc |-> doc]>> ELSE <<>>
  /\ producer' = "off"
  /\ UNCHANGED <<block, json, pos, scan, told, Rest>>

(* Variant: the thread ends without a word. *)
FailStreamSilently ==
  /\ producer = "open"
  /\ producer' = "off"
  /\ UNCHANGED <<queue, block, json, pos, scan, said, told, Rest>>

(* The exception takes its place in the queue; an agent's is kept aside     *)
(* until the queue is empty, which comes to the same.                      *)
FailStream ==
  /\ producer = "open"
  /\ producer' = "off" /\ queue' = Append(queue, Signal("error"))
  /\ UNCHANGED <<block, json, pos, scan, said, told, Rest>>

-----------------------------------------------------------------------------
(* The page: hydrateComputeStream and the update of a table row.  Events    *)
(* that are published while the socket is down are lost.                   *)

(* Variant: a field without a cell gets one. *)
ShowAny(e) ==
  /\ lost' = (lost \/ ~online)
  /\ IF ~online THEN UNCHANGED <<cell, streaming>>
     ELSE IF e.type = "field_done" THEN
       /\ cell' = [f \in Fields \cup {e.field} |-> IF f = e.field THEN e.value.of ELSE cell[f]]
       /\ UNCHANGED streaming
     ELSE
       /\ cell' = [f \in Fields \cup {e.field} |->
            IF f # e.field THEN cell[f]
            ELSE IF f \in Fields /\ streaming[f] THEN cell[f] \o e.value.of ELSE e.value.of]
       /\ streaming' = [f \in Fields |-> f = e.field \/ streaming[f]]

Show(e) ==
  /\ lost' = (lost \/ ~online)
  /\ IF ~online \/ e.field \notin Fields THEN UNCHANGED <<cell, streaming>>
     ELSE IF e.type = "field_done" THEN
       cell' = [cell EXCEPT ![e.field] = e.value.of] /\ UNCHANGED streaming
     ELSE
       /\ cell' = [cell EXCEPT ![e.field] = (IF streaming[e.field] THEN @ ELSE <<>>) \o e.value.of]
       /\ streaming' = [streaming EXCEPT ![e.field] = TRUE]

ShowRow(r) ==
  /\ lost' = (lost \/ ~online)
  /\ cell' = IF online THEN [f \in Fields |-> r[f].of] ELSE cell
  /\ UNCHANGED streaming

Drop ==
  /\ online /\ drops < MaxDrops
  /\ online' = FALSE /\ drops' = drops + 1
  /\ UNCHANGED <<script, turn, thread, queue, runner, call, result, outcome, row, cell, streaming, round, lost>>

Reconnect ==
  /\ ~online /\ online' = TRUE
  /\ UNCHANGED <<script, turn, thread, queue, runner, call, result, outcome, row, cell, streaming, drops, round, lost>>

-----------------------------------------------------------------------------
(* The runner. *)

Took(type) == runner = "consuming" /\ queue # <<>> /\ Head(queue).type = type
End(how) == runner' = "done" /\ outcome' = how

Publish ==
  /\ Took("field_delta") \/ Took("field_done")
  /\ Show(Head(queue)) /\ queue' = Tail(queue)
  /\ UNCHANGED <<script, turn, thread, runner, call, result, outcome, row, online, drops, round>>

TakeError ==
  /\ Took("error") /\ End("error") /\ queue' = <<>>
  /\ UNCHANGED <<script, turn, thread, call, result, row, page, round>>

(* An LLM compute: the fields that are not texts, and the output parsed. *)
TakeEnd ==
  /\ Took("end") /\ script.kind = "llm"
  /\ \E doc \in {Parsed} : result' = doc /\ queue' = Append(Finish(doc), Signal("done"))
  /\ UNCHANGED <<script, turn, thread, runner, call, outcome, row, page, round>>

(* An agent's message, as it has come.  With set_output among its calls the *)
(* others are not made; without any call the text is the output.           *)
Output == {n \in DOMAIN said : said[n].tool = "set_output"}
TakeMessage ==
  /\ Took("end") /\ script.kind = "agent"
  /\ IF said = <<>> \/ Output # {}
       THEN /\ queue' = <<Signal("done")>> /\ UNCHANGED <<runner, call>>
            /\ result' = IF said = <<>> THEN <<>>
                         ELSE said[CHOOSE n \in Output : \A m \in Output : n <= m].doc
       ELSE queue' = <<>> /\ runner' = "calls" /\ call' = 1 /\ UNCHANGED result
  /\ UNCHANGED <<script, turn, thread, outcome, row, page, round>>

TakeDone ==
  /\ Took("done") /\ queue' = <<>>
  /\ IF script.kind = "llm" THEN runner' = "write" /\ UNCHANGED outcome ELSE End("success")
  /\ UNCHANGED <<script, turn, thread, call, result, row, page, round>>

Keys(pairs) == {pairs[i][1] : i \in DOMAIN pairs}
Get(pairs, f) == pairs[CHOOSE i \in DOMAIN pairs : pairs[i][1] = f][2]
Merge(pairs) == [f \in Fields |-> IF f \in Keys(pairs) THEN Get(pairs, f) ELSE row[f]]

(* An update without data has none. *)
DataOf(doc) == IF <<"d">> \in Keys(doc) THEN Get(doc, <<"d">>).of ELSE <<>>

(* update_record takes the empty values out; without any other it does      *)
(* nothing.                                                                *)
Filled(pairs) == {pairs[i][1] : i \in {j \in DOMAIN pairs : pairs[j][2].of # <<>>}}
Update(pairs) == [f \in Fields |-> IF f \in Filled(pairs) THEN Get(pairs, f) ELSE row[f]]

(* content_update on this record, with its event, or another tool; an       *)
(* exception is told to the model.                                         *)
CallTool ==
  /\ runner = "calls" /\ call <= Len(said) /\ call' = call + 1
  /\ \/ LET data == DataOf(said[call].doc) IN
          /\ said[call].tool = "update" /\ Filled(data) # {}
          /\ row' = Update(data) /\ ShowRow(row')
     \/ UNCHANGED <<row, cell, streaming, lost>>
  /\ UNCHANGED <<script, turn, thread, queue, runner, result, outcome, online, drops, round>>

NextTurn ==
  /\ runner = "calls" /\ call > Len(said)
  /\ IF turn < MaxTurns
       THEN turn' = turn + 1 /\ Begin(Message(script, turn + 1)) /\ runner' = "consuming" /\ UNCHANGED outcome
       ELSE End("error") /\ UNCHANGED <<turn, thread>>
  /\ UNCHANGED <<script, queue, call, result, row, page, round>>

(* An LLM compute stores the output fields there are; update_fields may     *)
(* raise, and ends the thread then.                                        *)
Write ==
  /\ runner = "write"
  /\ \/ /\ Keys(result) \cap Fields = {} /\ End("success") /\ UNCHANGED row
     \/ /\ Keys(result) \cap Fields # {}
        /\ \/ row' = Merge(result) /\ runner' = "publish" /\ UNCHANGED outcome
           \/ End("crashed") /\ UNCHANGED row
  /\ UNCHANGED <<script, turn, thread, queue, call, result, page, round>>

(* Variant: the event carries the output alone. *)
PublishOutput ==
  /\ runner = "publish" /\ End("success")
  /\ lost' = (lost \/ ~online)
  /\ cell' = [f \in Fields |-> IF online /\ f \in Keys(result) THEN row[f].of ELSE cell[f]]
  /\ UNCHANGED <<script, turn, thread, queue, call, result, row, streaming, online, drops, round>>

(* The copy of the record with the output merged in: no one else writes     *)
(* here, so this is the record.                                            *)
PublishUpdated ==
  /\ runner = "publish" /\ End("success")
  /\ ShowRow(row)
  /\ UNCHANGED <<script, turn, thread, queue, call, result, row, online, drops, round>>

-----------------------------------------------------------------------------
Init ==
  /\ script \in Scripts /\ turn = 1 /\ block = 1 /\ json = <<>> /\ pos = 0 /\ scan = Fresh
  /\ producer = "off" /\ queue = <<>> /\ runner = "idle" /\ call = 1 /\ result = <<>>
  /\ outcome = "none" /\ row = Initial /\ cell = [f \in Fields |-> Initial[f].of]
  /\ streaming = [f \in Fields |-> FALSE]
  /\ online = TRUE /\ drops = 0 /\ round = 0 /\ lost = FALSE /\ said = <<>> /\ told = <<>>

Producer == Receive \/ EndBlock \/ EndStream \/ CutStream \/ FailStream
Runner == \/ Publish \/ TakeError \/ TakeEnd \/ TakeMessage \/ TakeDone
          \/ CallTool \/ NextTurn \/ Write \/ PublishUpdated
Next == Start \/ Producer \/ Runner \/ Drop \/ Reconnect
Spec == Init /\ [][Next]_vars

(* The SDK times a silent provider out; the runner's loop goes on. *)
FairSpec == Spec /\ WF_vars(Producer) /\ WF_vars(Runner)

-----------------------------------------------------------------------------
(* The texts of a tool call by their keys, those of its data included. *)
TextsOf(pairs) == {<<p[1], p[2].of>> : p \in {q \in ToSet(pairs) : q[2].kind = "text"}}
Texts(doc) == UNION {TextsOf(pairs) : pairs \in Nested(doc)}
Inputs(s) == UNION {{s.turns[n][b].doc : b \in DOMAIN s.turns[n]} : n \in DOMAIN s.turns}

AllTexts == UNION {UNION {Texts(doc) : doc \in Inputs(s)} : s \in Scripts}

(* No Unicode escape; no line break in a key, where the scanner does not     *)
(* decode it; no list whose JSON has a comma or a closing brace: it takes   *)
(* that for the end of the list, and what follows for keys.                *)
PlainPairs(pairs) ==
  \A i \in DOMAIN pairs :
    /\ {"e'", "\n"} \cap ToSet(pairs[i][1]) = {}
    /\ pairs[i][2].kind = "text" => "e'" \notin ToSet(pairs[i][2].of)
    /\ pairs[i][2].kind = "list" => {",", "}"} \cap ToSet(Flat(pairs[i][2])) = {}
Plain == {s \in Scripts : \A doc \in Inputs(s) : \A pairs \in Nested(doc) : PlainPairs(pairs)}

(* What there is to tell of the texts of an input: letter by letter and     *)
(* whole, by their names, in their order, those of its data included.      *)
TextEvents(k, t) == Append([i \in DOMAIN t |-> Event("field_delta", k, Text(<<t[i]>>))],
                           Event("field_done", k, Text(t)))
EventsOf(pairs, Of(_)) == FlattenSeq([i \in DOMAIN pairs |->
  IF pairs[i][2].kind = "text" THEN TextEvents(pairs[i][1], pairs[i][2].of) ELSE Of(pairs[i][2])])
NoEvents(v) == <<>>
DataEvents(v) == IF v.kind = "data" THEN EventsOf(v.of, NoEvents) ELSE <<>>
ToTell(doc) == EventsOf(doc, DataEvents)

(* The extractor tells each text field by its name, in order and whole,     *)
(* wherever the pieces are cut and whatever the text contains, quotes and   *)
(* braces included: what it has told of a block is always the beginning of  *)
(* what there is to tell, and all of it once the JSON has come, where it    *)
(* notices the end of the object.                                          *)
StreamedText ==
  script \in Plain /\ Streaming =>
    /\ IsPrefix(told, ToTell(Doc))
    /\ pos = Len(json) => told = ToTell(Doc) /\ scan.at = "done"

(* A text in the record is one the model has written to its end: a stream   *)
(* that fails or is cut off, an LLM compute's or an agent's, whose call is  *)
(* made with what has come of it, leaves no part of it there.              *)
StoredWhole ==
  \A f \in Fields :
    row[f].kind = "text" =>
      \/ row[f] = Initial[f]
      \/ <<f, row[f].of>> \in AllTexts

(* As many closing braces in the texts as opening ones, or more. *)
Balanced == Count(json, "{") <= Count(json, "}")

(* After an LLM compute whose answer came whole, with a field of the record *)
(* in it, and whose events reached the page, the record holds the answer    *)
(* and the page shows the record, in all its cells, whatever earlier        *)
(* streams have left in them.                                              *)
WholeAnswer == script.kind = "llm" /\ pos = Len(json)
Answered == runner = "done" /\ outcome = "success" /\ WholeAnswer
PageShowsRecord ==
  Answered /\ Balanced /\ ~lost /\ Keys(Doc) \cap Fields # {} =>
    /\ \A f \in Fields : cell[f] = row[f].of
    /\ \A f \in Fields \cap Keys(Doc) : row[f] = Get(Doc, f)

(* Every invocation ends, though its stream may fail at any time: whatever  *)
(* the thread does, the runner hears of its end.                           *)
StreamEnds == runner # "idle" ~> runner = "done"

(* "done: <full tool-call input dict>" (ai_provider.py 527): the output of  *)
(* a stream that came whole is what the model wrote.                       *)
DoneCarriesInput ==
  Took("done") /\ WholeAnswer => result = Doc
=============================================================================
