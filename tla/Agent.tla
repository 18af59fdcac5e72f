--------------------------------- MODULE Agent ---------------------------------
(***************************************************************************)
(* The local agent: Agent::run (src/agent.rs), the answers of a model      *)
(* server and how they are read (src/llm/), and the tools it may call in   *)
(* the workspace of src/runtime.rs.                                        *)
(***************************************************************************)
EXTENDS Workspace

CONSTANTS
    MaxIterations,  \* DEFAULT_MAX_ITERATIONS
    MaxCalls        \* bound: tool calls in one answer

ASSUME AgentAssumption == {MaxIterations, MaxCalls} \subseteq Nat

-----------------------------------------------------------------------------
(***************************************************************************)
(* A tool call written as text (llm/ollama.rs).  A text is a sequence of   *)
(* lines: markers, "text", a text that is "indented", and "blank".         *)
(***************************************************************************)
Parameters == {"path", "content"}
Opening(p) == IF p = "path" THEN "<parameter=path>" ELSE "<parameter=content>"

\* str::trim of one line: the indentation goes, what the line says stays.
Trim(line) == IF line = "indented" THEN "text" ELSE line

\* trim: a value begins with no blank line and ends with none.
Trimmed(value) ==
    LET kept == {i \in DOMAIN value : \E j \in i .. Len(value) : value[j] # "blank"}
    IN  SubSeq(value, 1, Cardinality(kept))

\* Mutant: the value is not cleared.
StoredValueStays(acc) ==
    IF acc.name = "none" THEN acc
    ELSE [acc EXCEPT !.given = {g \in @ : g[1] # acc.name} \cup {<<acc.name, Trimmed(acc.value)>>},
                     !.name = "none"]

\* The parameter that was begun, if any, is complete; a later one of the same name
\* replaces it.
Stored(acc) ==
    IF acc.name = "none" THEN acc
    ELSE [acc EXCEPT !.given = {g \in @ : g[1] # acc.name} \cup {<<acc.name, Trimmed(acc.value)>>},
                     !.name = "none", !.value = <<>>]

\* One line of parse_qwen_parameters.  A parameter ends at its closing marker, at
\* the next one, or with the text; one without a name spoils the call.  Each line
\* of a value is trimmed.
ParameterLine(acc, line) ==
    IF acc.done THEN acc
    ELSE CASE line = "</parameter>" -> Stored(acc)
           [] line = "</function>" -> [acc EXCEPT !.done = TRUE]
           [] line = "<parameter=>" -> [acc EXCEPT !.done = TRUE, !.spoiled = TRUE]
           [] \E p \in Parameters : line = Opening(p) ->
                 [Stored(acc) EXCEPT !.name = CHOOSE p \in Parameters : line = Opening(p)]
           [] OTHER -> IF acc.name = "none" \/ (line = "blank" /\ acc.value = <<>>) THEN acc
                       ELSE [acc EXCEPT !.value = Append(@, Trim(line))]

ParseParameters(body) ==
    LET acc == FoldLeft(ParameterLine,
                        [given |-> {}, name |-> "none", value |-> <<>>, done |-> FALSE,
                         spoiled |-> FALSE], body)
    IN  IF acc.spoiled THEN {} ELSE Stored(acc).given

NoCall == [call |-> FALSE, given |-> {}, rest |-> FALSE]

\* parse_qwen_tool_call: the body reaches to the first closing marker, or to an
\* opening one that stands for it.  A call for which no parameter is found is none.
ParseToolCall(content) ==
    LET start == SelectInSeq(content, LAMBDA line : line \in {"<function", "<function=>"})
        after == IF start = 0 THEN <<>> ELSE SubSeq(content, start + 1, Len(content))
        closing == SelectInSeq(after, LAMBDA line : line = "</tool_call>")
        opening == SelectInSeq(after, LAMBDA line : line = "<tool_call>")
        stop == IF closing # 0 THEN closing ELSE opening
        given == ParseParameters(SubSeq(after, 1, stop - 1))
        around == SubSeq(content, 1, start - 1) \o SubSeq(after, stop + 1, Len(after))
    IN  IF start = 0 \/ stop = 0 \/ content[start] = "<function=>" \/ given = {} THEN NoCall
        ELSE [call |-> TRUE, given |-> given, rest |-> \E i \in DOMAIN around : around[i] # "blank"]

Values == UNION {[1 .. k -> {"text", "indented", "blank"}] : k \in 0 .. 3}
ParameterLists ==
    {<<>>} \cup {<<<<p, v>>>> : p \in Parameters, v \in Values}
        \cup {<<<<p, v>>, <<q, w>>>> : p, q \in Parameters, v, w \in Values}

\* A call as Qwen writes it; it may forget the closing markers of a parameter and
\* of the function, and write the opening marker of the call instead.
Written(given, closed, functionClosed, last) ==
    <<"text", "<function">> \o
    FlattenSeq([i \in DOMAIN given |->
                  <<Opening(given[i][1])>> \o given[i][2]
                      \o (IF closed THEN <<"</parameter>">> ELSE <<>>)])
    \o (IF functionClosed THEN <<"</function>">> ELSE <<>>) \o <<last>>

\* What is left of a value: from its first to its last line that is not blank, what
\* each line says, without its indentation.
Essence(value) ==
    LET said == [i \in DOMAIN value |-> IF value[i] = "blank" THEN "blank" ELSE "text"]
        told == {i \in DOMAIN said : said[i] = "text"}
    IN  IF told = {} THEN <<>>
        ELSE SubSeq(said, CHOOSE i \in told : \A j \in told : i <= j,
                          CHOOSE i \in told : \A j \in told : i >= j)

\* A call with parameters is read with exactly these, of those with one name the last,
\* each with what is left of its value, and what is told around it is kept apart.  A
\* call without parameters is not read as a call.
IsRead(given, closed, functionClosed, last) ==
    LET parsed == ParseToolCall(Written(given, closed, functionClosed, last))
        final == {i \in DOMAIN given : \A k \in DOMAIN given : k > i => given[k][1] # given[i][1]}
    IN  IF given = <<>> THEN ~parsed.call
        ELSE /\ parsed.call
             /\ parsed.given = {<<given[i][1], Essence(given[i][2])>> : i \in final}
             /\ parsed.rest

\* Whichever of the markers Qwen forgets when it writes a call as text, the call is made
\* with exactly the parameters that were written, their values without indentation and
\* without the blank lines around them; only a call that has none is not made, and its
\* text is a final answer (parse_qwen_tool_call, parse_qwen_parameters).
QwenCallsAreRead ==
    \A given \in ParameterLists, closed, functionClosed \in BOOLEAN,
       last \in {"</tool_call>", "<tool_call>"} :
        IsRead(given, closed, functionClosed, last)

-----------------------------------------------------------------------------
(***************************************************************************)
(* The run.                                                                *)
(***************************************************************************)
VARIABLES
    fs,          \* the files
    at,          \* where Agent::run is
    iterations,
    calls,       \* the tool calls of the last answer that are not yet executed
    messages,    \* the conversation so far
    outcome,     \* what the run returned
    lastWrite    \* the last write that succeeded, as long as nothing was changed since

vars == <<fs, at, iterations, calls, messages, outcome, lastWrite>>

NoWrite == [path |-> <<>>, text |-> "none"]
User == [role |-> "user", calls |-> {}, id |-> 0, text |-> "none"]
Assistant(k) == [role |-> "assistant", calls |-> 1 .. k, id |-> 0, text |-> "none"]
ToolResult(id, result) == [role |-> "tool", calls |-> {}, id |-> id, text |-> result.text]

Init ==
    /\ fs \in {[d \in Dirs |-> [n \in Names |->
                    CASE d = Ws -> e[n]
                      [] d = Out /\ n = OutsideFile -> File(Out)
                      [] OTHER -> NoEntry]] :
                e \in [Names -> {NoEntry, Link(Out), Link("outside file"), Link("nowhere")}
                                    \cup {File(t) : t \in Texts}]}
    /\ at = "loop"
    /\ iterations = 0 /\ calls = 0
    /\ messages = <<User>>
    /\ outcome = "none"
    /\ lastWrite = NoWrite

Return(how) ==
    /\ at' = "over" /\ outcome' = how
    /\ UNCHANGED <<fs, calls, messages, lastWrite>>

\* Mutant: the limit is noticed one request late.
LimitLate ==
    /\ at = "loop"
    /\ \/ iterations > MaxIterations /\ Return("limit") /\ UNCHANGED iterations
       \/ /\ iterations <= MaxIterations
          /\ iterations' = iterations + 1
          /\ at' = "chat"
          /\ UNCHANGED <<fs, calls, messages, outcome, lastWrite>>

\* The head of the loop: the limit, then the request with everything said so far.
Ask ==
    /\ at = "loop"
    /\ \/ iterations = MaxIterations /\ Return("limit") /\ UNCHANGED iterations
       \/ /\ iterations # MaxIterations
          /\ iterations' = iterations + 1
          /\ at' = "chat"
          /\ UNCHANGED <<fs, calls, messages, outcome, lastWrite>>

\* OllamaClient::chat fails: network, HTTP status, JSON, no choice, no content.
ChatFails ==
    /\ at = "chat"
    /\ Return("llm_error")
    /\ UNCHANGED iterations

\* parse_response: what the server sent is normalised, and is then either a list of
\* tool calls, perhaps empty, or a final answer, which any text is in which no call
\* was read.
ChatAnswers ==
    /\ at = "chat"
    /\ \/ Return("answer")
       \/ \E k \in 0 .. MaxCalls :
             /\ messages' = Append(messages, Assistant(k))
             /\ calls' = k
             /\ at' = "tools"
             /\ UNCHANGED <<fs, outcome, lastWrite>>
    /\ UNCHANGED iterations

\* The number of the call that is executed next.
CallId ==
    LET asked == SelectLastInSeq(messages, LAMBDA m : m.role = "assistant")
    IN  Cardinality(messages[asked].calls) - calls + 1

\* The result is serialised and answers the call.
Push(result) ==
    /\ messages' = Append(messages, ToolResult(CallId, result))
    /\ calls' = calls - 1
    /\ UNCHANGED <<at, iterations, outcome>>

\* Mutant: one call too many.
ToolAlways == at = "tools"

\* A call is left to execute.
Tool == at = "tools" /\ calls > 0

\* Mutant: a call that cannot be executed is not answered.
SkipRefused ==
    /\ Tool
    /\ calls' = calls - 1
    /\ UNCHANGED <<fs, at, iterations, messages, outcome, lastWrite>>

\* Arguments that are no JSON, an unknown tool, and arguments of the wrong shape, which
\* for get_current_directory are any at all.
ToolRefuses ==
    /\ Tool
    /\ Push(Refusal)
    /\ UNCHANGED <<fs, lastWrite>>

\* get_current_directory tells where the workspace is.
ToolLocates ==
    /\ Tool
    /\ Push(Answer("workspace"))
    /\ UNCHANGED <<fs, lastWrite>>

ToolReads ==
    /\ Tool
    /\ \E request \in Requests : Push(ReadFile(fs, request)) \/ Push(ListDirectory(fs, request))
    /\ UNCHANGED <<fs, lastWrite>>

ToolWrites ==
    /\ Tool
    /\ \E request \in Requests, text \in Texts :
          \/ ~Writable(fs, request) /\ Push(Refusal) /\ UNCHANGED <<fs, lastWrite>>
          \/ /\ Writable(fs, request)
             /\ fs' = WriteFile(fs, request, text)
             /\ lastWrite' = [path |-> request.path, text |-> text]
             /\ Push(Answer("written"))

ToolCreates ==
    /\ Tool
    /\ \E request \in Requests :
          \/ ~Creatable(fs, request) /\ Push(Refusal) /\ UNCHANGED <<fs, lastWrite>>
          \/ /\ Creatable(fs, request)
             /\ Cardinality(Unused(fs)) >= Len(request.path)
             /\ fs' = CreateDirectory(fs, request)
             /\ Push(Answer("created"))
             /\ UNCHANGED lastWrite

\* run_command: it fails or times out, or runs in the workspace, where it may make
\* or remove files and links; what it does elsewhere is its own business.
ToolCommand ==
    /\ Tool
    /\ \/ Push(Refusal) /\ UNCHANGED <<fs, lastWrite>>
       \/ \E n \in Names, entry \in {NoEntry, Link(Ws), Link(Out)} :
             /\ fs[Ws][n].type # "dir"
             /\ fs' = [fs EXCEPT ![Ws][n] = entry]
             /\ lastWrite' = NoWrite
             /\ Push(Answer("exit code"))

\* Mutant: only a result lets the loop go on.
ContinueAfterResult ==
    /\ at = "tools" /\ calls = 0
    /\ Last(messages).role = "tool"
    /\ at' = "loop"
    /\ UNCHANGED <<fs, iterations, calls, messages, outcome, lastWrite>>

\* Every call was executed: the loop goes on.
ToolsDone ==
    /\ at = "tools" /\ calls = 0
    /\ at' = "loop"
    /\ UNCHANGED <<fs, iterations, calls, messages, outcome, lastWrite>>

AgentStep ==
    \/ Ask \/ ChatFails \/ ChatAnswers
    \/ ToolRefuses \/ ToolLocates \/ ToolReads \/ ToolWrites \/ ToolCreates \/ ToolCommand \/ ToolsDone

Next == AgentStep

\* The model server answers in the end; nothing is assumed about what.
Spec == Init /\ [][Next]_vars /\ WF_vars(AgentStep)

-----------------------------------------------------------------------------
TypeOK ==
    /\ fs \in [Dirs -> [Names -> Entries]]
    /\ at \in {"loop", "chat", "tools", "over"}
    /\ iterations \in Nat
    /\ calls \in 0 .. MaxCalls
    /\ outcome \in {"none", "limit", "llm_error", "answer"}

\* However the workspace is linked, the file tools change nothing outside it, and no
\* text from outside is ever told to the model (docs/architecture.md: the tools "are
\* confined to LYA_WORKSPACE").
ToolsStayInside ==
    /\ fs[Out] = [n \in Names |-> IF n = OutsideFile THEN File(Out) ELSE NoEntry]
    /\ \A i \in DOMAIN messages : messages[i].text # Out

\* A file that was written is found again under the path it was written to, although
\* the two tools resolve the path in different ways, and directories are created in
\* between.
WrittenFilesAreRead ==
    lastWrite # NoWrite =>
        ReadFile(fs, [relative |-> TRUE, path |-> lastWrite.path]) = Answer(lastWrite.text)

\* The model is never asked again before each of its calls has exactly one result, in
\* the order of the calls.
EveryCallIsAnswered ==
    at = "chat" =>
        \A i \in DOMAIN messages : messages[i].role = "assistant" =>
            LET k == Cardinality(messages[i].calls)
            IN  /\ i + k <= Len(messages)
                /\ \A n \in 1 .. k : messages[i + n].role = "tool" /\ messages[i + n].id = n
                /\ i + k < Len(messages) => messages[i + k + 1].role = "assistant"

\* The model is asked at most MaxIterations times.
RequestsAreBounded ==
    Cardinality({i \in DOMAIN messages : messages[i].role = "assistant"}) <= MaxIterations

\* The conversation is one a model can continue: every call that was read from an
\* answer is answered, and the rounds are bounded.
ConversationIsSound == TypeOK /\ EveryCallIsAnswered /\ RequestsAreBounded

\* The two sides of the confinement: nothing outside is reached, and everything
\* inside stays within reach.
WorkspaceIsSound == ToolsStayInside /\ WrittenFilesAreRead

\* Every run comes to an end, whatever the model answers and the tools do.
RunEnds == <>(at = "over")
===============================================================================
