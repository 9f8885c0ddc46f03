------------------------------ MODULE McpSession ------------------------------
(***************************************************************************)
(* The MCP server of a project, beside the terminal of its developer: one  *)
(* process that reads a line of JSON-RPC at a time, handles its messages   *)
(* in order and writes at most one response to the line.  Its tools run    *)
(* whatever registry binary was built last; the terminal rebuilds it.      *)
(*                                                                         *)
(* A line is [form, messages]: "single", "batch", "unparsable", or         *)
(* "unreadable" where it is no text.  A message is [object, version,       *)
(* method, id, params]: whether it is an object, whether it says JSON-RPC  *)
(* 2.0, and its parts, None where they are missing or, for params, not     *)
(* what the method takes.  Of what the server writes the client accepts    *)
(* the first few, accepts, and hangs up.                                   *)
(***************************************************************************)
EXTENDS Workspace, McpTools

VARIABLES
  phase,    \* of the server: "new", "serving", "gone"
  session,  \* SessionState: initialize_seen, client_initialized, log_level
  taken,    \* lines read
  open,     \* whether the last of them is being handled
  at,       \* messages of it handled
  replies,  \* the responses collected for it
  suite,    \* the suite a tool call is running, or None
  out       \* what was written: log notifications and responses

dialogue == <<phase, session, taken, open, at, replies, suite, out>>
vars == <<project, terminal, dialogue>>

Levels == <<"debug", "info", "notice", "warning", "error", "critical", "alert", "emergency">>
Rank(level) == CHOOSE i \in DOMAIN Levels : Levels[i] = level

MInit ==
  /\ phase = "new"
  /\ session = [initialize_seen |-> FALSE, client_initialized |-> FALSE, log_level |-> "info"]
  /\ taken = 0 /\ open = FALSE /\ at = 0 /\ replies = <<>>
  /\ suite = None
  /\ out = <<>>

Init == WInit /\ MInit

(* cmd_mcp: with a registry the server starts by building it, and gives up *)
(* if it does not build.  valid.toml is read once.                         *)
StartServer ==
  /\ phase = "new" /\ Here.server # None
  /\ IF Here.server.registry
       THEN IF crate = Broken THEN phase' = "gone" /\ UNCHANGED bin
                              ELSE phase' = "serving" /\ bin' = crate
       ELSE phase' = "serving" /\ UNCHANGED bin
  /\ UNCHANGED <<scenario, crate, files, edits, terminal, session, taken, open, at, replies, suite, out>>

Server == [registry |-> Here.server.registry, file |-> Here.server.file, config |-> Config]
World == [models |-> IF bin = NoBinary THEN None ELSE Registries[bin], files |-> files]

-------------------------------------------------------------------------------
Line(k) == Here.inbox[k]
Readable(k) == Line(k).form # "unreadable"
Listening == Len(out) < Here.accepts

Malformed(message) == ~message.object \/ ~message.version \/ message.method = None
IsNotification(message) == ~Malformed(message) /\ message.id = None
Admitted(message) ==
  /\ ~Malformed(message) /\ message.id # None
  /\ session.initialize_seen \/ message.method \in {"initialize", "ping"}

(* response and error_response; an error carries the id that could be read.*)
Response(position, id, result) == [at |-> position, id |-> id, error |-> 0, result |-> result]
ErrorResponse(position, id, code) == [at |-> position, id |-> id, error |-> code, result |-> None]

(* Mutant: the replies of the line before are kept.                        *)
TakeLineKeeping ==
  /\ phase = "serving" /\ ~open /\ taken < Len(Here.inbox) /\ Readable(taken + 1)
  /\ taken' = taken + 1 /\ open' = TRUE /\ at' = 0
  /\ replies' = IF Line(taken + 1).form = "unparsable"
                  THEN <<ErrorResponse(0, None, -32700)>> ELSE replies
  /\ UNCHANGED <<project, terminal, phase, session, suite, out>>

(* serve_stdio: a line that is not JSON is answered as a whole.            *)
TakeLine ==
  /\ phase = "serving" /\ ~open /\ taken < Len(Here.inbox) /\ Readable(taken + 1)
  /\ taken' = taken + 1
  /\ open' = TRUE
  /\ at' = 0
  /\ replies' = IF Line(taken + 1).form = "unparsable"
                  THEN <<ErrorResponse(0, None, -32700)>> ELSE <<>>
  /\ UNCHANGED <<project, terminal, phase, session, suite, out>>

Handled ==
  /\ phase = "serving" /\ open /\ suite = None
  /\ at = Len(Line(taken).messages)

(* Mutant: a line without responses is never done.                         *)
FinishAnsweredLine ==
  /\ Handled /\ replies # <<>> /\ Listening
  /\ open' = FALSE
  /\ out' = Append(out, [kind |-> "reply", line |-> taken, answers |-> replies])
  /\ UNCHANGED <<project, terminal, phase, session, taken, at, replies, suite>>

(* Responses are written when every message of the line has been handled,  *)
(* and nothing is written where none calls for one.                        *)
FinishLine ==
  /\ Handled /\ (replies = <<>> \/ Listening)
  /\ open' = FALSE
  /\ out' = IF replies = <<>> THEN out
            ELSE Append(out, [kind |-> "reply", line |-> taken, answers |-> replies])
  /\ UNCHANGED <<project, terminal, phase, session, taken, at, replies, suite>>

Pending ==
  /\ phase = "serving" /\ open /\ suite = None
  /\ at < Len(Line(taken).messages)

Msg == Line(taken).messages[at + 1]

(* Mutant: logs go out before the client is ready.                         *)
MaybeLogEarly(level) ==
  IF Rank(level) < Rank(session.log_level) \/ ~Listening THEN <<>>
  ELSE <<[kind |-> "log", line |-> taken, at |-> at + 1, level |-> level]>>

(* maybe_log: before the response, once the client has reported ready, and *)
(* not below the level it asked for.  That it may not be written matters   *)
(* to nobody.                                                              *)
MaybeLog(level) ==
  IF ~session.client_initialized \/ Rank(level) < Rank(session.log_level) \/ ~Listening THEN <<>>
  ELSE <<[kind |-> "log", line |-> taken, at |-> at + 1, level |-> level]>>

Reply(reply, logs) ==
  /\ at' = at + 1
  /\ replies' = Append(replies, reply)
  /\ out' = out \o logs
  /\ UNCHANGED <<scenario, crate, bin, edits, terminal, phase, taken, open>>

Answer(result) == Response(at + 1, Msg.id, result)
Refuse(code) == ErrorResponse(at + 1, Msg.id, code)

(* A message that is no request, a request before initialize, a method the *)
(* server does not have.                                                   *)
Methods ==
  {"initialize", "ping", "logging/setLevel", "tools/list", "tools/call", "resources/list",
   "resources/read", "resources/templates/list", "prompts/list", "prompts/get"}

RefuseMessage ==
  /\ Pending
  /\ LET code == CASE Malformed(Msg) -> -32600
                   [] ~Malformed(Msg) /\ ~Admitted(Msg) -> -32002
                   [] OTHER -> -32601
     IN  /\ ~IsNotification(Msg)
         /\ Admitted(Msg) => Msg.method \notin Methods
         /\ Reply(IF Msg.object THEN Refuse(code) ELSE ErrorResponse(at + 1, None, code), <<>>)
  /\ UNCHANGED <<files, session, suite>>

(* handle_notification: only one of them changes anything.                 *)
Notify ==
  /\ Pending /\ IsNotification(Msg)
  /\ session' = IF Msg.method = "notifications/initialized"
                  THEN [session EXCEPT !.client_initialized = TRUE] ELSE session
  /\ at' = at + 1
  /\ UNCHANGED <<project, terminal, phase, taken, open, replies, suite, out>>

Requests(methods) == Pending /\ Admitted(Msg) /\ Msg.method \in methods

Initialize ==
  /\ Requests({"initialize"})
  /\ session' = [session EXCEPT !.initialize_seen = TRUE]
  /\ Reply(Answer("capabilities"), MaybeLog("info"))
  /\ UNCHANGED <<files, suite>>

(* logging_set_level: a level the server does not know is a bad parameter. *)
SetLevel ==
  /\ Requests({"logging/setLevel"})
  /\ IF Msg.params \in ToSet(Levels)
       THEN /\ session' = [session EXCEPT !.log_level = Msg.params]
            /\ Reply(Answer("level"), <<>>)
       ELSE Reply(Refuse(-32602), <<>>) /\ UNCHANGED session
  /\ UNCHANGED <<files, suite>>

(* The lists fit on a page; a cursor beyond it is a bad parameter.         *)
Ping == Requests({"ping"}) /\ Reply(Answer("pong"), <<>>) /\ UNCHANGED <<files, session, suite>>

ListItems ==
  /\ Requests({"tools/list", "resources/list", "prompts/list", "resources/templates/list"})
  /\ IF Msg.params = None THEN Reply(Refuse(-32602), <<>>)
     ELSE Reply(Answer("items"),
                IF Msg.method = "resources/templates/list" THEN <<>> ELSE MaybeLog("debug"))
  /\ UNCHANGED <<files, session, suite>>

(* resource_contents: the documents are built in; the default targets are  *)
(* looked up when they are read.                                           *)
Contents(uri) ==
  CASE uri = "default-model-file" ->
         Server.file # None /\ ReadFile(files, Server.file) # NoFile
    [] uri = "default-registry-binary" -> Server.registry
    [] OTHER -> uri \notin {None, "unknown"}

ReadItem ==
  /\ Requests({"resources/read", "prompts/get"})
  /\ IF Contents(Msg.params) THEN Reply(Answer("contents"), MaybeLog("info"))
                             ELSE Reply(Refuse(-32002), <<>>)
  /\ UNCHANGED <<files, session, suite>>

-------------------------------------------------------------------------------
(* tools/call: a failure of the tool is a result, logged as a warning.  of *)
(* is the version of the registry binary that was there.                   *)
CallAnswered(result) ==
  /\ Reply(Answer([isError |-> result.isError, value |-> result.value, of |-> bin]),
           MaybeLog(IF result.isError THEN "warning" ELSE "info"))
  /\ files' = result.files
  /\ UNCHANGED session

Calls == Requests({"tools/call"})
RunsSuite ==
  /\ Msg.params # None /\ Msg.params.tool = "valid_suite_run"
  /\ Msg.params.call.registry \/ Server.registry
  /\ ~(Msg.params.call.critical /\ Msg.params.call.suite # None)

CallTool ==
  /\ Calls /\ ~RunsSuite
  /\ CallAnswered(
       IF Msg.params = None THEN ToolError(None, files)
       ELSE IF Msg.params.tool = "valid_suite_run" THEN DslSuiteTool(Msg.params.call, Server, files)
       ELSE HandleToolCall(Msg.params.tool, Msg.params.call, Server, World))
  /\ UNCHANGED suite

(* suite_run_tool through the registry: list, inspect each model, select,  *)
(* check each pair; every one a run of the binary of that moment, and one  *)
(* that prints nothing makes the whole call an error.                      *)
SuiteCall == Msg.params.call
Catalogued == suite.unread = <<>>
EndSuite(result) == CallAnswered(result) /\ suite' = None

BeginSuite ==
  /\ Calls /\ RunsSuite /\ suite = None
  /\ LET list == RunRegistry([SuiteCall EXCEPT !.command = "list"], Server, World)
     IN  IF list.out = None THEN EndSuite(ToolError(None, files))
         ELSE /\ suite' = [unread |-> list.out.models, catalog |-> <<>>, chosen |-> FALSE,
                           todo |-> <<>>, rows |-> <<>>]
              /\ UNCHANGED <<project, terminal, phase, session, taken, open, at, replies, out>>

InSuite == phase = "serving" /\ suite # None

Proceed(next) ==
  /\ suite' = next
  /\ UNCHANGED <<project, terminal, phase, session, taken, open, at, replies, out>>

(* registry_model_property_catalog.                                        *)
InspectNext ==
  /\ InSuite /\ ~Catalogued
  /\ LET model == Head(suite.unread)
         inspect == RunRegistry([SuiteCall EXCEPT !.command = "inspect", !.model = model], Server, World)
     IN  IF inspect.out = None THEN EndSuite(ToolError(None, files))
         ELSE Proceed([suite EXCEPT !.unread = Tail(@),
                                    !.catalog = model :> ToSet(inspect.out.properties) @@ @])

ChooseRuns ==
  /\ InSuite /\ Catalogued /\ ~suite.chosen
  /\ LET runs == SelectSuiteRuns(SuiteCall, Config)
     IN  IF SuiteChosen(SuiteCall, Config) /\ Expandable(runs, suite.catalog)
           THEN Proceed([suite EXCEPT !.chosen = TRUE, !.todo = ExpandTargets(runs)])
           ELSE EndSuite(ToolError(None, files))

RunNext ==
  /\ InSuite /\ suite.chosen /\ suite.todo # <<>>
  /\ LET run == Head(suite.todo)
         check == RunRegistry([SuiteCall EXCEPT !.command = "check", !.model = run[1],
                                                !.property = run[2]], Server, World)
     IN  IF check.out = None THEN EndSuite(ToolError(None, files))
         ELSE Proceed([suite EXCEPT !.todo = Tail(@),
                                    !.rows = Append(@, SuiteRow(run[1], run[2], bin, check.out))])

ReturnRows ==
  /\ InSuite /\ suite.chosen /\ suite.todo = <<>>
  /\ EndSuite(ToolSuccess([runs |-> suite.rows], files))

(* serve_stdio returns: the client has closed the input behind the last    *)
(* line, or, with an error, the next line cannot be read or a response     *)
(* cannot be written.                                                      *)
StopServer ==
  /\ phase = "serving"
  /\ \/ ~open /\ taken = Len(Here.inbox)
     \/ ~open /\ taken < Len(Here.inbox) /\ ~Readable(taken + 1)
     \/ Handled /\ replies # <<>> /\ ~Listening
  /\ phase' = "gone"
  /\ UNCHANGED <<project, terminal, session, taken, open, at, replies, suite, out>>

HandleMessage ==
  \/ RefuseMessage \/ Notify \/ Initialize \/ SetLevel \/ Ping \/ ListItems \/ ReadItem
  \/ CallTool \/ BeginSuite \/ InspectNext \/ ChooseRuns \/ RunNext \/ ReturnRows
Serve == StartServer \/ TakeLine \/ FinishLine \/ StopServer \/ HandleMessage

(* The developer, the terminal and the server, each at its own pace.       *)
Work == (WorkTerminal /\ UNCHANGED dialogue) \/ Serve
Next == (Develop /\ UNCHANGED dialogue) \/ Work

Spec == Init /\ [][Next]_vars

(* Of the two processes that can go on, one does: no child runs for ever.  *)
(* As the work is finite, both come to their ends.                         *)
FairSpec == Spec /\ WF_vars(Work)

-------------------------------------------------------------------------------
(* What the client may rely on.                                            *)

(* The messages of line k that are owed a response; 0 is the line itself.  *)
NeedsAnswer(k) ==
  IF Line(k).form = "unparsable" THEN {0}
  ELSE {i \in DOMAIN Line(k).messages : ~IsNotification(Line(k).messages[i])}

IdOf(k, i) ==
  IF i \in DOMAIN Line(k).messages /\ Line(k).messages[i].object
    THEN Line(k).messages[i].id ELSE None

(* Collected responses answer the messages owed one so far, each once, in  *)
(* order, under its id.                                                    *)
Answers(k, position, answers) ==
  /\ {answers[i].at : i \in DOMAIN answers} = {i \in NeedsAnswer(k) : i <= position}
  /\ \A i, j \in DOMAIN answers : i < j => answers[i].at < answers[j].at
  /\ \A i \in DOMAIN answers : answers[i].id = IdOf(k, answers[i].at)

Finished == IF open THEN taken - 1 ELSE taken

(* Every line that was read is answered by exactly one response, a batch   *)
(* of them by one array, in the order the lines came; a line that asks     *)
(* nothing is not answered at all.  Nothing in a message makes the server  *)
(* skip another, whatever its tools run into.                              *)
OneAnswerPerRequest ==
  /\ \A i \in DOMAIN out : out[i].kind = "reply" =>
       /\ out[i].line \in 1..Finished
       /\ NeedsAnswer(out[i].line) # {}
       /\ Answers(out[i].line, Len(Line(out[i].line).messages), out[i].answers)
  /\ \A i, j \in DOMAIN out : i < j /\ out[i].kind = "reply" /\ out[j].kind = "reply"
                               => out[i].line < out[j].line
  /\ \A k \in 1..Finished : NeedsAnswer(k) # {}
       => \E i \in DOMAIN out : out[i].kind = "reply" /\ out[i].line = k

(* The messages before message i of line k, told from the input alone.     *)
MessageAt(place) == Line(place[1]).messages[place[2]]
Before(p, q) == p[1] < q[1] \/ (p[1] = q[1] /\ p[2] < q[2])
Earlier(place) ==
  {p \in UNION {{<<k, i>> : i \in DOMAIN Line(k).messages} : k \in 1..place[1]} : Before(p, place)}

Reported(place) ==
  \E p \in Earlier(place) : /\ IsNotification(MessageAt(p))
                             /\ MessageAt(p).method = "notifications/initialized"

(* The level the client asked for last, of those the server took.          *)
IsRequest(p, method) ==
  ~Malformed(MessageAt(p)) /\ MessageAt(p).id # None /\ MessageAt(p).method = method
AskedLevel(place) ==
  LET taken_ == {p \in Earlier(place) :
                   /\ IsRequest(p, "logging/setLevel") /\ MessageAt(p).params \in ToSet(Levels)
                   /\ \E q \in Earlier(p) : IsRequest(q, "initialize")}
  IN  IF taken_ = {} THEN "info"
      ELSE MessageAt(CHOOSE p \in taken_ : \A q \in taken_ : q = p \/ Before(q, p)).params

Heard(place, level) == Reported(place) /\ Rank(level) >= Rank(AskedLevel(place))

(* A log notification reaches only a client that has reported ready, at a  *)
(* level it asked for, in the order of the messages and before the         *)
(* response to their line, although a batch changes the level half way;    *)
(* and the failure of a tool is never kept from a client that listens.     *)
LogsAreHeard ==
  /\ \A i \in DOMAIN out : out[i].kind = "log" =>
       /\ Heard(<<out[i].line, out[i].at>>, out[i].level)
       /\ \A j \in 1..(i - 1) :
            IF out[j].kind = "log" THEN Before(<<out[j].line, out[j].at>>, <<out[i].line, out[i].at>>)
                                   ELSE out[j].line < out[i].line
  /\ \A i \in DOMAIN out : out[i].kind = "reply" => \A a \in DOMAIN out[i].answers :
       LET answer == out[i].answers[a]
           place == <<out[i].line, answer.at>>
       IN  /\ answer.error = 0 /\ MessageAt(place).method = "tools/call"
           /\ answer.result.isError /\ Heard(place, "warning")
           => \E j \in 1..(i - 1) : out[j].kind = "log" /\ <<out[j].line, out[j].at>> = place
                                     /\ out[j].level = "warning"

(* What the server said of the models of its registry: the answers to      *)
(* valid_check, and the rows of valid_suite_run.                           *)
WrittenReplies == {e \in ToSet(out) : e.kind = "reply"}
Results ==
  UNION {{[call |-> MessageAt(<<e.line, a.at>>).params, result |-> a.result] :
            a \in {a \in ToSet(e.answers) : a.error = 0 /\ a.at > 0 /\
                     MessageAt(<<e.line, a.at>>).method = "tools/call" /\
                     MessageAt(<<e.line, a.at>>).params # None}} : e \in WrittenReplies}
ServerSays ==
  LET checks == {r \in Results : /\ r.call.tool = "valid_check" /\ r.result.value # None
                                 /\ r.call.call.model # None}
      suites == {r \in Results : r.call.tool = "valid_suite_run" /\ ~r.result.isError /\ Server.registry}
      rows(r) == {Saying(row.of, [r.call.call EXCEPT !.model = row.model, !.property = row.property],
                         row.answer) : row \in ToSet(r.result.value.runs)}
  IN  {Saying(r.result.of, r.call.call, r.result.value) : r \in checks} \cup UNION {rows(r) : r \in suites}

(* The terminal and the server, a check of its own and a row of a suite,   *)
(* give one answer to one question about one version, however often the    *)
(* registry was rebuilt in between; and a suite that came to its end has a *)
(* row for each pair it was asked for.                                     *)
SurfacesAgree ==
  /\ \A s, t \in TerminalSays \cup ServerSays :
       /\ s.of = t.of /\ s.model = t.model /\ s.asked = t.asked /\ s.engine = t.engine
       => s.answer = t.answer
  /\ \A s \in ServerSays : s.answer.property = s.asked
  /\ \A r \in Results : r.call.tool = "valid_suite_run" /\ ~r.result.isError =>
       {<<row.model, row.property>> : row \in ToSet(r.result.value.runs)}
         = ToSet(SelectSuiteRuns(r.call.call, Config))

(* A verdict is an answer: a model that fails, and a contract that has     *)
(* drifted, are no errors of the tool that found it out.                   *)
AnswersAreResults ==
  \A r \in Results :
    /\ r.result.value # None
    /\ \/ r.call.tool = "valid_check" /\ r.result.value.status # "ERROR"
       \/ r.call.tool = "valid_contract_check"
    => ~r.result.isError

(* Only a save, and a command that is told to, changes a file; through the *)
(* server only generated tests are ever written.                           *)
NamedFilesChange ==
  \A p \in DOMAIN files \cup DOMAIN files' :
    ReadFile(files, p) # ReadFile(files', p) =>
      \/ edits' # edits
      \/ job' # job /\ MayChange(Head(job.todo), p)
      \/ replies' # replies /\ p[1] = "generated-tests"
         /\ Msg.params.tool \in {"valid_testgen", "valid_handoff"}

OnlyNamedFilesChange == [][NamedFilesChange]_vars

(* Where the server may stop: behind the last line that can be read, or at *)
(* one that has been handled for a client that has hung up.                *)
Served ==
  IF open THEN at = Len(Line(taken).messages) /\ ~Listening
          ELSE taken = Len(Here.inbox) \/ ~Readable(taken + 1)

(* Every job ends with a report; and the server, unless its registry did   *)
(* not build, handles all of its input it can read and can answer, and     *)
(* only then stops.                                                        *)
Settles ==
  <>[](/\ script = <<>> /\ job = Idle
       /\ \/ Here.server = None
          \/ phase = "gone" /\ (Served \/ (Here.server.registry /\ taken = 0)))
================================================================================
