----------------------------- MODULE ChatStream -----------------------------
(***************************************************************************)
(* One streaming chat request: the response generator of /v1/chat/         *)
(* completions or /v1/messages, the provider client whose stream_chat it   *)
(* consumes, and the metered HTTP stream below that one.  All three are    *)
(* generators suspended inside each other, so the request has one control  *)
(* point, task; an action is what runs between two awaits.                 *)
(*                                                                         *)
(* A client that disconnects cancels the task.  If the task is inside an   *)
(* await of the generators they unwind at once.  If it is sending a chunk  *)
(* they are suspended at their yields and stay so: nobody closes them but  *)
(* the interpreter's finalizer for asynchronous generators (Finalize).     *)
(***************************************************************************)
EXTENDS Naturals, Sequences, FiniteSets

CONSTANTS
    MaxLines,   \* bound of the lines of an upstream body, for TLC
    Tools       \* positions of tool calls in a message

ASSUME StreamAssumption == MaxLines \in Nat /\ IsFiniteSet(Tools)

VARIABLES
    req,        \* the request, chosen once
    task,       \* where the task is suspended
    pending,    \* chunks the generator has made and not yet sent
    after,      \* where it goes on after sending or closing
    unwinding,  \* the HTTP stream is left with the exception passed on to it
    obs,        \* _StreamUsage and _MeteredResponse
    parser,     \* what stream_chat remembers of the upstream's events
    gen,        \* what the response generator remembers of them
    slot,       \* holds a slot of VertexChatClient.semaphore
    client,     \* "here" or "gone"
    reserved,   \* before_attempt has admitted the call
    records,    \* calls of record_attempt (history)
    upstream,   \* the connection and what came over it (history)
    sent        \* chunks the client has received (history)

vars == <<req, task, pending, after, unwinding, obs, parser, gen, slot,
          client, reserved, records, upstream, sent>>

-----------------------------------------------------------------------------
(* The request and the upstream's lines.                                   *)

Native  == {"foundry", "jetbrains"}     \* share FoundryChatClient.stream_chat
Request == [provider : {"vertex", "ollama", "openai_compat"} \union Native,
            protocol : {"chat", "responses"},
            ingress : {"openai", "anthropic"},
            includeUsage : BOOLEAN,
            tools : BOOLEAN]

\* Only Foundry and JetBrains speak the Responses protocol.  /v1/messages
\* refuses tools for Ollama.
Requests == {r \in Request :
    /\ r.protocol = "responses" => r.provider \in Native
    /\ r.provider = "ollama" /\ r.ingress = "anthropic" => ~r.tools
    /\ r.ingress = "anthropic" => ~r.includeUsage}

\* Vertex answers a request with tools in one piece, from generate().
Buffered == req.provider = "vertex" /\ req.tools

\* What a line of the body can carry; usage is usable ("good"), present but
\* unusable ("bad") or absent.
Event == [text : BOOLEAN, calls : SUBSET Tools,
          finish : {"none", "stop", "tool_calls"}, usage : {"none", "good", "bad"}]
Blank == [text |-> FALSE, calls |-> {}, finish |-> "none", usage |-> "none"]
Text  == [Blank EXCEPT !.text = TRUE]
Call(t)        == [Blank EXCEPT !.calls = {t}]
Finish(f)      == [Blank EXCEPT !.finish = f]
Counts(q)      == [Blank EXCEPT !.usage = q]
Complete(f, q) == [Blank EXCEPT !.finish = f, !.usage = q]

Finishes == {"stop"} \union (IF req.tools THEN {"tool_calls"} ELSE {})
Events ==   \* nothing follows the end of a Responses message
    CASE req.protocol = "responses" /\ parser.terminal -> {}
      [] req.provider = "ollama" ->
           {Blank, Text} \union {[Complete("stop", q) EXCEPT !.text = b] :
                                   q \in {"good", "bad"}, b \in BOOLEAN}
      [] req.protocol = "responses" /\ ~parser.terminal ->
           {Text} \union {Call(t) : t \in IF req.tools THEN Tools ELSE {}}
                  \union {Complete("stop", q) : q \in {"good", "bad"}}
      [] OTHER ->
           {Blank, Text} \union {Call(t) : t \in IF req.tools THEN Tools ELSE {}}
                  \union {Finish(f) : f \in Finishes}
                  \union {Counts(q) : q \in {"good", "bad"}}
                  \union {Complete(f, "good") : f \in Finishes}

\* Upstreams of the OpenAI protocol end their stream with [DONE].
SendsDone == req.protocol = "chat" /\ req.provider \notin {"vertex", "ollama"}

-----------------------------------------------------------------------------
(* The chunks of the answer: the type, the index of the content block and  *)
(* the finish reason, where the chunk has one.                             *)

ChunkType == {"role", "delta", "finish", "usage", "error", "[DONE]",
              "message_start", "block_start", "block_delta", "block_stop",
              "message_delta", "message_stop"}
Reason    == {"none", "stop", "tool_calls", "tool_use", "end_turn"}
Chunk     == [type : ChunkType, block : Nat, reason : Reason]

Block(t, i)  == [type |-> t, block |-> i, reason |-> "none"]
Plain(t)     == Block(t, 0)
Ending(t, r) == [type |-> t, block |-> 0, reason |-> r]

Done == Plain("[DONE]")

\* AnthropicStreamState._ensure_start
StartChunks == <<Plain("message_start"), Block("block_start", 0)>>

\* The chunks for one event of the provider: event_generator and feed.
EventChunks(g, e) ==
    IF req.ingress = "anthropic"
      THEN (IF g.first THEN StartChunks ELSE <<>>)
             \o (IF e.text THEN <<Block("block_delta", 0)>> ELSE <<>>)
      ELSE IF g.first THEN <<Plain("role")>>
           ELSE IF e.text \/ e.calls # {} THEN <<Plain("delta")>> ELSE <<>>

\* A tool call is sent whole, as a block of its own, at the end.
ToolBlocks(n) ==
    [k \in 1..3 * n |->
        Block(<<"block_start", "block_delta", "block_stop">>[((k - 1) % 3) + 1],
              ((k - 1) \div 3) + 1)]

\* Mutant: takes it that some event came before the end.
TailChunksUnstarted(g) ==
    IF req.ingress = "anthropic"
      THEN <<Ending("message_delta", "end_turn"), Plain("message_stop")>>
      ELSE <<Ending("finish", "stop")>>
             \o (IF req.includeUsage THEN <<Plain("usage")>> ELSE <<>>)
             \o <<Done>>

\* The end of an answer without error: the tail of event_generator, finish.
\* A first block without text is not closed.
TailChunks(g) ==
    IF req.ingress = "anthropic"
      THEN (IF g.first THEN StartChunks ELSE <<>>)
             \o (IF g.text THEN <<Block("block_stop", 0)>> ELSE <<>>)
             \o ToolBlocks(Cardinality(g.tools))
             \o <<Ending("message_delta",
                         IF g.finish = "tool_calls" THEN "tool_use" ELSE "end_turn"),
                  Plain("message_stop")>>
      ELSE (IF g.first THEN <<Plain("role")>> ELSE <<>>)
             \o <<Ending("finish", IF g.finish = "none" THEN "stop" ELSE g.finish)>>
             \o (IF req.includeUsage THEN <<Plain("usage")>> ELSE <<>>)
             \o <<Done>>

ErrorChunks ==
    IF req.ingress = "anthropic" THEN <<Plain("error")>> ELSE <<Plain("error"), Done>>

-----------------------------------------------------------------------------
(* The observer of the HTTP stream.                                        *)

\* _StreamUsage.feed_line for the line of an event and the blank line after it.
Observe(o, e) ==
    IF o.invalid \/ e.usage = "none" THEN o
    ELSE [o EXCEPT !.usage = IF e.usage = "good" THEN "good" ELSE "none"]

\* An error object, or a line that is not JSON.
Discard(o) == [o EXCEPT !.invalid = TRUE]

\* Mutant: what was seen so far is good enough.
CollectedSoFar(o) == IF ~o.failed /\ ~o.invalid THEN o.usage ELSE "none"

\* _MeteredResponse.collected_usage
Collected(o) ==
    IF ~o.failed /\ (o.exhausted \/ o.done) /\ ~o.invalid THEN o.usage ELSE "none"

(* What stream_chat makes of an event, and what it remembers.              *)

Parsed(p, e) ==
    IF req.provider \notin Native THEN e
    ELSE LET fin == IF e.finish # "none" /\ req.protocol = "responses" /\ p.tool
                      THEN "tool_calls" ELSE e.finish
             use == IF e.usage = "bad" /\ (req.protocol = "responses" \/ req.provider = "jetbrains")
                      THEN "none" ELSE e.usage
         IN  [e EXCEPT !.usage = use,
                       !.finish = IF fin = "none" /\ use # "none" THEN p.finish ELSE fin]

\* Foundry's stream_chat keeps to itself an event that says nothing.
Passes(e) == req.provider \in Native => e # Blank

Remember(p, e) ==
    [tool     |-> p.tool \/ e.calls # {},
     finish   |-> IF e.finish # "none" THEN e.finish ELSE p.finish,
     terminal |-> p.terminal \/ (req.protocol = "responses" /\ e.finish # "none")]

\* What the response generator remembers of an event it is handed.
Take(g, e) ==
    [first  |-> FALSE,
     text   |-> g.text \/ e.text,
     tools  |-> g.tools \union e.calls,
     finish |-> IF e.finish # "none" THEN e.finish ELSE g.finish]

-----------------------------------------------------------------------------
(* Where the task goes on.                                                 *)

\* The generators run on until they wait for the next line, have something to
\* send, or have ended.
Proceed(next, g) ==
    \/ /\ next \in {"read", "over"}
       /\ task' = next /\ pending' = <<>> /\ after' = "none"
    \/ /\ next = "tail"
       /\ task' = "send" /\ pending' = TailChunks(g) /\ after' = "over"
    \/ /\ next = "error"
       /\ task' = "send" /\ pending' = ErrorChunks /\ after' = "over"

\* The event reaches the response generator, which may have something to send.
Yield(e, next) ==
    /\ gen' = Take(gen, e)
    /\ IF EventChunks(gen, e) = <<>>
         THEN Proceed(next, gen')
         ELSE task' = "send" /\ pending' = EventChunks(gen, e) /\ after' = next

\* stream_chat leaves the HTTP stream.
Leave(next) ==
    /\ task' = "close" /\ pending' = <<>> /\ after' = next

\* Mutant: the stream is closed on the regular way out only.
LeaveUnclosed(next) ==
    /\ task' = "over" /\ pending' = <<>> /\ after' = next
    /\ UNCHANGED unwinding

\* It does so because of an error.  Foundry's passes the exception on to the
\* stream, the others do not.
LeaveFailing(next) ==
    /\ Leave(next)
    /\ unwinding' = (req.provider \in Native)

Record(u) == records' = Append(records, u)

Init ==
    /\ req \in Requests
    /\ task = "begin" /\ pending = <<>> /\ after = "none"
    /\ unwinding = FALSE
    /\ obs = [usage |-> "none", invalid |-> FALSE, done |-> FALSE,
              exhausted |-> FALSE, failed |-> FALSE]
    /\ parser = [tool |-> FALSE, finish |-> "none", terminal |-> FALSE]
    /\ gen = [first |-> TRUE, text |-> FALSE, tools |-> {}, finish |-> "none"]
    /\ slot = FALSE /\ client = "here" /\ reserved = FALSE
    /\ records = <<>>
    /\ upstream = [state |-> "none", lines |-> 0, flawed |-> FALSE, usage |-> "none"]
    /\ sent = <<>>

-----------------------------------------------------------------------------
(* Up to the headers of the upstream's response.                           *)

\* Ollama's stream_chat has no parameter for tools, so the call is a TypeError.
Callable == ~(req.provider = "ollama" /\ req.tools)

\* The request body is built.  Vertex then waits for a slot.
Start ==
    /\ task = "begin" /\ Callable
    /\ task' = IF req.provider = "vertex" THEN "slot" ELSE "admit"
    /\ UNCHANGED <<req, pending, after, unwinding, obs, parser, gen, slot,
                   client, reserved, records, upstream, sent>>

\* A request the provider cannot express; or one it cannot be called with, or
\* no access token for Vertex, neither of them a VertexAPIError: the answer ends.
StartFails ==
    /\ task = "begin"
    /\ \/ Callable /\ Proceed("error", gen)
       \/ (req.provider = "vertex" \/ ~Callable) /\ Proceed("over", gen)
    /\ UNCHANGED <<req, unwinding, obs, parser, gen, slot, client, reserved,
                   records, upstream, sent>>

TakeSlot ==
    /\ task = "slot"
    /\ task' = "admit" /\ slot' = TRUE
    /\ UNCHANGED <<req, pending, after, unwinding, obs, parser, gen, client,
                   reserved, records, upstream, sent>>

\* before_attempt: the budget is asked only now, after the headers of the
\* answer have gone out.
Admit ==
    /\ task = "admit"
    /\ task' = "connect" /\ reserved' = TRUE
    /\ UNCHANGED <<req, pending, after, unwinding, obs, parser, gen, slot,
                   client, records, upstream, sent>>

\* Mutant: a refusal keeps the slot.
RefuseKeepingSlot ==
    /\ task = "admit"
    /\ Proceed("error", gen)
    /\ UNCHANGED <<req, unwinding, obs, parser, gen, slot, client, reserved,
                   records, upstream, sent>>

Refuse ==
    /\ task = "admit"
    /\ slot' = FALSE
    /\ Proceed("error", gen)
    /\ UNCHANGED <<req, unwinding, obs, parser, gen, client, reserved,
                   records, upstream, sent>>

\* Timeout or connection error.
ConnectFails ==
    /\ task = "connect"
    /\ slot' = FALSE
    /\ Record("none")
    /\ Proceed("error", gen)
    /\ UNCHANGED <<req, unwinding, obs, parser, gen, client, reserved,
                   upstream, sent>>

\* Status 2xx: the slot is given back before the body is read.
Connect ==
    /\ task = "connect" /\ ~Buffered
    /\ slot' = FALSE
    /\ upstream' = [upstream EXCEPT !.state = "open"]
    /\ Proceed("read", gen)
    /\ UNCHANGED <<req, unwinding, obs, parser, gen, client, reserved,
                   records, sent>>

\* Status 4xx or 5xx; the slot is kept until the stream is closed.
Rejected ==
    /\ task = "connect" /\ ~Buffered
    /\ upstream' = [upstream EXCEPT !.state = "open", !.flawed = TRUE]
    /\ obs' = [obs EXCEPT !.failed = TRUE]
    /\ LeaveFailing("error")
    /\ UNCHANGED <<req, parser, gen, slot, client, reserved, records, sent>>

\* VertexChatClient.generate has the whole response; MeteredHTTPClient.post
\* has recorded its usage.  The single event carries text or tool calls.
Reply(e) ==
    /\ task = "connect" /\ Buffered
    /\ slot' = FALSE
    /\ upstream' = [upstream EXCEPT !.state = "ended", !.usage = e.usage]
    /\ Record(IF e.usage = "good" THEN "good" ELSE "none")
    /\ Yield(e, "tail")
    /\ UNCHANGED <<req, unwinding, obs, parser, client, reserved, sent>>

\* Status 4xx or 5xx, or a 2xx body generate() cannot use: the usage of the
\* latter counts all the same.
ReplyFails(q) ==
    /\ task = "connect" /\ Buffered
    /\ slot' = FALSE
    /\ upstream' = [upstream EXCEPT !.state = "ended", !.usage = q]
    /\ Record(IF q = "good" THEN "good" ELSE "none")
    /\ Proceed("error", gen)
    /\ UNCHANGED <<req, unwinding, obs, parser, gen, client, reserved, sent>>

-----------------------------------------------------------------------------
(* The body of the response.                                               *)

\* A line has come.  The observer sees it before stream_chat does.
Receive(flawed, usage) ==
    /\ task = "read"
    /\ upstream.lines < MaxLines
    /\ upstream' = [upstream EXCEPT !.lines = @ + 1,
                                    !.flawed = @ \/ flawed,
                                    !.usage = IF usage = "none" THEN @ ELSE usage]
    /\ UNCHANGED <<req, slot, client, reserved, records, sent>>

ReadEvent(e) ==
    /\ Receive(FALSE, e.usage)
    /\ obs' = Observe(obs, e)
    /\ LET seen == Parsed(parser, e) IN
         /\ parser' = Remember(parser, seen)
         /\ IF Passes(seen)
              THEN Yield(seen, "read")
              ELSE UNCHANGED <<task, pending, after, gen>>
    /\ UNCHANGED unwinding

\* Ollama's last event, when the whole text breaks the JSON schema or nothing
\* is left of it without its reasoning.
ReadUnacceptable(e) ==
    /\ req.provider = "ollama" /\ e.finish # "none"
    /\ Receive(FALSE, e.usage)
    /\ obs' = Observe(obs, e)
    /\ LeaveFailing("error")
    /\ UNCHANGED <<parser, gen>>

\* An error object in the stream.  Only Foundry's stream_chat takes it for one;
\* to the others it is an event that says nothing.
ReadError ==
    /\ Receive(TRUE, "none")
    /\ obs' = Discard(obs)
    /\ \/ /\ req.provider \in Native
          /\ LeaveFailing("error")
          /\ UNCHANGED gen
       \/ /\ req.provider \notin Native
          /\ Yield(Blank, "read")
          /\ UNCHANGED unwinding
    /\ UNCHANGED parser

\* Not JSON: skipped.
ReadJunk ==
    /\ Receive(TRUE, "none")
    /\ obs' = Discard(obs)
    /\ UNCHANGED <<task, pending, after, unwinding, parser, gen>>

\* Mutant: the end of the answer goes out before the stream is closed.
EndOfBodyUnclosed(p) ==
    /\ Proceed("tail", gen)
    /\ UNCHANGED <<unwinding, gen>>

\* stream_chat has read all it wants to.  JetBrains needs to have seen the end
\* of the message; a message with tool calls that gave no finish reason gets one.
EndOfBody(p) ==
    IF req.provider = "jetbrains" /\ ~p.terminal
      THEN /\ LeaveFailing("error")
           /\ UNCHANGED gen
      ELSE /\ Leave("tail")
           /\ gen' = IF req.provider \in Native /\ p.tool /\ p.finish = "none"
                       THEN Take(gen, Finish("tool_calls")) ELSE gen
           /\ UNCHANGED unwinding

\* [DONE]; the loop stops without waiting for the end of the body.
ReadDone ==
    /\ task = "read" /\ SendsDone
    /\ obs' = IF obs.invalid THEN obs ELSE [obs EXCEPT !.done = TRUE]
    /\ upstream' = [upstream EXCEPT !.state = "ended"]
    /\ parser' = [parser EXCEPT !.terminal = @ \/ parser.finish # "none"]
    /\ EndOfBody(parser')
    /\ UNCHANGED <<req, slot, client, reserved, records, sent>>

ReadEof ==
    /\ task = "read"
    /\ obs' = [obs EXCEPT !.exhausted = TRUE]
    /\ upstream' = [upstream EXCEPT !.state = "ended"]
    /\ EndOfBody(parser)
    /\ UNCHANGED <<req, parser, slot, client, reserved, records, sent>>

\* A read timeout or a broken connection.  Vertex and JetBrains turn it into a
\* VertexAPIError, the others let httpx's exception through, which nobody
\* catches: the answer just ends.
ReadFails ==
    /\ task = "read"
    /\ obs' = [obs EXCEPT !.failed = TRUE]
    /\ upstream' = [upstream EXCEPT !.state = "broken"]
    /\ LeaveFailing(IF req.provider \in {"vertex", "jetbrains"} THEN "error" ELSE "over")
    /\ UNCHANGED <<req, parser, gen, slot, client, reserved, records, sent>>

\* The HTTP stream is closed, its reservation handed to record_attempt.
Close ==
    /\ task = "close"
    /\ slot' = FALSE
    /\ Record(IF unwinding THEN "none" ELSE Collected(obs))
    /\ upstream' = [upstream EXCEPT !.state = IF @ = "open" THEN "closed" ELSE @]
    /\ Proceed(after, gen)
    /\ UNCHANGED <<req, unwinding, obs, parser, gen, client, reserved, sent>>

-----------------------------------------------------------------------------
(* The client.                                                             *)

Send ==
    /\ task = "send"
    /\ sent' = Append(sent, Head(pending))
    /\ IF Len(pending) > 1
         THEN pending' = Tail(pending) /\ UNCHANGED <<task, after>>
         ELSE Proceed(after, gen)
    /\ UNCHANGED <<req, unwinding, obs, parser, gen, slot, client, reserved,
                   records, upstream>>

\* The client disconnects, the task is cancelled.
Disconnect ==
    /\ client = "here" /\ task # "over"
    /\ client' = "gone"
    /\ CASE task \in {"begin", "slot", "admit"} ->
              /\ Proceed("over", gen)
              /\ slot' = FALSE
              /\ UNCHANGED <<unwinding, obs, records, upstream>>
         [] task = "connect" ->
              /\ Proceed("over", gen)
              /\ slot' = FALSE
              /\ Record("none")
              /\ UNCHANGED <<unwinding, obs, upstream>>
         [] task = "read" ->
              /\ LeaveFailing("over")
              /\ obs' = [obs EXCEPT !.failed = TRUE]
              /\ UNCHANGED <<slot, records, upstream>>
         [] task = "close" ->
              /\ Proceed("over", gen)
              /\ slot' = FALSE
              /\ Record("none")
              /\ upstream' = [upstream EXCEPT !.state = IF @ = "open" THEN "closed" ELSE @]
              /\ UNCHANGED <<unwinding, obs>>
         [] task = "send" ->
              \* Inside the generators only while there is something to read.
              /\ task' = IF after = "read" THEN "adrift" ELSE "over"
              /\ pending' = <<>> /\ after' = "none"
              /\ UNCHANGED <<unwinding, obs, slot, records, upstream>>
    /\ UNCHANGED <<req, parser, gen, reserved, sent>>

\* The finalizer throws GeneratorExit into the abandoned generators.
Finalize ==
    /\ task = "adrift"
    /\ LeaveFailing("over")
    /\ UNCHANGED <<req, obs, parser, gen, slot, client, reserved, records,
                   upstream, sent>>

-----------------------------------------------------------------------------
ReadLine ==
    \/ \E e \in Events : ReadEvent(e) \/ ReadUnacceptable(e)
    \/ ReadError
    \/ ReadJunk
    \/ ReadDone

Replies == {e \in Event :
    /\ e.usage # "none"
    /\ e.finish = IF e.calls = {} THEN "stop" ELSE "tool_calls"}

Step ==
    \/ Start \/ StartFails \/ TakeSlot
    \/ Admit \/ Refuse
    \/ Connect \/ ConnectFails \/ Rejected
    \/ \E e \in Replies : Reply(e)
    \/ \E q \in {"none", "good"} : ReplyFails(q)
    \/ ReadLine \/ ReadEof \/ ReadFails
    \/ Close \/ Send \/ Finalize

Next == Step \/ Disconnect

Spec == Init /\ [][Next]_vars

\* The task is scheduled, a wait for the network ends (every httpx timeout is
\* finite) and so does the wait for a slot, which nobody holds while streaming.
\* A client that reads nothing and stays is not considered.
FairSpec == Spec /\ WF_vars(Step)

-----------------------------------------------------------------------------
(* Properties.                                                             *)

TypeOK ==
    /\ req \in Requests
    /\ task \in {"begin", "slot", "admit", "connect", "read", "send", "close",
                 "adrift", "over"}
    /\ pending \in Seq(Chunk)
    /\ after \in {"none", "read", "tail", "error", "over"}
    /\ unwinding \in BOOLEAN
    /\ obs \in [usage : {"none", "good"}, invalid : BOOLEAN, done : BOOLEAN,
                exhausted : BOOLEAN, failed : BOOLEAN]
    /\ parser \in [tool : BOOLEAN, finish : {"none", "stop", "tool_calls"},
                   terminal : BOOLEAN]
    /\ gen \in [first : BOOLEAN, text : BOOLEAN, tools : SUBSET Tools,
                finish : {"none", "stop", "tool_calls"}]
    /\ slot \in BOOLEAN
    /\ client \in {"here", "gone"}
    /\ reserved \in BOOLEAN
    /\ records \in Seq({"none", "good"})
    /\ upstream \in [state : {"none", "open", "ended", "broken", "closed"},
                     lines : 0..MaxLines, flawed : BOOLEAN,
                     usage : {"none", "good", "bad"}]
    /\ sent \in Seq(Chunk)

Received(t) == {i \in DOMAIN sent : sent[i].type = t}

\* Which chunk may come right after which, with 0 for the start of the answer.
OpenAIOrder ==
    {<<"start", "role">>, <<"start", "error">>}
      \union {"role", "delta"} \X {"delta", "finish", "error"}
      \union {<<"finish", IF req.includeUsage THEN "usage" ELSE "[DONE]">>,
              <<"usage", "[DONE]">>, <<"error", "[DONE]">>}

AnthropicOrder ==
    {<<"start", "message_start">>, <<"start", "error">>,
     <<"message_start", "block_start">>, <<"message_delta", "message_stop">>}
      \union {"block_start", "block_stop"} \X {"block_start", "message_delta"}
      \union {"block_start", "block_delta"} \X {"block_delta", "error"}
      \union {<<"block_delta", "block_stop">>}

Before(i) == IF i = 1 THEN "start" ELSE sent[i - 1].type

\* Blocks are numbered as they come; a delta or a stop belongs to the last one;
\* at the end every block that has content is closed.
BlocksMatch ==
    /\ \A i \in Received("block_start") :
          sent[i].block = Cardinality({j \in Received("block_start") : j < i})
    /\ \A i \in Received("block_delta") \union Received("block_stop") :
          sent[i].block + 1 = Cardinality({j \in Received("block_start") : j < i})
    /\ Received("message_delta") # {} =>
          {sent[i].block : i \in Received("block_delta")}
            = {sent[i].block : i \in Received("block_stop")}

\* Foundry's and JetBrains's tool calls are announced by the finish reason, unless
\* a chat completion gave another one.
ToolCallsAnnounced ==
    \A i \in Received("finish") \union Received("message_delta") :
        /\ req.provider \in Native
        /\ gen.tools # {}
        /\ req.protocol = "responses" \/ parser.finish = "none"
        => sent[i].reason \in {"tool_calls", "tool_use"}

\* Whatever the upstream sends, and whichever of its events is the first, the
\* client gets the beginning of an answer of its protocol: the role or the
\* message_start once and first, at most one finish, an error as the last thing
\* but [DONE], nothing after the end (event_generator, AnthropicStreamState).
AnswerWellFormed ==
    /\ \A i \in DOMAIN sent :
          <<Before(i), sent[i].type>>
            \in IF req.ingress = "openai" THEN OpenAIOrder ELSE AnthropicOrder
    /\ BlocksMatch
    /\ ToolCallsAnnounced

Finished == Received("finish") \union Received("message_delta") # {}

\* A reservation is recorded at most once, and with a usage only if the whole
\* body was seen, without a line that was an error or unreadable, and its last
\* usage was usable.  A client that got the end of such an answer is charged by
\* that usage (_MeteredResponse.collected_usage, MeteredHTTPClient.stream).
UsageFromWholeStream ==
    /\ records # <<>> => reserved /\ Len(records) = 1
    /\ LET whole == upstream.state = "ended" /\ ~upstream.flawed /\ upstream.usage = "good"
       IN  /\ records = <<"good">> => whole
           /\ Finished /\ whole => records = <<"good">>

\* A client is told that the message is finished only after the body was read
\* to its end and the reservation was handed to record_attempt, so that nothing
\* it does then can lose the record (the tail of event_generator comes after the
\* async with).
FinishMeansWhole ==
    Finished => upstream.state = "ended" /\ Len(records) = 1

\* No slot is held while the body is read or the client is sent to, and when the
\* request is over, the slot, the connection and the reservation have been given
\* back, however it ended (the finally clauses of stream_chat and stream).
NothingLeftOpen ==
    /\ slot => task \in {"admit", "connect", "close"}
    /\ task = "over" => /\ ~slot
                        /\ upstream.state # "open"
                        /\ reserved => Len(records) = 1

\* An admitted call reaches record_attempt, also when its client left while the
\* generators were suspended in a yield.
ReservationSettles == reserved ~> Len(records) = 1

\* specs/openai-compatible-bridge/design.md:240: provider timeouts and connection
\* errors map to the error shapes of the API; specs/dynamic-ollama-normalization/
\* design.md:157: after the start of a stream that is an SSE error chunk.
BrokenBodyIsReported ==
    task = "over" /\ client = "here" /\ upstream.state = "broken" => Received("error") # {}

=============================================================================
