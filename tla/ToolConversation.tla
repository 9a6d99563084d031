-------------------------- MODULE ToolConversation --------------------------
(***************************************************************************)
(* A conversation with tools over several requests.  The client holds it   *)
(* in the shape of the ingress it uses and sends all of it every time; the *)
(* bridge turns it into the shape of the provider the model belongs to,    *)
(* which may be another one each time, and gives an id to every call that  *)
(* comes back without one.                                                 *)
(*                                                                         *)
(* A message, or a turn of a request to a provider, is [role, parts].      *)
(* Texts are all alike, arguments and the contents of results are left     *)
(* out.  For the properties every call has a number of its own, n, which   *)
(* the result that the client sends for it carries too, and says whether   *)
(* its id was made up without a look at the conversation, blind.           *)
(*                                                                         *)
(* A name is the sequence of what "_" separates in it, and so is an id,    *)
(* without the "call_" in front: call_get_0 may be the first call of get   *)
(* and the function get_0 is another one.                                  *)
(***************************************************************************)
EXTENDS Naturals, FiniteSets, SequencesExt, Functions

CONSTANTS
    Names,        \* the names of the tools
    Replies,      \* what a provider answers: sequences of Part
    MaxMessages   \* bound of the messages; the results still follow

\* "thought" parts are skipped, but count as positions.
Part == [kind : {"text", "thought"}] \union [kind : {"call"}, name : Names]

ASSUME ConversationAssumption ==
    /\ \A name \in Names : name \in Seq(Nat) /\ name # <<>> /\ name[1] # 0
    /\ Replies \subseteq Seq(Part)
    /\ MaxMessages \in Nat

VARIABLES
    ingress,      \* "openai" or "anthropic"
    history,      \* the conversation as the client holds it
    made          \* how many calls there have been (history)

conversationVars == <<ingress, history, made>>

Text == [kind |-> "text"]
Message(role, parts) == [role |-> role, parts |-> parts]

\* The parts of one kind.
Kind(parts, kind) ==
    LET kept[i \in 0..Len(parts)] ==
            IF i = 0 THEN <<>>
            ELSE IF parts[i].kind = kind THEN Append(kept[i - 1], parts[i]) ELSE kept[i - 1]
    IN  kept[Len(parts)]

PartsIn(messages) == UNION {Range(messages[i].parts) : i \in DOMAIN messages}

\* The ids of the upstream's own, which are never used twice.
NativeId(n) == <<0, n>>

---------------------------------------------------------------------------
(* The ingress.                                                            *)

\* anthropic_messages_to_openai: the text of a user message goes before its
\* results, wherever it stood.
MessageToOpenAI(m) ==
    IF m.role # "user"
    THEN <<Message(m.role, Kind(m.parts, "text") \o Kind(m.parts, "call"))>>
    ELSE LET text == Kind(m.parts, "text")
             results == Kind(m.parts, "result")
         IN  (IF text # <<>> \/ results = <<>> THEN <<Message("user", text)>> ELSE <<>>)
             \o [i \in DOMAIN results |-> Message("tool", <<results[i]>>)]

Messages ==
    IF ingress = "openai" THEN history
    ELSE FlattenSeq([i \in DOMAIN history |-> MessageToOpenAI(history[i])])

---------------------------------------------------------------------------
(* The bodies of the requests to the providers.                            *)

Side(role) ==
    CASE role = "assistant" -> "model" [] role = "tool" -> "user" [] OTHER -> role

\* call_id_to_name, tool_names: of the calls with an id the last one wins.
\* (The variant knows those of the last turn only.)
CallsWith(m, id) == {k \in DOMAIN m.parts : m.parts[k].kind = "call" /\ m.parts[k].id = id}

LastTurnNames(messages, id) ==
    LET turns == {i \in DOMAIN messages : \E p \in Range(messages[i].parts) : p.kind = "call"}
        last == messages[Max(turns)]
    IN  IF turns = {} \/ CallsWith(last, id) = {} THEN id
        ELSE last.parts[Max(CallsWith(last, id))].name

CallName(messages, id) ==
    LET turns == {i \in DOMAIN messages : CallsWith(messages[i], id) # {}}
        last == messages[Max(turns)]
    IN  IF turns = {} THEN id ELSE last.parts[Max(CallsWith(last, id))].name

\* The parts of m, a result with the name that its id has in messages.
NamedParts(m, messages) ==
    IF m.role # "tool" THEN m.parts
    ELSE LET r == m.parts[1]
         IN  <<[kind |-> "result", name |-> CallName(messages, r.id), n |-> r.n]>>

\* The last turn goes on.
Join(turns, parts) ==
    Append(Front(turns), Message(Last(turns).role, Last(turns).parts \o parts))

\* Vertex: a turn of its own for each result.
AddVertex(turns, messages, i) ==
    Append(turns, Message(Side(messages[i].role), NamedParts(messages[i], messages)))

\* _google_contents_and_system: the names known so far, and the results of
\* one turn together.
OnlyResults(turn) ==
    turn.role = "user" /\ turn.parts # <<>> /\ \A p \in Range(turn.parts) : p.kind = "result"

AddGoogle(turns, messages, i) ==
    LET m == messages[i]
        parts == NamedParts(m, SubSeq(messages, 1, i))
    IN  IF m.role = "tool" /\ turns # <<>> /\ OnlyResults(Last(turns)) THEN Join(turns, parts)
        ELSE Append(turns, Message(Side(m.role), parts))

\* _append_anthropic_turn.  (The variant joins lists of blocks only, as
\* JetBrains does.)
HasResult(turn) == \E p \in Range(turn.parts) : p.kind = "result"

AppendTurnAfterResults(turns, role, parts) ==
    IF turns # <<>> /\ Last(turns).role = role /\ HasResult(Last(turns)) THEN Join(turns, parts)
    ELSE Append(turns, Message(role, parts))

AppendTurn(turns, role, parts) ==
    IF turns # <<>> /\ Last(turns).role = role THEN Join(turns, parts)
    ELSE Append(turns, Message(role, parts))

\* JetBrains' _build_anthropic_request_body: only results are joined, to a
\* turn of the user that is a list of blocks.
AddJetBrains(turns, m) ==
    IF m.role = "tool" /\ turns # <<>> /\ HasResult(Last(turns)) THEN Join(turns, m.parts)
    ELSE Append(turns, Message(Side(m.role), m.parts))

\* _xai_input_messages: an item for each part; system messages stay.
Items(m) ==
    IF m.parts = <<>> THEN <<Message(Side(m.role), <<>>)>>
    ELSE [k \in DOMAIN m.parts |-> Message(Side(m.role), <<m.parts[k]>>)]

Routes == {"vertex", "google", "jetbrains_google", "anthropic", "jetbrains", "responses"}

\* JetBrains' Google bodies are built as Foundry's are.
Protocols == Routes \ {"jetbrains_google"}

\* The turns that a client has after message i, with those it had before.
AddMessage(protocol, turns, messages, i) ==
    LET m == messages[i]
    IN  CASE protocol = "responses" -> turns \o Items(m)
          [] m.role = "system" /\ protocol # "responses" -> turns
          [] m.role # "system" /\ protocol = "vertex" -> AddVertex(turns, messages, i)
          [] m.role # "system" /\ protocol = "google" -> AddGoogle(turns, messages, i)
          [] m.role # "system" /\ protocol = "anthropic" -> AppendTurn(turns, Side(m.role), m.parts)
          [] m.role # "system" /\ protocol = "jetbrains" -> AddJetBrains(turns, m)

\* _build_request_body
Body(protocol, messages) ==
    LET turns[i \in 0..Len(messages)] ==
            IF i = 0 THEN <<>> ELSE AddMessage(protocol, turns[i - 1], messages, i)
        all == turns[Len(messages)]
    IN  IF all = <<>> /\ protocol \in {"google", "anthropic"} THEN <<Message("user", <<>>)>> ELSE all

---------------------------------------------------------------------------
(* The answers of the providers.                                           *)

\* used_call_ids.  (The variant looks at the last message only.)
UsedIdsOfLast(route, messages) ==
    {p.id : p \in {q \in Range(Last(messages).parts) : q.kind = "call"}}

\* JetBrains' generate passes none.
UsedIds(route, messages) ==
    IF route = "jetbrains_google" THEN {}
    ELSE {p.id : p \in {q \in PartsIn(messages) : q.kind = "call"}}

\* The first of base, base_1, base_2, ... that is not used.
FreshId(base, used) ==
    IF base \notin used THEN base
    ELSE LET free == {k \in 1..(Cardinality(used) + 1) : Append(base, k) \notin used}
         IN  Append(base, CHOOSE k \in free : \A j \in free : k <= j)

\* Vertex gives every call an id, Google's protocol elsewhere those that
\* have none; the others always come with one.
Keeps(route) ==
    CASE route = "vertex" -> {FALSE}
      [] route \in {"google", "jetbrains_google"} -> BOOLEAN
      [] OTHER -> {TRUE}

\* _parse_candidate_parts, _google_response_result and the loops over the
\* blocks or items of an answer.
ToolCalls(route, reply, own, messages) ==
    LET used == UsedIds(route, messages)
        New(i, before) ==
            LET n == made + Len(before) + 1
            IN  [kind |-> "call", name |-> reply[i].name, n |-> n,
                 id |-> IF own THEN NativeId(n)
                        ELSE FreshId(Append(reply[i].name, i - 1),
                                     used \union {before[k].id : k \in DOMAIN before}),
                 blind |-> route = "jetbrains_google" /\ ~own]
        calls[i \in 0..Len(reply)] ==
            IF i = 0 THEN <<>>
            ELSE IF reply[i].kind = "call" THEN Append(calls[i - 1], New(i, calls[i - 1]))
            ELSE calls[i - 1]
    IN  calls[Len(reply)]

\* The text, put together, goes first: in the message of a chat completion as
\* in openai_result_to_anthropic.
AnswerOf(reply, calls) ==
    Message("assistant", (IF Kind(reply, "text") # <<>> THEN <<Text>> ELSE <<>>) \o calls)

---------------------------------------------------------------------------
(* The conversation.                                                       *)

ConversationInit == ingress \in {"openai", "anthropic"} /\ history = <<>> /\ made = 0

Room == Len(history) < MaxMessages

\* The calls that wait for their results.
Pending == IF history = <<>> THEN <<>> ELSE Kind(Last(history).parts, "call")

Say ==
    /\ Room /\ Pending = <<>>
    /\ \E role \in {"user", "system"} : history' = Append(history, Message(role, <<Text>>))
    /\ UNCHANGED <<ingress, made>>

Generate ==
    /\ Room /\ history # <<>> /\ Pending = <<>>
    /\ \E route \in Routes, reply \in Replies : \E own \in Keeps(route) :
          LET calls == ToolCalls(route, reply, own, Messages)
          IN  /\ history' = Append(history, AnswerOf(reply, calls))
              /\ made' = made + Len(calls)
    /\ UNCHANGED ingress

\* The results, in any order: as messages, maybe with something to say after
\* them, or as blocks of one message, with text before or after them.
ReturnResults ==
    /\ Pending # <<>>
    /\ \E order \in Bijection(DOMAIN Pending, DOMAIN Pending), said \in {"no", "before", "after"} :
          LET results == [i \in DOMAIN Pending |->
                  [kind |-> "result", id |-> Pending[order[i]].id, n |-> Pending[order[i]].n]]
              text == <<Text>>
          IN  history' = history \o
                  IF ingress = "openai"
                  THEN [i \in DOMAIN results |-> Message("tool", <<results[i]>>)]
                       \o (IF said = "after" THEN <<Message("user", text)>> ELSE <<>>)
                  ELSE <<Message("user", (IF said = "before" THEN text ELSE <<>>) \o results
                                             \o (IF said = "after" THEN text ELSE <<>>))>>
    /\ UNCHANGED <<ingress, made>>

ConversationNext == Say \/ Generate \/ ReturnResults

Conversation == ConversationInit /\ [][ConversationNext]_conversationVars

---------------------------------------------------------------------------
(* Properties.                                                             *)

\* No two calls of a conversation have one id, whatever providers they came
\* from and whatever "_" their names have in them - except that JetBrains'
\* generate gives ids without a look at the conversation.
CallIdsDistinct ==
    \A i, j \in DOMAIN history :
        \A k \in DOMAIN history[i].parts, l \in DOMAIN history[j].parts :
            LET c == history[i].parts[k]
                d == history[j].parts[l]
            IN  /\ c.kind = "call" /\ d.kind = "call" /\ c.id = d.id
                /\ i < j \/ (i = j /\ k < l)
                => d.blind

\* In a request to Google or Vertex a result has the name of the function
\* that was called, also when the call was made by another provider; with
\* Vertex as long as no other call of another function has the same id.
ResultsNamed ==
    Pending = <<>> =>
        LET messages == Messages
            calls == {p \in PartsIn(history) : p.kind = "call"}
        IN  \A protocol \in {"vertex", "google"} :
            \A r \in PartsIn(Body(protocol, messages)) : r.kind = "result" =>
            \A c \in calls : c.n = r.n =>
                \/ r.name = c.name
                \/ protocol = "vertex" /\ \E d \in calls : d.id = c.id /\ d.name # c.name

Numbers(parts, kind) == {p.n : p \in {q \in parts : q.kind = kind}}

\* Every call is in one place, and so is its result.
EachOnce(turns, kind) ==
    /\ Numbers(PartsIn(turns), kind) = 1..made
    /\ \A i \in DOMAIN turns : \A k \in DOMAIN turns[i].parts :
       turns[i].parts[k].kind = kind =>
          \A j \in DOMAIN turns : \A l \in DOMAIN turns[j].parts :
             turns[j].parts[l].kind = kind /\ turns[j].parts[l].n = turns[i].parts[k].n
                => i = j /\ k = l

\* The turns with results of the calls of turn i.
Answers(turns, i) ==
    {j \in DOMAIN turns : Numbers(Range(turns[i].parts), "call")
                             \intersect Numbers(Range(turns[j].parts), "result") # {}}

\* After the call and before anything else of the model, but maybe after words of
\* the user; an item of Responses is not a turn, so other calls may stand between.
AnsweredInTurn(protocol, turns, i) ==
    \A j \in Answers(turns, i) :
        j > i /\ \A k \in (i + 1)..(j - 1) : turns[k].role = "model" =>
                    /\ protocol = "responses"
                    /\ Len(turns[k].parts) = 1 /\ turns[k].parts[1].kind = "call"

Alternating(turns) == \A i \in 1..(Len(turns) - 1) : turns[i].role # turns[i + 1].role

\* In every request each call and each result is there once, and no result comes
\* before its call or after the model has gone on, whatever the user says beside
\* them.  To Google and JetBrains the results of a turn go in one turn, and to
\* Anthropic by Foundry in the very next one, where the roles alternate.  (To
\* Vertex each goes in a turn of its own, though its protocol is Google's.)
BodiesWellFormed ==
    Pending = <<>> =>
        LET messages == Messages
        IN  \A protocol \in Protocols :
            LET turns == Body(protocol, messages)
                calling == {i \in DOMAIN turns : \E p \in Range(turns[i].parts) : p.kind = "call"}
            IN  /\ EachOnce(turns, "call") /\ EachOnce(turns, "result")
                /\ \A i \in calling : AnsweredInTurn(protocol, turns, i)
                /\ protocol \in {"google", "jetbrains"} =>
                      \A i \in calling : \E j \in DOMAIN turns : Answers(turns, i) = {j}
                /\ protocol = "anthropic" =>
                      Alternating(turns) /\ \A i \in calling : Answers(turns, i) = {i + 1}

=============================================================================
