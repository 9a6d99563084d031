-------------------------- MODULE StructuredRepair --------------------------
(***************************************************************************)
(* A chat request to Ollama that is answered in one piece: the attempt     *)
(* with the model asked for and, when its output breaks the JSON schema,   *)
(* the chain of repair models, each of them a paid request of its own.     *)
(* The answer is a JSON body, or a stream that is not begun before an      *)
(* output was accepted.                                                    *)
(*                                                                         *)
(* Admission and settlement are one step each here; what is behind them    *)
(* is AsyncCost and CostLedger.  Calls exempt from billing are left out.   *)
(***************************************************************************)
EXTENDS Naturals, Sequences

CONSTANTS
    Models,     \* names of models
    Asked,      \* the model the client asked for
    Chains,     \* values of STRUCTURED_OUTPUT_REPAIR_MODELS: sequences of
                \* [id, cloud], cloud saying whether it is ollama:...cloud
    Counts      \* token counts of a response

ASSUME RepairAssumption ==
    /\ Asked \in Models
    /\ Chains \subseteq Seq([id : Models, cloud : BOOLEAN])
    /\ Counts \subseteq Nat

VARIABLES
    req,        \* the request and the configuration, chosen once
    task,       \* where the request is suspended
    attempt,    \* 0 for the model asked for, then the position in the chain
    target,     \* the model that generate() was called with
    ctx,        \* AttemptContext.model, by which an attempt is priced
    aggregate,  \* aggregate_usage
    usage,      \* the usage in the answer
    pending,    \* what is still to be sent
    sends,      \* requests that went to Ollama (history)
    records,    \* calls of record_attempt (history)
    sent        \* what the client has been sent (history)

vars == <<req, task, attempt, target, ctx, aggregate, usage, pending, sends, records, sent>>

Request == [stream : BOOLEAN, includeUsage : BOOLEAN, enabled : BOOLEAN,
            dynamicCloud : BOOLEAN, schema : BOOLEAN, chain : Chains]

\* _structured_output_repair_applies
Applies(r) == r.enabled /\ r.dynamicCloud /\ r.schema

\* Other streams do not come here.  include_usage is about streams.
Requests == {r \in Request : IF r.stream THEN Applies(r) ELSE ~r.includeUsage}

\* _structured_output_repair_model_ids
ModelIds == SubSeq(req.chain, 1, IF Len(req.chain) < 3 THEN Len(req.chain) ELSE 3)

\* _structured_output_repair_native_models raises cost_config_error otherwise.
ModelsUsable == ModelIds # <<>> /\ \A i \in DOMAIN ModelIds : ModelIds[i].cloud

\* How an attempt ends: with acceptable output, with output that breaks the
\* schema, with another VertexAPIError, or with an exception of another kind
\* (a response that is JSON and not what generate() expects).
\* tokens is what it reads from the response, counted whether the meter, which
\* takes no missing or odd count, accepts it too.
Outcome == [result : {"valid", "mismatch", "failed", "broken"},
            tokens : Counts \union {0}, counted : BOOLEAN]
Outcomes == {o \in Outcome :
    /\ o.result = "mismatch" => req.schema
    /\ o.result \in {"failed", "broken"} /\ ~o.counted => o.tokens = 0}

-----------------------------------------------------------------------------
(* The end of the request.                                                 *)

Success ==
    IF req.stream
      THEN <<"role", "content", "finish">>
             \o (IF req.includeUsage THEN <<"usage">> ELSE <<>>) \o <<"[DONE]">>
      ELSE <<"body">>

\* An exception nobody expected is a 500, or ends the stream.
Failure == IF req.stream THEN <<"error", "[DONE]">> ELSE <<"error">>
Crash   == IF req.stream THEN <<>> ELSE <<"error">>

Finish(chunks) ==
    /\ pending' = chunks
    /\ task' = IF chunks = <<>> THEN "over" ELSE "send"
    /\ UNCHANGED <<attempt, target, ctx>>

Answer(total) ==
    /\ usage' = total
    /\ Finish(Success)

Fail(chunks) ==
    /\ UNCHANGED usage
    /\ Finish(chunks)

\* Mutant: the attempt is priced as the one before it.
TryAsBefore(k) ==
    /\ attempt' = k
    /\ target' = ModelIds[k].id
    /\ task' = "admit"
    /\ UNCHANGED <<ctx, usage, pending>>

\* ctx.renew, and generate() with the k-th model of the chain.
Try(k) ==
    /\ attempt' = k
    /\ target' = ModelIds[k].id
    /\ ctx' = ModelIds[k].id
    /\ task' = "admit"
    /\ UNCHANGED <<usage, pending>>

-----------------------------------------------------------------------------
Init ==
    /\ req \in Requests
    /\ task = "begin" /\ attempt = 0 /\ target = Asked /\ ctx = Asked
    /\ aggregate = 0 /\ usage = 0 /\ pending = <<>>
    /\ sends = <<>> /\ records = <<>> /\ sent = <<>>

\* The body of the request is built, or cannot be (response_format, reasoning).
\* What is acceptable once is so for every model of the chain.
Begin ==
    /\ task = "begin"
    /\ \/ task' = "admit" /\ UNCHANGED <<attempt, target, ctx, usage, pending>>
       \/ Fail(Failure)
    /\ UNCHANGED <<req, aggregate, sends, records, sent>>

Admit ==
    /\ task = "admit"
    /\ task' = "post"
    /\ sends' = Append(sends, [model |-> target, reserved |-> ctx, result |-> "none",
                               tokens |-> 0, counted |-> FALSE])
    /\ UNCHANGED <<req, attempt, target, ctx, aggregate, usage, pending, records, sent>>

\* Over budget, no price for the model, or the ledger cannot be asked.
Refuse ==
    /\ task = "admit"
    /\ Fail(Failure)
    /\ UNCHANGED <<req, aggregate, sends, records, sent>>

\* Mutant: only the attempts of the chain are added up.
AddedWithoutFirst(o) == IF attempt = 0 THEN 0 ELSE aggregate + o.tokens

\* _add_usage
Added(o) == aggregate + o.tokens

\* An output that breaks the schema: the next model, if there is one.
Repair ==
    IF ~Applies(req) \/ (attempt = 0 /\ ~ModelsUsable) \/ attempt = Len(ModelIds)
      THEN Fail(Failure)
      ELSE Try(attempt + 1)

\* The response, or its failure; the meter records first.
Respond(o) ==
    /\ task = "post"
    /\ sends' = [sends EXCEPT ![Len(sends)].result = o.result,
                              ![Len(sends)].tokens = o.tokens,
                              ![Len(sends)].counted = o.counted]
    /\ records' = Append(records, [model |-> ctx, tokens |-> o.tokens, counted |-> o.counted])
    /\ CASE o.result = "valid"    -> Answer(Added(o)) /\ aggregate' = Added(o)
         [] o.result = "mismatch" -> Repair /\ aggregate' = Added(o)
         [] o.result = "failed"   -> Fail(Failure) /\ UNCHANGED aggregate
         [] o.result = "broken"   -> Fail(Crash) /\ UNCHANGED aggregate
    /\ UNCHANGED <<req, sent>>

Send ==
    /\ task = "send"
    /\ sent' = Append(sent, Head(pending))
    /\ pending' = Tail(pending)
    /\ task' = IF Len(pending) = 1 THEN "over" ELSE "send"
    /\ UNCHANGED <<req, attempt, target, ctx, aggregate, usage, sends, records>>

\* The client of a stream leaves, which cancels it.  A JSON answer is worked on
\* all the same.
Disconnect ==
    /\ req.stream /\ task # "over"
    /\ task' = "over" /\ pending' = <<>>
    /\ records' = IF task = "post"
                    THEN Append(records, [model |-> ctx, tokens |-> 0, counted |-> FALSE])
                    ELSE records
    /\ UNCHANGED <<req, attempt, target, ctx, aggregate, usage, sends, sent>>

Next ==
    \/ Begin \/ Admit \/ Refuse
    \/ \E o \in Outcomes : Respond(o)
    \/ Send \/ Disconnect

Spec == Init /\ [][Next]_vars

-----------------------------------------------------------------------------
(* Properties.                                                             *)

Chunks == {"role", "content", "finish", "usage", "[DONE]", "body", "error"}

TypeOK ==
    /\ req \in Requests
    /\ task \in {"begin", "admit", "post", "send", "over"}
    /\ attempt \in 0..3
    /\ target \in Models /\ ctx \in Models
    /\ aggregate \in Nat /\ usage \in Nat
    /\ pending \in Seq(Chunks) /\ sent \in Seq(Chunks)
    /\ sends \in Seq([model : Models, reserved : Models,
                      result : {"none", "valid", "mismatch", "failed", "broken"},
                      tokens : Counts \union {0}, counted : BOOLEAN])
    /\ records \in Seq([model : Models, tokens : Counts \union {0}, counted : BOOLEAN])

\* The model asked for and then the chain in its order, each only after all
\* before it broke the schema and only where repair applies, is what goes to
\* Ollama; every request is admitted and recorded, once, at the price of its own
\* model (renew before generate, MeteredHTTPClient.post).
AttemptsInOrder ==
    /\ \A i \in DOMAIN sends :
          /\ sends[i].model = (IF i = 1 THEN Asked ELSE req.chain[i - 1].id)
          /\ sends[i].reserved = sends[i].model
          /\ i < Len(sends) => sends[i].result = "mismatch" /\ Applies(req)
    /\ Len(records) = Len(sends) - (IF task = "post" THEN 1 ELSE 0)
    /\ \A i \in DOMAIN records : records[i].model = sends[i].model

\* f[1] + ... + f[n]
SumTo(n, f) == LET S[i \in 0..n] == IF i = 0 THEN 0 ELSE S[i - 1] + f[i] IN S[n]

\* What Ollama reported of the attempts s, and what the ledger charges for the
\* records s.
Tokens(s) == SumTo(Len(s), [i \in DOMAIN s |-> s[i].tokens])
Charged(s) == SumTo(Len(s), [i \in DOMAIN s |-> IF s[i].counted THEN s[i].tokens ELSE 0])

\* An answer has content only if the last attempt's output was accepted, and its
\* usage is the sum over all the attempts; when the meter accepted every count it
\* is also what the ledger charges for them
\* (_generate_ollama_with_structured_output_repair).
AnswerIsPaidFor ==
    \A i \in DOMAIN sent : sent[i] \in {"role", "content", "finish", "usage", "body"} =>
        /\ sends[Len(sends)].result = "valid"
        /\ usage = Tokens(sends)
        /\ (\A k \in DOMAIN sends : sends[k].counted) =>
              usage = Charged(records)

=============================================================================
