------------------------- MODULE ChatStreamProofs --------------------------
(***************************************************************************)
(* Proofs about ChatStream, for bodies of any length and any set of tools: *)
(* its types, that everything is given back (NothingLeftOpen), that the    *)
(* end is announced only for a whole body (FinishMeansWhole) and that only *)
(* such a body is charged by its usage (UsageFromWholeStream).             *)
(*                                                                         *)
(* These follow from Bookkeeping, which ties the connection and the        *)
(* reservation to the control point, together with what the observer knows *)
(* of the body (ObserverKnows) and where the announcement of the end can   *)
(* be (EndAnnounced).                                                      *)
(*                                                                         *)
(* The second part proves that the answer is well formed                   *)
(* (AnswerWellFormed), from an invariant about the chunks already sent and *)
(* those still pending: each may follow the one before (Grammar), the last *)
(* one says how far the blocks have come (Blocks), and the reason of the   *)
(* end is known when it is due (Reasons).                                  *)
(***************************************************************************)
EXTENDS ChatStream, FiniteSetTheorems, TLAPS

Announces(s) == \E i \in DOMAIN s : s[i].type \in {"finish", "message_delta"}

\* Between the headers of the upstream's response and the end of the reading.
Reading == task \in {"read", "adrift"} \/ (task = "send" /\ after = "read")

\* Nothing is left to do but send.
Settled == task = "over" \/ (task = "send" /\ after # "read")

\* The whole body came and its usage can be used.
Whole == upstream.state = "ended" /\ ~upstream.flawed /\ upstream.usage = "good"

\* The connection and the reservation at each control point.
Bookkeeping ==
    /\ task \in {"begin", "slot", "admit", "connect"} =>
          /\ reserved = (task = "connect")
          /\ records = <<>>
          /\ upstream.state = "none" /\ ~upstream.flawed /\ upstream.usage = "none"
    /\ Reading => reserved /\ records = <<>> /\ upstream.state = "open"
    /\ task = "close" => /\ reserved /\ records = <<>> /\ upstream.state # "none"
                         /\ after \in {"tail", "error", "over"}
    /\ Settled => /\ upstream.state # "open"
                  /\ Len(records) = IF reserved THEN 1 ELSE 0
    /\ task = "send" => after \in {"read", "tail", "over"} /\ pending # <<>>
    /\ after = "tail" => upstream.state = "ended" /\ reserved
    /\ slot => task \in {"admit", "connect", "close"}

\* What _StreamUsage and _MeteredResponse know is true of the body.
ObserverKnows ==
    /\ upstream.flawed => obs.invalid \/ obs.failed
    /\ obs.exhausted \/ obs.done => upstream.state = "ended"
    /\ Reading => ~obs.exhausted /\ ~obs.done /\ ~obs.failed /\ ~unwinding
    /\ task \in {"begin", "slot", "admit", "connect"} =>
          obs.usage = "none" /\ ~obs.exhausted /\ ~obs.done /\ ~obs.failed /\ ~unwinding
    /\ task \in {"read", "adrift", "close"} \/ Reading =>
          (~obs.invalid => (obs.usage = "good" <=> upstream.usage = "good"))
    /\ task = "close" /\ after = "tail" =>
          ~obs.failed /\ ~unwinding /\ (~obs.invalid => obs.exhausted \/ obs.done)
          /\ (obs.invalid => upstream.flawed)
    /\ obs.invalid => upstream.flawed
    /\ task = "adrift" => client = "gone"

\* The announcement of the end is made after the record, of a body read whole.
EndAnnounced ==
    /\ Announces(pending) \/ Announces(sent) =>
          Settled /\ upstream.state = "ended" /\ reserved
    /\ Settled /\ records = <<"good">> => Whole
    /\ Announces(pending) \/ Announces(sent) \/ (task = "send" /\ after = "tail") =>
          (Whole => records = <<"good">>)

-----------------------------------------------------------------------------
(* Facts about the operators.                                              *)

Finishings == {"none", "stop", "tool_calls"}
Gens == [first : BOOLEAN, text : BOOLEAN, tools : SUBSET Tools, finish : Finishings]
Parsers == [tool : BOOLEAN, finish : Finishings, terminal : BOOLEAN]
Observers == [usage : {"none", "good"}, invalid : BOOLEAN, done : BOOLEAN,
              exhausted : BOOLEAN, failed : BOOLEAN]
Upstreams == [state : {"none", "open", "ended", "broken", "closed"},
              lines : 0..MaxLines, flawed : BOOLEAN, usage : {"none", "good", "bad"}]

\* The events that the upstreams send are events.
LEMMA EventConstructors ==
    /\ Blank \in Event /\ Text \in Event
    /\ \A t \in Tools : Call(t) \in Event
    /\ \A f \in Finishings : Finish(f) \in Event
    /\ \A q \in {"none", "good", "bad"} : Counts(q) \in Event
    /\ \A f \in Finishings, q \in {"none", "good", "bad"} : Complete(f, q) \in Event
BY DEF Blank, Text, Call, Finish, Counts, Complete, Event, Finishings

LEMMA EventsTyped == TypeOK => Events \subseteq Event
<1> SUFFICES ASSUME TypeOK, NEW e \in Events PROVE e \in Event
  OBVIOUS
<1> USE EventConstructors
<1>1. Finishes \subseteq Finishings
  BY DEF Finishes, Finishings
<1>2. CASE req.protocol = "responses" /\ parser.terminal
  <2>1. req.provider # "ollama"
    BY <1>2 DEF TypeOK, Requests, Native
  <2>2. Events = {}
    BY <1>2, <2>1 DEF Events
  <2> QED BY <2>2
<1>3. CASE ~(req.protocol = "responses" /\ parser.terminal) /\ req.provider = "ollama"
  <2>1. req.protocol # "responses"
    BY <1>3 DEF TypeOK, Requests, Native
  <2>2. e \in {Blank, Text} \union {[Complete("stop", q) EXCEPT !.text = b] :
                                      q \in {"good", "bad"}, b \in BOOLEAN}
    BY <1>3, <2>1 DEF Events
  <2>3. \A q \in {"good", "bad"}, b \in BOOLEAN : [Complete("stop", q) EXCEPT !.text = b] \in Event
    BY DEF Event, Complete, Blank
  <2> QED BY <2>2, <2>3
<1>4. CASE ~(req.protocol = "responses" /\ parser.terminal) /\ req.provider # "ollama" /\ req.protocol = "responses"
  <2>1. e \in {Text} \union {Call(t) : t \in IF req.tools THEN Tools ELSE {}}
                 \union {Complete("stop", q) : q \in {"good", "bad"}}
    BY <1>4 DEF Events, TypeOK
  <2> QED BY <2>1 DEF Finishings
<1>5. CASE req.provider # "ollama" /\ req.protocol # "responses"
  <2>1. e \in {Blank, Text} \union {Call(t) : t \in IF req.tools THEN Tools ELSE {}}
                 \union {Finish(f) : f \in Finishes}
                 \union {Counts(q) : q \in {"good", "bad"}}
                 \union {Complete(f, "good") : f \in Finishes}
    BY <1>5 DEF Events
  <2> QED BY <1>1, <2>1
<1> QED BY <1>2, <1>3, <1>4, <1>5

\* The functions that stream_chat, the generator and the observer apply to an
\* event stay within their types.
LEMMA ParsedTyped ==
    ASSUME NEW p \in Parsers, NEW e \in Event
    PROVE  Parsed(p, e) \in Event
BY DEF Parsed, Event, Parsers, Finishings

LEMMA RememberTyped ==
    ASSUME NEW p \in Parsers, NEW e \in Event
    PROVE  Remember(p, e) \in Parsers
BY DEF Remember, Event, Parsers, Finishings

LEMMA TakeTyped ==
    ASSUME NEW g \in Gens, NEW e \in Event
    PROVE  Take(g, e) \in Gens
BY DEF Take, Event, Gens, Finishings

LEMMA ObserveTyped ==
    ASSUME NEW o \in Observers, NEW e \in Event
    PROVE  Observe(o, e) \in Observers /\ Discard(o) \in Observers
BY DEF Observe, Discard, Event, Observers

\* So do the constructors of chunks and the sequences made with them.
LEMMA BlockTyped ==
    ASSUME NEW t \in ChunkType, NEW r \in Reason, NEW i \in Nat
    PROVE  Block(t, i) \in Chunk /\ Plain(t) \in Chunk /\ Ending(t, r) \in Chunk
<1>1. \A c \in Reason, n \in Nat : [type |-> t, block |-> n, reason |-> c] \in Chunk
  BY DEF Chunk
<1>2. "none" \in Reason
  BY DEF Reason
<1> QED BY <1>1, <1>2 DEF Block, Plain, Ending

LEMMA ToolBlocksTyped ==
    ASSUME NEW n \in Nat
    PROVE  ToolBlocks(n) \in Seq(Chunk)
<1> DEFINE T == <<"block_start", "block_delta", "block_stop">>
<1>1. ASSUME NEW k \in 1..3 * n
      PROVE  /\ T[((k - 1) % 3) + 1] \in {"block_start", "block_delta", "block_stop"}
             /\ ((k - 1) \div 3) + 1 \in Nat
  <2>1. (k - 1) % 3 \in 0..2 /\ (k - 1) \div 3 \in Nat
    OBVIOUS
  <2>2. ((k - 1) % 3) + 1 \in {1, 2, 3}
    BY <2>1
  <2>3. T[1] = "block_start" /\ T[2] = "block_delta" /\ T[3] = "block_stop"
    OBVIOUS
  <2> HIDE DEF T
  <2> QED BY <2>1, <2>2, <2>3
<1>2. {"block_start", "block_delta", "block_stop"} \subseteq ChunkType
  BY DEF ChunkType
<1>3. "none" \in Reason
  BY DEF Reason
<1> HIDE DEF T
<1>4. \A k \in 1..3 * n : Block(T[((k - 1) % 3) + 1], ((k - 1) \div 3) + 1) \in Chunk
  BY <1>1, <1>2, <1>3, BlockTyped
<1>5. ToolBlocks(n) = [k \in 1..3 * n |-> Block(T[((k - 1) % 3) + 1], ((k - 1) \div 3) + 1)]
  BY DEF ToolBlocks, T
<1> QED BY <1>4, <1>5

\* Only the tail of an answer announces its end.
LEMMA AnnouncesConcat ==
    ASSUME NEW s \in Seq(Chunk), NEW t \in Seq(Chunk)
    PROVE  /\ s \o t \in Seq(Chunk)
           /\ Announces(s \o t) => Announces(s) \/ Announces(t)
<1>1. /\ s \o t \in Seq(Chunk)
      /\ Len(s) \in Nat /\ Len(t) \in Nat /\ Len(s \o t) = Len(s) + Len(t)
      /\ DOMAIN s = 1..Len(s) /\ DOMAIN t = 1..Len(t) /\ DOMAIN (s \o t) = 1..Len(s \o t)
  OBVIOUS
<1>2. ASSUME NEW i \in DOMAIN (s \o t)
      PROVE  \/ i \in DOMAIN s /\ (s \o t)[i] = s[i]
             \/ i - Len(s) \in DOMAIN t /\ (s \o t)[i] = t[i - Len(s)]
  BY <1>1
<1> QED BY <1>1, <1>2 DEF Announces

LEMMA ShortChunks ==
    /\ <<>> \in Seq(Chunk) /\ ~Announces(<<>>)
    /\ \A c \in Chunk : /\ <<c>> \in Seq(Chunk)
                        /\ Announces(<<c>>) <=> c.type \in {"finish", "message_delta"}
BY DEF Announces

LEMMA StartChunksTyped == StartChunks \in Seq(Chunk) /\ ~Announces(StartChunks)
<1>1. Plain("message_start") \in Chunk /\ Block("block_start", 0) \in Chunk
  BY BlockTyped DEF ChunkType, Reason
<1>2. Plain("message_start").type = "message_start" /\ Block("block_start", 0).type = "block_start"
  BY DEF Plain, Block
<1> QED BY <1>1, <1>2 DEF StartChunks, Announces

LEMMA ErrorChunksTyped ==
    ErrorChunks \in Seq(Chunk) /\ ErrorChunks # <<>> /\ ~Announces(ErrorChunks)
<1>1. Plain("error") \in Chunk /\ Done \in Chunk
  BY BlockTyped DEF ChunkType, Reason, Done
<1>2. Plain("error").type = "error" /\ Done.type = "[DONE]"
  BY DEF Plain, Block, Done
<1> QED BY <1>1, <1>2 DEF ErrorChunks, Announces

LEMMA EventChunksTyped ==
    ASSUME NEW g \in Gens, NEW e \in Event
    PROVE  EventChunks(g, e) \in Seq(Chunk) /\ ~Announces(EventChunks(g, e))
<1>1. /\ Block("block_delta", 0) \in Chunk
      /\ Plain("role") \in Chunk /\ Plain("delta") \in Chunk
  BY BlockTyped DEF ChunkType, Reason
<1>2. /\ Block("block_delta", 0).type = "block_delta"
      /\ Plain("role").type = "role" /\ Plain("delta").type = "delta"
  BY DEF Plain, Block
<1>3. CASE req.ingress = "anthropic"
  <2> DEFINE S == IF g.first THEN StartChunks ELSE <<>>
             D == IF e.text THEN <<Block("block_delta", 0)>> ELSE <<>>
  <2>1. S \in Seq(Chunk) /\ ~Announces(S)
    BY StartChunksTyped, ShortChunks
  <2>2. D \in Seq(Chunk) /\ ~Announces(D)
    BY <1>1, <1>2, ShortChunks
  <2>3. EventChunks(g, e) = S \o D
    BY <1>3 DEF EventChunks
  <2> HIDE DEF S, D
  <2> QED BY <2>1, <2>2, <2>3, AnnouncesConcat
<1>4. CASE req.ingress # "anthropic"
  BY <1>1, <1>2, <1>4, ShortChunks DEF EventChunks
<1> QED BY <1>3, <1>4

LEMMA TailChunksTyped ==
    ASSUME NEW g \in Gens
    PROVE  TailChunks(g) \in Seq(Chunk) /\ TailChunks(g) # <<>>
<1>1. /\ Block("block_stop", 0) \in Chunk /\ Plain("role") \in Chunk
      /\ Plain("usage") \in Chunk /\ Plain("message_stop") \in Chunk /\ Done \in Chunk
  BY BlockTyped DEF ChunkType, Reason, Done
<1>2. \A r \in Reason : Ending("finish", r) \in Chunk /\ Ending("message_delta", r) \in Chunk
  BY BlockTyped DEF ChunkType
<1>3. CASE req.ingress = "anthropic"
  <2> DEFINE A == IF g.first THEN StartChunks ELSE <<>>
             B == IF g.text THEN <<Block("block_stop", 0)>> ELSE <<>>
             C == ToolBlocks(Cardinality(g.tools))
             D == <<Ending("message_delta",
                           IF g.finish = "tool_calls" THEN "tool_use" ELSE "end_turn"),
                    Plain("message_stop")>>
  <2>1. A \in Seq(Chunk)
    BY StartChunksTyped
  <2>2. B \in Seq(Chunk)
    BY <1>1
  <2>3. C \in Seq(Chunk)
    <3>1. g.tools \subseteq Tools
      BY DEF Gens
    <3>2. Cardinality(g.tools) \in Nat
      BY <3>1, StreamAssumption, FS_Subset, FS_CardinalityType
    <3> QED BY <3>2, ToolBlocksTyped
  <2>4. D \in Seq(Chunk) /\ Len(D) = 2
    BY <1>1, <1>2 DEF Reason
  <2>5. TailChunks(g) = A \o B \o C \o D
    BY <1>3 DEF TailChunks
  <2> HIDE DEF A, B, C, D
  <2>6. A \o B \o C \in Seq(Chunk)
    BY <2>1, <2>2, <2>3
  <2> QED BY <2>4, <2>5, <2>6
<1>4. CASE req.ingress # "anthropic"
  <2> DEFINE A == IF g.first THEN <<Plain("role")>> ELSE <<>>
             B == <<Ending("finish", IF g.finish = "none" THEN "stop" ELSE g.finish)>>
             C == IF req.includeUsage THEN <<Plain("usage")>> ELSE <<>>
  <2>1. A \in Seq(Chunk) /\ C \in Seq(Chunk)
    BY <1>1
  <2>2. (IF g.finish = "none" THEN "stop" ELSE g.finish) \in Reason
    BY DEF Gens, Finishings, Reason
  <2>3. B \in Seq(Chunk) /\ Len(B) = 1
    BY <1>2, <2>2
  <2>4. TailChunks(g) = A \o B \o C \o <<Done>>
    BY <1>4 DEF TailChunks
  <2> HIDE DEF A, B, C
  <2>5. A \o B \o C \in Seq(Chunk) /\ <<Done>> \in Seq(Chunk)
    BY <1>1, <2>1, <2>3
  <2> QED BY <2>4, <2>5
<1> QED BY <1>3, <1>4

-----------------------------------------------------------------------------
(* Where the task goes on.                                                 *)

\* What Proceed and Yield leave behind: only the tail announces an end.
LEMMA ProceedFacts ==
    ASSUME NEW next, NEW g \in Gens, Proceed(next, g)
    PROVE  /\ next \in {"read", "tail", "error", "over"}
           /\ pending' \in Seq(Chunk)
           /\ next \in {"read", "over"} => task' = next /\ after' = "none"
           /\ next \in {"tail", "error"} => task' = "send" /\ after' = "over" /\ pending' # <<>>
           /\ next # "tail" => ~Announces(pending')
BY ErrorChunksTyped, TailChunksTyped, ShortChunks DEF Proceed

LEMMA YieldFacts ==
    ASSUME gen \in Gens, NEW e \in Event, NEW next \in {"read", "tail"}, Yield(e, next)
    PROVE  /\ gen' \in Gens
           /\ pending' \in Seq(Chunk)
           /\ \/ task' = "send" /\ after' = next /\ pending' # <<>> /\ ~Announces(pending')
              \/ next = "read" /\ task' = "read" /\ after' = "none" /\ ~Announces(pending')
              \/ next = "tail" /\ task' = "send" /\ after' = "over" /\ pending' # <<>>
<1>1. gen' \in Gens
  BY TakeTyped DEF Yield
<1>2. CASE EventChunks(gen, e) = <<>>
  <2>1. Proceed(next, gen')
    BY <1>2 DEF Yield
  <2> QED BY <1>1, <2>1, ProceedFacts
<1>3. CASE EventChunks(gen, e) # <<>>
  BY <1>1, <1>3, EventChunksTyped DEF Yield
<1> QED BY <1>2, <1>3

\* What ReadDone and ReadEof do after the end of the body.
LEMMA EndOfBodyFacts ==
    ASSUME gen \in Gens, unwinding \in BOOLEAN, NEW p \in Parsers, EndOfBody(p)
    PROVE  /\ task' = "close" /\ pending' = <<>>
           /\ after' = "error" \/ (after' = "tail" /\ unwinding' = unwinding)
           /\ unwinding' \in BOOLEAN
           /\ gen' \in Gens
<1>1. Finish("tool_calls") \in Event
  BY EventConstructors DEF Finishings
<1>2. Take(gen, Finish("tool_calls")) \in Gens
  BY <1>1, TakeTyped
<1>3. CASE req.provider = "jetbrains" /\ ~p.terminal
  <2>1. LeaveFailing("error") /\ gen' = gen
    BY <1>3 DEF EndOfBody
  <2> QED BY <2>1 DEF LeaveFailing, Leave
<1>4. CASE ~(req.provider = "jetbrains" /\ ~p.terminal)
  <2>1. /\ Leave("tail") /\ unwinding' = unwinding
        /\ gen' = IF req.provider \in Native /\ p.tool /\ p.finish = "none"
                    THEN Take(gen, Finish("tool_calls")) ELSE gen
    BY <1>4 DEF EndOfBody
  <2> QED BY <1>2, <2>1 DEF Leave
<1> QED BY <1>3, <1>4

-----------------------------------------------------------------------------
(* Types.                                                                  *)

\* The variables apart from the sequences and those that never change.
Fields ==
    /\ task \in {"begin", "slot", "admit", "connect", "read", "send", "close",
                 "adrift", "over"}
    /\ after \in {"none", "read", "tail", "error", "over"}
    /\ unwinding \in BOOLEAN /\ slot \in BOOLEAN /\ reserved \in BOOLEAN
    /\ client \in {"here", "gone"}
    /\ obs \in Observers /\ parser \in Parsers /\ gen \in Gens
    /\ upstream \in Upstreams

Chunks == pending \in Seq(Chunk) /\ sent \in Seq(Chunk)

Types == req \in Requests /\ Fields /\ Chunks /\ records \in Seq({"none", "good"})

\* The type invariant in the parts the step lemmas need.
LEMMA TypeParts == TypeOK <=> Types
BY
   DEF TypeOK, Types, Fields, Chunks, Observers, Parsers, Gens, Finishings,
       Upstreams

IInv == Types /\ Bookkeeping /\ ObserverKnows /\ EndAnnounced

\* The initial state has the types.
LEMMA InitTypes == Init => Types
<1> SUFFICES ASSUME Init PROVE Types
  OBVIOUS
<1>1. 0 \in 0..MaxLines
  BY StreamAssumption
<1>2. Fields
  BY <1>1 DEF Init, Fields, Observers, Parsers, Gens, Finishings, Upstreams
<1> QED BY <1>2 DEF Init, Chunks, Types

\* A line that is received keeps the type of upstream.
LEMMA ReceiveTypes ==
    ASSUME Types, NEW f \in BOOLEAN, NEW u \in {"none", "good", "bad"}, Receive(f, u)
    PROVE  upstream' \in Upstreams /\ upstream'.state = upstream.state
<1>1. upstream.lines + 1 \in 0..MaxLines
  BY StreamAssumption DEF Receive, Types, Fields, Upstreams
<1> QED BY <1>1 DEF Receive, Types, Fields, Upstreams

\* What the observer hands on is a usage or none.
LEMMA CollectedTyped ==
    ASSUME NEW o \in Observers
    PROVE  Collected(o) \in {"none", "good"}
BY DEF Collected, Observers

-----------------------------------------------------------------------------
(* The inductive invariant: one lemma for each kind of action.             *)

\* Up to the headers of the upstream.
LEMMA StartStep ==
    ASSUME IInv, Start
    PROVE  IInv'
<1>1. Types'
  <2>1. req' \in Requests /\ records' \in Seq({"none", "good"})
    BY DEF IInv, Types, Start
  <2>2. Fields'
    BY DEF IInv, Types, Fields, Upstreams, Observers, Start
  <2>3. Chunks'
    BY DEF IInv, Types, Chunks, Start
  <2> QED BY <2>1, <2>2, <2>3 DEF Types
<1>2. Bookkeeping'
  BY DEF IInv, Types, Fields, Upstreams, Bookkeeping, Reading, Settled, Start
<1>3. ObserverKnows'
  BY
     DEF IInv, Types, Fields, Upstreams, Observers, Bookkeeping, ObserverKnows,
         Reading, Settled, Start
<1>4. EndAnnounced'
  BY
     DEF IInv, Types, Fields, Upstreams, Bookkeeping, EndAnnounced, Whole, Reading,
         Settled, Start
<1> QED BY <1>1, <1>2, <1>3, <1>4 DEF IInv

LEMMA TakeSlotStep ==
    ASSUME IInv, TakeSlot
    PROVE  IInv'
<1>1. Types'
  <2>1. req' \in Requests /\ records' \in Seq({"none", "good"})
    BY DEF IInv, Types, TakeSlot
  <2>2. Fields'
    BY DEF IInv, Types, Fields, Upstreams, Observers, TakeSlot
  <2>3. Chunks'
    BY DEF IInv, Types, Chunks, TakeSlot
  <2> QED BY <2>1, <2>2, <2>3 DEF Types
<1>2. Bookkeeping'
  BY DEF IInv, Types, Fields, Upstreams, Bookkeeping, Reading, Settled, TakeSlot
<1>3. ObserverKnows'
  BY
     DEF IInv, Types, Fields, Upstreams, Observers, Bookkeeping, ObserverKnows,
         Reading, Settled, TakeSlot
<1>4. EndAnnounced'
  BY
     DEF IInv, Types, Fields, Upstreams, Bookkeeping, EndAnnounced, Whole, Reading,
         Settled, TakeSlot
<1> QED BY <1>1, <1>2, <1>3, <1>4 DEF IInv

LEMMA AdmitStep ==
    ASSUME IInv, Admit
    PROVE  IInv'
<1>1. Types'
  <2>1. req' \in Requests /\ records' \in Seq({"none", "good"})
    BY DEF IInv, Types, Admit
  <2>2. Fields'
    BY DEF IInv, Types, Fields, Upstreams, Observers, Admit
  <2>3. Chunks'
    BY DEF IInv, Types, Chunks, Admit
  <2> QED BY <2>1, <2>2, <2>3 DEF Types
<1>2. Bookkeeping'
  BY DEF IInv, Types, Fields, Upstreams, Bookkeeping, Reading, Settled, Admit
<1>3. ObserverKnows'
  BY
     DEF IInv, Types, Fields, Upstreams, Observers, Bookkeeping, ObserverKnows,
         Reading, Settled, Admit
<1>4. EndAnnounced'
  BY
     DEF IInv, Types, Fields, Upstreams, Bookkeeping, EndAnnounced, Whole, Reading,
         Settled, Admit
<1> QED BY <1>1, <1>2, <1>3, <1>4 DEF IInv

LEMMA RefuseStep ==
    ASSUME IInv, Refuse
    PROVE  IInv'
<1>1. gen \in Gens
  BY DEF IInv, Types, Fields
<1>2. /\ pending' \in Seq(Chunk) /\ ~Announces(pending')
      /\ task' = "send" /\ after' = "over" /\ pending' # <<>>
  BY <1>1, ProceedFacts DEF Refuse
<1>3. Types'
  <2>1. req' \in Requests /\ records' \in Seq({"none", "good"})
    BY <1>1, <1>2 DEF IInv, Types, Refuse
  <2>2. Fields'
    BY <1>1, <1>2 DEF IInv, Types, Fields, Refuse
  <2>3. Chunks'
    BY <1>1, <1>2 DEF IInv, Types, Chunks, Refuse
  <2> QED BY <2>1, <2>2, <2>3 DEF Types
<1>4. Bookkeeping'
  BY <1>1, <1>2
     DEF IInv, Types, Fields, Upstreams, Bookkeeping, Reading, Settled, Refuse
<1>5. ObserverKnows'
  BY <1>1, <1>2
     DEF IInv, Types, Fields, Upstreams, Observers, Bookkeeping, ObserverKnows,
         Reading, Settled, Refuse
<1>6. EndAnnounced'
  BY <1>1, <1>2
     DEF IInv, Types, Fields, Upstreams, Bookkeeping, EndAnnounced, Whole, Reading,
         Settled, Refuse
<1> QED BY <1>3, <1>4, <1>5, <1>6 DEF IInv

LEMMA ConnectFailsStep ==
    ASSUME IInv, ConnectFails
    PROVE  IInv'
<1>1. gen \in Gens
  BY DEF IInv, Types, Fields
<1>2. /\ pending' \in Seq(Chunk) /\ ~Announces(pending')
      /\ task' = "send" /\ after' = "over" /\ pending' # <<>>
  BY <1>1, ProceedFacts DEF ConnectFails
<1>3. records' = <<"none">> /\ Len(records') = 1 /\ records' \in Seq({"none", "good"})
  BY DEF IInv, Bookkeeping, ConnectFails, Record
<1>4. Types'
  <2>1. req' \in Requests /\ records' \in Seq({"none", "good"})
    BY <1>1, <1>2, <1>3 DEF IInv, Types, ConnectFails
  <2>2. Fields'
    BY <1>1, <1>2, <1>3 DEF IInv, Types, Fields, ConnectFails
  <2>3. Chunks'
    BY <1>1, <1>2, <1>3 DEF IInv, Types, Chunks, ConnectFails
  <2> QED BY <2>1, <2>2, <2>3 DEF Types
<1>5. Bookkeeping'
  BY <1>1, <1>2, <1>3
     DEF IInv, Types, Fields, Upstreams, Bookkeeping, Reading, Settled, ConnectFails
<1>6. ObserverKnows'
  BY <1>1, <1>2, <1>3
     DEF IInv, Types, Fields, Upstreams, Observers, Bookkeeping, ObserverKnows,
         Reading, Settled, ConnectFails
<1>7. EndAnnounced'
  BY <1>1, <1>2, <1>3
     DEF IInv, Types, Fields, Upstreams, Bookkeeping, EndAnnounced, Whole, Reading,
         Settled, ConnectFails
<1> QED BY <1>4, <1>5, <1>6, <1>7 DEF IInv

LEMMA StartFailsStep ==
    ASSUME IInv, StartFails
    PROVE  IInv'
<1>1. gen \in Gens
  BY DEF IInv, Types, Fields
<1>2. /\ pending' \in Seq(Chunk) /\ ~Announces(pending')
      /\ \/ task' = "send" /\ after' = "over" /\ pending' # <<>>
         \/ task' = "over" /\ after' = "none"
  BY <1>1, ProceedFacts DEF StartFails
<1>3. Types'
  <2>1. req' \in Requests /\ records' \in Seq({"none", "good"})
    BY <1>1, <1>2 DEF IInv, Types, StartFails
  <2>2. Fields'
    BY <1>1, <1>2 DEF IInv, Types, Fields, Upstreams, Observers, StartFails
  <2>3. Chunks'
    BY <1>1, <1>2 DEF IInv, Types, Chunks, StartFails
  <2> QED BY <2>1, <2>2, <2>3 DEF Types
<1>4. Bookkeeping'
  BY <1>1, <1>2
     DEF IInv, Types, Fields, Upstreams, Bookkeeping, Reading, Settled, StartFails
<1>5. ObserverKnows'
  BY <1>1, <1>2
     DEF IInv, Types, Fields, Upstreams, Observers, Bookkeeping, ObserverKnows,
         Reading, Settled, StartFails
<1>6. EndAnnounced'
  BY <1>1, <1>2
     DEF IInv, Types, Fields, Upstreams, Bookkeeping, EndAnnounced, Whole, Reading,
         Settled, StartFails
<1> QED BY <1>3, <1>4, <1>5, <1>6 DEF IInv

LEMMA ConnectStep ==
    ASSUME IInv, Connect
    PROVE  IInv'
<1>1. gen \in Gens
  BY DEF IInv, Types, Fields
<1>2. /\ pending' \in Seq(Chunk) /\ ~Announces(pending')
      /\ task' = "read" /\ after' = "none"
  BY <1>1, ProceedFacts DEF Connect
<1>3. Types'
  <2>1. req' \in Requests /\ records' \in Seq({"none", "good"})
    BY <1>1, <1>2 DEF IInv, Types, Connect
  <2>2. Fields'
    BY <1>1, <1>2 DEF IInv, Types, Fields, Upstreams, Observers, Connect
  <2>3. Chunks'
    BY <1>1, <1>2 DEF IInv, Types, Chunks, Connect
  <2> QED BY <2>1, <2>2, <2>3 DEF Types
<1>4. Bookkeeping'
  BY <1>1, <1>2
     DEF IInv, Types, Fields, Upstreams, Bookkeeping, Reading, Settled, Connect
<1>5. ObserverKnows'
  BY <1>1, <1>2
     DEF IInv, Types, Fields, Upstreams, Observers, Bookkeeping, ObserverKnows,
         Reading, Settled, Connect
<1>6. EndAnnounced'
  BY <1>1, <1>2
     DEF IInv, Types, Fields, Upstreams, Bookkeeping, EndAnnounced, Whole, Reading,
         Settled, Connect
<1> QED BY <1>3, <1>4, <1>5, <1>6 DEF IInv

LEMMA RejectedStep ==
    ASSUME IInv, Rejected
    PROVE  IInv'
<1>1. /\ pending' = <<>> /\ pending' \in Seq(Chunk) /\ ~Announces(pending')
      /\ task' = "close" /\ after' = "error" /\ unwinding' \in BOOLEAN
  BY ShortChunks DEF Rejected, LeaveFailing, Leave
<1>2. Types'
  <2>1. req' \in Requests /\ records' \in Seq({"none", "good"})
    BY <1>1 DEF IInv, Types, Rejected
  <2>2. Fields'
    BY <1>1 DEF IInv, Types, Fields, Upstreams, Observers, Rejected
  <2>3. Chunks'
    BY <1>1 DEF IInv, Types, Chunks, Rejected
  <2> QED BY <2>1, <2>2, <2>3 DEF Types
<1>3. Bookkeeping'
  BY <1>1
     DEF IInv, Types, Fields, Upstreams, Bookkeeping, Reading, Settled, Rejected
<1>4. ObserverKnows'
  BY <1>1
     DEF IInv, Types, Fields, Upstreams, Observers, Bookkeeping, ObserverKnows,
         Reading, Settled, Rejected
<1>5. EndAnnounced'
  BY <1>1
     DEF IInv, Types, Fields, Upstreams, Bookkeeping, EndAnnounced, Whole, Reading,
         Settled, Rejected
<1> QED BY <1>2, <1>3, <1>4, <1>5 DEF IInv

\* The buffered answer of Vertex.
LEMMA ReplyStep ==
    ASSUME IInv, NEW e \in Replies, Reply(e)
    PROVE  IInv'
<1>1. gen \in Gens
  BY DEF IInv, Types, Fields
<1>2. e \in Event /\ e.usage \in {"good", "bad"}
  BY DEF Replies, Event
<1>3. /\ pending' \in Seq(Chunk) /\ gen' \in Gens
      /\ task' = "send" /\ pending' # <<>>
      /\ (after' = "tail" /\ ~Announces(pending')) \/ after' = "over"
  BY <1>1, <1>2, YieldFacts DEF Reply
<1>4. /\ records' = <<IF e.usage = "good" THEN "good" ELSE "none">>
      /\ Len(records') = 1 /\ records' \in Seq({"none", "good"})
  BY DEF IInv, Bookkeeping, Reply, Record
<1>5. Types'
  <2>1. req' \in Requests /\ records' \in Seq({"none", "good"})
    BY <1>1, <1>2, <1>3, <1>4 DEF IInv, Types, Reply
  <2>2. Fields'
    BY <1>1, <1>2, <1>3, <1>4 DEF IInv, Types, Fields, Upstreams, Observers, Reply
  <2>3. Chunks'
    BY <1>1, <1>2, <1>3, <1>4 DEF IInv, Types, Chunks, Reply
  <2> QED BY <2>1, <2>2, <2>3 DEF Types
<1>6. Bookkeeping'
  BY <1>1, <1>2, <1>3, <1>4
     DEF IInv, Types, Fields, Upstreams, Bookkeeping, Reading, Settled, Reply
<1>7. ObserverKnows'
  BY <1>1, <1>2, <1>3, <1>4
     DEF IInv, Types, Fields, Upstreams, Observers, Bookkeeping, ObserverKnows,
         Reading, Settled, Reply
<1>8. EndAnnounced'
  BY <1>1, <1>2, <1>3, <1>4
     DEF IInv, Types, Fields, Upstreams, Bookkeeping, EndAnnounced, Whole, Reading,
         Settled, Reply
<1> QED BY <1>5, <1>6, <1>7, <1>8 DEF IInv

LEMMA ReplyFailsStep ==
    ASSUME IInv, NEW q \in {"none", "good"}, ReplyFails(q)
    PROVE  IInv'
<1>1. gen \in Gens
  BY DEF IInv, Types, Fields
<1>2. /\ pending' \in Seq(Chunk) /\ ~Announces(pending')
      /\ task' = "send" /\ after' = "over" /\ pending' # <<>>
  BY <1>1, ProceedFacts DEF ReplyFails
<1>3. /\ records' = <<IF q = "good" THEN "good" ELSE "none">>
      /\ Len(records') = 1 /\ records' \in Seq({"none", "good"})
  BY DEF IInv, Bookkeeping, ReplyFails, Record
<1>4. Types'
  <2>1. req' \in Requests /\ records' \in Seq({"none", "good"})
    BY <1>1, <1>2, <1>3 DEF IInv, Types, ReplyFails
  <2>2. Fields'
    BY <1>1, <1>2, <1>3 DEF IInv, Types, Fields, Upstreams, Observers, ReplyFails
  <2>3. Chunks'
    BY <1>1, <1>2, <1>3 DEF IInv, Types, Chunks, ReplyFails
  <2> QED BY <2>1, <2>2, <2>3 DEF Types
<1>5. Bookkeeping'
  BY <1>1, <1>2, <1>3
     DEF IInv, Types, Fields, Upstreams, Bookkeeping, Reading, Settled, ReplyFails
<1>6. ObserverKnows'
  BY <1>1, <1>2, <1>3
     DEF IInv, Types, Fields, Upstreams, Observers, Bookkeeping, ObserverKnows,
         Reading, Settled, ReplyFails
<1>7. EndAnnounced'
  BY <1>1, <1>2, <1>3
     DEF IInv, Types, Fields, Upstreams, Bookkeeping, EndAnnounced, Whole, Reading,
         Settled, ReplyFails
<1> QED BY <1>4, <1>5, <1>6, <1>7 DEF IInv

\* While the body is read nothing has been announced.
LEMMA ReadingQuiet ==
    ASSUME IInv, task = "read"
    PROVE  /\ pending \in Seq(Chunk) /\ ~Announces(pending)
           /\ after \in {"none", "read", "error", "over"}
           /\ gen \in Gens /\ parser \in Parsers /\ obs \in Observers
BY DEF IInv, Types, Fields, Chunks, Bookkeeping, EndAnnounced, Reading, Settled

\* The lines of a body, its end, and its failure.
LEMMA ReadEventStep ==
    ASSUME IInv, NEW e \in Events, ReadEvent(e)
    PROVE  IInv'
<1>1. gen \in Gens /\ parser \in Parsers /\ obs \in Observers
  BY ReadingQuiet DEF ReadEvent, Receive
<1>2. e \in Event /\ e.usage \in {"none", "good", "bad"}
  BY EventsTyped, TypeParts DEF IInv, Event
<1>3. obs' \in Observers /\ parser' \in Parsers
  BY <1>1, <1>2, ObserveTyped, ParsedTyped, RememberTyped DEF ReadEvent
<1>4. /\ pending' \in Seq(Chunk) /\ ~Announces(pending') /\ gen' \in Gens
      /\ \/ task' = "send" /\ after' = "read" /\ pending' # <<>>
         \/ task' = "read" /\ after' # "tail" /\ after' \in {"none", "read", "error", "over"}
  BY <1>1, <1>2, ParsedTyped, YieldFacts, ReadingQuiet DEF ReadEvent, Receive
<1>5. upstream' \in Upstreams /\ upstream'.state = upstream.state
  BY <1>2, ReceiveTypes DEF IInv, ReadEvent
<1>6. Types'
  <2>1. req' \in Requests /\ records' \in Seq({"none", "good"})
    BY <1>1, <1>2, <1>3, <1>4, <1>5 DEF IInv, Types, ReadEvent, Receive, Observe
  <2>2. Fields'
    BY <1>1, <1>2, <1>3, <1>4, <1>5
       DEF IInv, Types, Fields, ReadEvent, Receive, Observe
  <2>3. Chunks'
    BY <1>1, <1>2, <1>3, <1>4, <1>5
       DEF IInv, Types, Chunks, ReadEvent, Receive, Observe
  <2> QED BY <2>1, <2>2, <2>3 DEF Types
<1>7. Bookkeeping'
  BY <1>1, <1>2, <1>3, <1>4, <1>5
     DEF IInv, Types, Fields, Upstreams, Bookkeeping, Reading, Settled, ReadEvent,
         Receive, Observe
<1>8. ObserverKnows'
  BY <1>1, <1>2, <1>3, <1>4, <1>5
     DEF IInv, Types, Fields, Upstreams, Observers, Bookkeeping, ObserverKnows,
         Reading, Settled, ReadEvent, Receive, Observe
<1>9. EndAnnounced'
  BY <1>1, <1>2, <1>3, <1>4, <1>5
     DEF IInv, Types, Fields, Upstreams, Bookkeeping, EndAnnounced, Whole, Reading,
         Settled, ReadEvent, Receive, Observe
<1> QED BY <1>6, <1>7, <1>8, <1>9 DEF IInv

LEMMA ReadUnacceptableStep ==
    ASSUME IInv, NEW e \in Events, ReadUnacceptable(e)
    PROVE  IInv'
<1>1. gen \in Gens /\ parser \in Parsers /\ obs \in Observers
  BY ReadingQuiet DEF ReadUnacceptable, Receive
<1>2. e \in Event /\ e.usage \in {"none", "good", "bad"}
  BY EventsTyped, TypeParts DEF IInv, Event
<1>3. obs' \in Observers
  BY <1>1, <1>2, ObserveTyped DEF ReadUnacceptable
<1>4. /\ pending' = <<>> /\ pending' \in Seq(Chunk) /\ ~Announces(pending')
      /\ task' = "close" /\ after' = "error" /\ unwinding' \in BOOLEAN
  BY ShortChunks DEF ReadUnacceptable, LeaveFailing, Leave
<1>5. upstream' \in Upstreams /\ upstream'.state = upstream.state
  BY <1>2, ReceiveTypes DEF IInv, ReadUnacceptable
<1>6. Types'
  <2>1. req' \in Requests /\ records' \in Seq({"none", "good"})
    BY <1>1, <1>2, <1>3, <1>4, <1>5
       DEF IInv, Types, ReadUnacceptable, Receive, Observe
  <2>2. Fields'
    BY <1>1, <1>2, <1>3, <1>4, <1>5
       DEF IInv, Types, Fields, ReadUnacceptable, Receive, Observe
  <2>3. Chunks'
    BY <1>1, <1>2, <1>3, <1>4, <1>5
       DEF IInv, Types, Chunks, ReadUnacceptable, Receive, Observe
  <2> QED BY <2>1, <2>2, <2>3 DEF Types
<1>7. Bookkeeping'
  BY <1>1, <1>2, <1>3, <1>4, <1>5
     DEF IInv, Types, Fields, Upstreams, Bookkeeping, Reading, Settled,
         ReadUnacceptable, Receive, Observe
<1>8. ObserverKnows'
  BY <1>1, <1>2, <1>3, <1>4, <1>5
     DEF IInv, Types, Fields, Upstreams, Observers, Bookkeeping, ObserverKnows,
         Reading, Settled, ReadUnacceptable, Receive, Observe
<1>9. EndAnnounced'
  BY <1>1, <1>2, <1>3, <1>4, <1>5
     DEF IInv, Types, Fields, Upstreams, Bookkeeping, EndAnnounced, Whole, Reading,
         Settled, ReadUnacceptable, Receive, Observe
<1> QED BY <1>6, <1>7, <1>8, <1>9 DEF IInv

LEMMA ReadErrorStep ==
    ASSUME IInv, ReadError
    PROVE  IInv'
<1>1. gen \in Gens /\ parser \in Parsers /\ obs \in Observers /\ unwinding \in BOOLEAN
  BY ReadingQuiet DEF ReadError, Receive, IInv, Types, Fields
<1>2. Blank \in Event
  BY EventConstructors
<1>3. obs' \in Observers
  BY <1>1, <1>2, ObserveTyped DEF ReadError
<1>4. /\ pending' \in Seq(Chunk) /\ ~Announces(pending') /\ gen' \in Gens
      /\ unwinding' \in BOOLEAN /\ (task' # "close" => unwinding' = unwinding)
      /\ \/ task' = "send" /\ after' = "read" /\ pending' # <<>>
         \/ task' = "read" /\ after' = "none"
         \/ task' = "close" /\ after' = "error"
  <2>1. CASE LeaveFailing("error") /\ UNCHANGED gen
    BY <1>1, <2>1, ShortChunks DEF LeaveFailing, Leave
  <2>2. CASE Yield(Blank, "read") /\ UNCHANGED unwinding
    BY <1>1, <1>2, <2>2, YieldFacts
  <2> QED BY <2>1, <2>2 DEF ReadError
<1>5. upstream' \in Upstreams /\ upstream'.state = upstream.state
  BY ReceiveTypes DEF IInv, ReadError
<1>6. Types'
  <2>1. req' \in Requests /\ records' \in Seq({"none", "good"})
    BY <1>1, <1>2, <1>3, <1>4, <1>5 DEF IInv, Types, ReadError, Receive, Discard
  <2>2. Fields'
    BY <1>1, <1>2, <1>3, <1>4, <1>5
       DEF IInv, Types, Fields, ReadError, Receive, Discard
  <2>3. Chunks'
    BY <1>1, <1>2, <1>3, <1>4, <1>5
       DEF IInv, Types, Chunks, ReadError, Receive, Discard
  <2> QED BY <2>1, <2>2, <2>3 DEF Types
<1>7. Bookkeeping'
  BY <1>1, <1>2, <1>3, <1>4, <1>5
     DEF IInv, Types, Fields, Upstreams, Bookkeeping, Reading, Settled, ReadError,
         Receive, Discard
<1>8. ObserverKnows'
  BY <1>1, <1>2, <1>3, <1>4, <1>5
     DEF IInv, Types, Fields, Upstreams, Observers, Bookkeeping, ObserverKnows,
         Reading, Settled, ReadError, Receive, Discard
<1>9. EndAnnounced'
  BY <1>1, <1>2, <1>3, <1>4, <1>5
     DEF IInv, Types, Fields, Upstreams, Bookkeeping, EndAnnounced, Whole, Reading,
         Settled, ReadError, Receive, Discard
<1> QED BY <1>6, <1>7, <1>8, <1>9 DEF IInv

LEMMA ReadJunkStep ==
    ASSUME IInv, ReadJunk
    PROVE  IInv'
<1>1. gen \in Gens /\ parser \in Parsers /\ obs \in Observers
  BY ReadingQuiet DEF ReadJunk, Receive
<1>2. obs' \in Observers
  BY <1>1, EventConstructors, ObserveTyped DEF ReadJunk
<1>3. upstream' \in Upstreams /\ upstream'.state = upstream.state
  BY ReceiveTypes DEF IInv, ReadJunk
<1>4. Types'
  <2>1. req' \in Requests /\ records' \in Seq({"none", "good"})
    BY <1>1, <1>2, <1>3 DEF IInv, Types, ReadJunk, Receive, Discard
  <2>2. Fields'
    BY <1>1, <1>2, <1>3 DEF IInv, Types, Fields, ReadJunk, Receive, Discard
  <2>3. Chunks'
    BY <1>1, <1>2, <1>3 DEF IInv, Types, Chunks, ReadJunk, Receive, Discard
  <2> QED BY <2>1, <2>2, <2>3 DEF Types
<1>5. Bookkeeping'
  BY <1>1, <1>2, <1>3
     DEF IInv, Types, Fields, Upstreams, Bookkeeping, Reading, Settled, ReadJunk,
         Receive, Discard
<1>6. ObserverKnows'
  BY <1>1, <1>2, <1>3
     DEF IInv, Types, Fields, Upstreams, Observers, Bookkeeping, ObserverKnows,
         Reading, Settled, ReadJunk, Receive, Discard
<1>7. EndAnnounced'
  BY <1>1, <1>2, <1>3
     DEF IInv, Types, Fields, Upstreams, Bookkeeping, EndAnnounced, Whole, Reading,
         Settled, ReadJunk, Receive, Discard
<1> QED BY <1>4, <1>5, <1>6, <1>7 DEF IInv

LEMMA ReadDoneStep ==
    ASSUME IInv, ReadDone
    PROVE  IInv'
<1>1. gen \in Gens /\ parser \in Parsers /\ obs \in Observers /\ unwinding \in BOOLEAN
  BY ReadingQuiet DEF ReadDone, IInv, Types, Fields
<1>2. parser' \in Parsers
  BY <1>1 DEF ReadDone, Parsers, Finishings
<1>3. /\ pending' = <<>> /\ pending' \in Seq(Chunk) /\ ~Announces(pending')
      /\ task' = "close" /\ gen' \in Gens /\ unwinding' \in BOOLEAN
      /\ after' = "error" \/ (after' = "tail" /\ unwinding' = unwinding)
  BY <1>1, <1>2, EndOfBodyFacts, ShortChunks DEF ReadDone
<1>4. Types'
  <2>1. req' \in Requests /\ records' \in Seq({"none", "good"})
    BY <1>1, <1>2, <1>3 DEF IInv, Types, ReadDone
  <2>2. Fields'
    BY <1>1, <1>2, <1>3 DEF IInv, Types, Fields, Upstreams, Observers, ReadDone
  <2>3. Chunks'
    BY <1>1, <1>2, <1>3 DEF IInv, Types, Chunks, ReadDone
  <2> QED BY <2>1, <2>2, <2>3 DEF Types
<1>5. Bookkeeping'
  BY <1>1, <1>2, <1>3
     DEF IInv, Types, Fields, Upstreams, Bookkeeping, Reading, Settled, ReadDone
<1>6. ObserverKnows'
  BY <1>1, <1>2, <1>3
     DEF IInv, Types, Fields, Upstreams, Observers, Bookkeeping, ObserverKnows,
         Reading, Settled, ReadDone
<1>7. EndAnnounced'
  BY <1>1, <1>2, <1>3
     DEF IInv, Types, Fields, Upstreams, Bookkeeping, EndAnnounced, Whole, Reading,
         Settled, ReadDone
<1> QED BY <1>4, <1>5, <1>6, <1>7 DEF IInv

LEMMA ReadEofStep ==
    ASSUME IInv, ReadEof
    PROVE  IInv'
<1>1. gen \in Gens /\ parser \in Parsers /\ obs \in Observers /\ unwinding \in BOOLEAN
  BY ReadingQuiet DEF ReadEof, IInv, Types, Fields
<1>2. parser \in Parsers
  BY <1>1 DEF ReadEof, Parsers, Finishings
<1>3. /\ pending' = <<>> /\ pending' \in Seq(Chunk) /\ ~Announces(pending')
      /\ task' = "close" /\ gen' \in Gens /\ unwinding' \in BOOLEAN
      /\ after' = "error" \/ (after' = "tail" /\ unwinding' = unwinding)
  BY <1>1, <1>2, EndOfBodyFacts, ShortChunks DEF ReadEof
<1>4. Types'
  <2>1. req' \in Requests /\ records' \in Seq({"none", "good"})
    BY <1>1, <1>2, <1>3 DEF IInv, Types, ReadEof
  <2>2. Fields'
    BY <1>1, <1>2, <1>3 DEF IInv, Types, Fields, Upstreams, Observers, ReadEof
  <2>3. Chunks'
    BY <1>1, <1>2, <1>3 DEF IInv, Types, Chunks, ReadEof
  <2> QED BY <2>1, <2>2, <2>3 DEF Types
<1>5. Bookkeeping'
  BY <1>1, <1>2, <1>3
     DEF IInv, Types, Fields, Upstreams, Bookkeeping, Reading, Settled, ReadEof
<1>6. ObserverKnows'
  BY <1>1, <1>2, <1>3
     DEF IInv, Types, Fields, Upstreams, Observers, Bookkeeping, ObserverKnows,
         Reading, Settled, ReadEof
<1>7. EndAnnounced'
  BY <1>1, <1>2, <1>3
     DEF IInv, Types, Fields, Upstreams, Bookkeeping, EndAnnounced, Whole, Reading,
         Settled, ReadEof
<1> QED BY <1>4, <1>5, <1>6, <1>7 DEF IInv

LEMMA ReadFailsStep ==
    ASSUME IInv, ReadFails
    PROVE  IInv'
<1>1. gen \in Gens /\ parser \in Parsers /\ obs \in Observers
  BY ReadingQuiet DEF ReadFails
<1>2. /\ pending' = <<>> /\ pending' \in Seq(Chunk) /\ ~Announces(pending')
      /\ task' = "close" /\ after' \in {"error", "over"} /\ unwinding' \in BOOLEAN
  BY ShortChunks DEF ReadFails, LeaveFailing, Leave
<1>3. Types'
  <2>1. req' \in Requests /\ records' \in Seq({"none", "good"})
    BY <1>1, <1>2 DEF IInv, Types, ReadFails
  <2>2. Fields'
    BY <1>1, <1>2 DEF IInv, Types, Fields, Upstreams, Observers, ReadFails
  <2>3. Chunks'
    BY <1>1, <1>2 DEF IInv, Types, Chunks, ReadFails
  <2> QED BY <2>1, <2>2, <2>3 DEF Types
<1>4. Bookkeeping'
  BY <1>1, <1>2
     DEF IInv, Types, Fields, Upstreams, Bookkeeping, Reading, Settled, ReadFails
<1>5. ObserverKnows'
  BY <1>1, <1>2
     DEF IInv, Types, Fields, Upstreams, Observers, Bookkeeping, ObserverKnows,
         Reading, Settled, ReadFails
<1>6. EndAnnounced'
  BY <1>1, <1>2
     DEF IInv, Types, Fields, Upstreams, Bookkeeping, EndAnnounced, Whole, Reading,
         Settled, ReadFails
<1> QED BY <1>3, <1>4, <1>5, <1>6 DEF IInv

LEMMA FinalizeStep ==
    ASSUME IInv, Finalize
    PROVE  IInv'
<1>1. /\ pending' = <<>> /\ pending' \in Seq(Chunk) /\ ~Announces(pending')
      /\ task' = "close" /\ after' = "over" /\ unwinding' \in BOOLEAN
  BY ShortChunks DEF Finalize, LeaveFailing, Leave
<1>2. Types'
  <2>1. req' \in Requests /\ records' \in Seq({"none", "good"})
    BY <1>1 DEF IInv, Types, Finalize
  <2>2. Fields'
    BY <1>1 DEF IInv, Types, Fields, Finalize
  <2>3. Chunks'
    BY <1>1 DEF IInv, Types, Chunks, Finalize
  <2> QED BY <2>1, <2>2, <2>3 DEF Types
<1>3. Bookkeeping'
  BY <1>1
     DEF IInv, Types, Fields, Upstreams, Bookkeeping, Reading, Settled, Finalize
<1>4. ObserverKnows'
  BY <1>1
     DEF IInv, Types, Fields, Upstreams, Observers, Bookkeeping, ObserverKnows,
         Reading, Settled, Finalize
<1>5. EndAnnounced'
  BY <1>1
     DEF IInv, Types, Fields, Upstreams, Bookkeeping, EndAnnounced, Whole, Reading,
         Settled, Finalize
<1> QED BY <1>2, <1>3, <1>4, <1>5 DEF IInv

LEMMA CloseStep ==
    ASSUME IInv, Close
    PROVE  IInv'
<1>1. gen \in Gens
  BY DEF IInv, Types, Fields
<1>2. /\ after \in {"tail", "error", "over"} /\ reserved /\ records = <<>>
      /\ obs \in Observers
  BY DEF IInv, Types, Fields, Bookkeeping, Close
<1>3. /\ pending' \in Seq(Chunk)
      /\ after = "over" => task' = "over" /\ after' = "none"
      /\ after # "over" => task' = "send" /\ after' = "over" /\ pending' # <<>>
      /\ after # "tail" => ~Announces(pending')
  BY <1>1, <1>2, ProceedFacts DEF Close
<1>4. /\ records' = <<IF unwinding THEN "none" ELSE Collected(obs)>>
      /\ Len(records') = 1 /\ records' \in Seq({"none", "good"})
  BY <1>2, CollectedTyped DEF Close, Record
<1>5. Types'
  <2>1. req' \in Requests /\ records' \in Seq({"none", "good"})
    BY <1>1, <1>2, <1>3, <1>4 DEF IInv, Types, Close, Collected
  <2>2. Fields'
    BY <1>1, <1>2, <1>3, <1>4
       DEF IInv, Types, Fields, Upstreams, Observers, Close, Collected
  <2>3. Chunks'
    BY <1>1, <1>2, <1>3, <1>4 DEF IInv, Types, Chunks, Close, Collected
  <2> QED BY <2>1, <2>2, <2>3 DEF Types
<1>6. Bookkeeping'
  BY <1>1, <1>2, <1>3, <1>4
     DEF IInv, Types, Fields, Upstreams, Bookkeeping, Reading, Settled, Close,
         Collected
<1>7. ObserverKnows'
  BY <1>1, <1>2, <1>3, <1>4
     DEF IInv, Types, Fields, Upstreams, Observers, Bookkeeping, ObserverKnows,
         Reading, Settled, Close, Collected
<1>8. EndAnnounced'
  BY <1>1, <1>2, <1>3, <1>4
     DEF IInv, Types, Fields, Upstreams, Bookkeeping, Observers, ObserverKnows,
         EndAnnounced, Whole, Reading, Settled, Close, Collected
<1> QED BY <1>5, <1>6, <1>7, <1>8 DEF IInv

\* Sending moves a chunk, and with it at most an announcement.
LEMMA SentFacts ==
    ASSUME Chunks, pending # <<>>, sent' = Append(sent, Head(pending))
    PROVE  /\ sent' \in Seq(Chunk)
           /\ Announces(sent') => Announces(sent) \/ Announces(pending)
           /\ Tail(pending) \in Seq(Chunk)
           /\ Announces(Tail(pending)) => Announces(pending)
           /\ Len(pending) > 1 => Tail(pending) # <<>>
<1>1. /\ Len(pending) \in Nat /\ Len(pending) > 0 /\ Head(pending) = pending[1]
      /\ Head(pending) \in Chunk /\ DOMAIN pending = 1..Len(pending)
      /\ Tail(pending) \in Seq(Chunk) /\ Len(Tail(pending)) = Len(pending) - 1
      /\ DOMAIN Tail(pending) = 1..(Len(pending) - 1)
      /\ \A i \in 1..(Len(pending) - 1) : Tail(pending)[i] = pending[i + 1]
  BY DEF Chunks
<1>2. /\ sent' \in Seq(Chunk) /\ Len(sent) \in Nat
      /\ DOMAIN sent = 1..Len(sent) /\ DOMAIN sent' = 1..(Len(sent) + 1)
      /\ \A i \in 1..Len(sent) : sent'[i] = sent[i]
      /\ sent'[Len(sent) + 1] = pending[1]
  BY <1>1 DEF Chunks
<1>3. Announces(sent') => Announces(sent) \/ Announces(pending)
  <2> SUFFICES ASSUME NEW i \in DOMAIN sent', sent'[i].type \in {"finish", "message_delta"}
               PROVE  Announces(sent) \/ Announces(pending)
    BY DEF Announces
  <2>1. CASE i \in 1..Len(sent)
    BY <1>2, <2>1 DEF Announces
  <2>2. CASE i = Len(sent) + 1
    <3>1. 1 \in DOMAIN pending /\ sent'[i] = pending[1]
      BY <1>1, <1>2, <2>2
    <3> QED BY <3>1 DEF Announces
  <2> QED BY <1>2, <2>1, <2>2
<1>4. Announces(Tail(pending)) => Announces(pending)
  <2> SUFFICES ASSUME NEW i \in DOMAIN Tail(pending),
                      Tail(pending)[i].type \in {"finish", "message_delta"}
               PROVE  Announces(pending)
    BY DEF Announces
  <2>1. i + 1 \in DOMAIN pending /\ Tail(pending)[i] = pending[i + 1]
    BY <1>1
  <2> QED BY <2>1 DEF Announces
<1> QED BY <1>1, <1>2, <1>3, <1>4

LEMMA SendStep ==
    ASSUME IInv, Send
    PROVE  IInv'
<1>1. gen \in Gens
  BY DEF IInv, Types, Fields
<1>2. /\ Chunks /\ pending # <<>> /\ after \in {"read", "tail", "over"}
      /\ sent' = Append(sent, Head(pending))
  BY DEF IInv, Types, Bookkeeping, Send
<1>3. /\ sent' \in Seq(Chunk)
      /\ Announces(sent') => Announces(sent) \/ Announces(pending)
      /\ Announces(Tail(pending)) => Announces(pending)
  BY <1>2, SentFacts
<1>4. /\ pending' \in Seq(Chunk)
      /\ \/ /\ task' = task /\ after' = after /\ pending' # <<>>
            /\ Announces(pending') => Announces(pending)
         \/ after = "read" /\ task' = "read" /\ after' = "none" /\ ~Announces(pending')
         \/ after = "over" /\ task' = "over" /\ after' = "none" /\ ~Announces(pending')
         \/ after = "tail" /\ task' = "send" /\ after' = "over" /\ pending' # <<>>
  <2>1. CASE Len(pending) > 1
    BY <1>2, <2>1, SentFacts DEF Send
  <2>2. CASE ~(Len(pending) > 1)
    BY <1>1, <1>2, <2>2, ProceedFacts DEF Send
  <2> QED BY <2>1, <2>2
<1>5. Types'
  <2>1. req' \in Requests /\ records' \in Seq({"none", "good"})
    BY <1>1, <1>2, <1>3, <1>4 DEF IInv, Types, Send
  <2>2. Fields'
    BY <1>1, <1>2, <1>3, <1>4 DEF IInv, Types, Fields, Send
  <2>3. Chunks'
    BY <1>1, <1>2, <1>3, <1>4 DEF IInv, Types, Chunks, Send
  <2> QED BY <2>1, <2>2, <2>3 DEF Types
<1>6. Bookkeeping'
  BY <1>1, <1>2, <1>3, <1>4
     DEF IInv, Types, Fields, Upstreams, Bookkeeping, Reading, Settled, Send
<1>7. ObserverKnows'
  BY <1>1, <1>2, <1>3, <1>4
     DEF IInv, Types, Fields, Upstreams, Observers, Bookkeeping, ObserverKnows,
         Reading, Settled, Send
<1>8. EndAnnounced'
  BY <1>1, <1>2, <1>3, <1>4
     DEF IInv, Types, Fields, Upstreams, Bookkeeping, EndAnnounced, Whole, Reading,
         Settled, Send
<1> QED BY <1>5, <1>6, <1>7, <1>8 DEF IInv

\* A disconnect, by where it finds the task.
LEMMA DisconnectEarlyStep ==
    ASSUME IInv, Disconnect, task \in {"begin", "slot", "admit"}
    PROVE  IInv'
<1>1. /\ client' = "gone" /\ UNCHANGED <<req, parser, gen, reserved, sent>>
      /\ Proceed("over", gen) /\ slot' = FALSE
      /\ UNCHANGED <<unwinding, obs, records, upstream>>
  BY DEF Disconnect
<1>2. gen \in Gens
  BY DEF IInv, Types, Fields
<1>3. /\ pending' \in Seq(Chunk) /\ ~Announces(pending')
      /\ task' = "over" /\ after' = "none"
  BY <1>1, <1>2, ProceedFacts
<1>4. records' = <<>> /\ records' # <<"good">>
  BY <1>1 DEF IInv, Bookkeeping
<1>5. Types'
  <2>1. req' \in Requests /\ records' \in Seq({"none", "good"})
    BY <1>1, <1>2, <1>3, <1>4 DEF IInv, Types
  <2>2. Fields'
    BY <1>1, <1>2, <1>3, <1>4 DEF IInv, Types, Fields
  <2>3. Chunks'
    BY <1>1, <1>2, <1>3, <1>4 DEF IInv, Types, Chunks
  <2> QED BY <2>1, <2>2, <2>3 DEF Types
<1>6. Bookkeeping'
  BY <1>1, <1>2, <1>3, <1>4
     DEF IInv, Types, Fields, Upstreams, Bookkeeping, Reading, Settled
<1>7. ObserverKnows'
  BY <1>1, <1>2, <1>3, <1>4
     DEF IInv, Types, Fields, Upstreams, Observers, Bookkeeping, ObserverKnows,
         Reading, Settled
<1>8. EndAnnounced'
  BY <1>1, <1>2, <1>3, <1>4
     DEF IInv, Types, Fields, Upstreams, Bookkeeping, EndAnnounced, Whole, Reading,
         Settled
<1> QED BY <1>5, <1>6, <1>7, <1>8 DEF IInv

LEMMA DisconnectConnectingStep ==
    ASSUME IInv, Disconnect, task = "connect"
    PROVE  IInv'
<1>1. /\ client' = "gone" /\ UNCHANGED <<req, parser, gen, reserved, sent>>
      /\ Proceed("over", gen) /\ slot' = FALSE /\ Record("none")
      /\ UNCHANGED <<unwinding, obs, upstream>>
  BY DEF Disconnect
<1>2. gen \in Gens
  BY DEF IInv, Types, Fields
<1>3. /\ pending' \in Seq(Chunk) /\ ~Announces(pending')
      /\ task' = "over" /\ after' = "none"
  BY <1>1, <1>2, ProceedFacts
<1>4. /\ records' = <<"none">> /\ records' # <<"good">>
      /\ Len(records') = 1 /\ records' \in Seq({"none", "good"})
  BY <1>1 DEF IInv, Bookkeeping, Record
<1>5. Types'
  <2>1. req' \in Requests /\ records' \in Seq({"none", "good"})
    BY <1>1, <1>2, <1>3, <1>4 DEF IInv, Types
  <2>2. Fields'
    BY <1>1, <1>2, <1>3, <1>4 DEF IInv, Types, Fields
  <2>3. Chunks'
    BY <1>1, <1>2, <1>3, <1>4 DEF IInv, Types, Chunks
  <2> QED BY <2>1, <2>2, <2>3 DEF Types
<1>6. Bookkeeping'
  BY <1>1, <1>2, <1>3, <1>4
     DEF IInv, Types, Fields, Upstreams, Bookkeeping, Reading, Settled
<1>7. ObserverKnows'
  BY <1>1, <1>2, <1>3, <1>4
     DEF IInv, Types, Fields, Upstreams, Observers, Bookkeeping, ObserverKnows,
         Reading, Settled
<1>8. EndAnnounced'
  BY <1>1, <1>2, <1>3, <1>4
     DEF IInv, Types, Fields, Upstreams, Bookkeeping, EndAnnounced, Whole, Reading,
         Settled
<1> QED BY <1>5, <1>6, <1>7, <1>8 DEF IInv

LEMMA DisconnectReadingStep ==
    ASSUME IInv, Disconnect, task = "read"
    PROVE  IInv'
<1>1. /\ client' = "gone" /\ UNCHANGED <<req, parser, gen, reserved, sent>>
      /\ LeaveFailing("over") /\ obs' = [obs EXCEPT !.failed = TRUE]
      /\ UNCHANGED <<slot, records, upstream>>
  BY DEF Disconnect
<1>2. /\ pending' = <<>> /\ pending' \in Seq(Chunk) /\ ~Announces(pending')
      /\ task' = "close" /\ after' = "over" /\ unwinding' \in BOOLEAN
  BY <1>1, ShortChunks DEF LeaveFailing, Leave
<1>3. Types'
  <2>1. req' \in Requests /\ records' \in Seq({"none", "good"})
    BY <1>1, <1>2 DEF IInv, Types
  <2>2. Fields'
    BY <1>1, <1>2 DEF IInv, Types, Fields, Observers
  <2>3. Chunks'
    BY <1>1, <1>2 DEF IInv, Types, Chunks
  <2> QED BY <2>1, <2>2, <2>3 DEF Types
<1>4. Bookkeeping'
  BY <1>1, <1>2 DEF IInv, Types, Fields, Upstreams, Bookkeeping, Reading, Settled
<1>5. ObserverKnows'
  BY <1>1, <1>2
     DEF IInv, Types, Fields, Upstreams, Observers, Bookkeeping, ObserverKnows,
         Reading, Settled
<1>6. EndAnnounced'
  BY <1>1, <1>2
     DEF IInv, Types, Fields, Upstreams, Bookkeeping, EndAnnounced, Whole, Reading,
         Settled
<1> QED BY <1>3, <1>4, <1>5, <1>6 DEF IInv

LEMMA DisconnectClosingStep ==
    ASSUME IInv, Disconnect, task = "close"
    PROVE  IInv'
<1>1. /\ client' = "gone" /\ UNCHANGED <<req, parser, gen, reserved, sent>>
      /\ Proceed("over", gen) /\ slot' = FALSE /\ Record("none")
      /\ upstream' = [upstream EXCEPT !.state = IF @ = "open" THEN "closed" ELSE @]
      /\ UNCHANGED <<unwinding, obs>>
  BY DEF Disconnect
<1>2. gen \in Gens
  BY DEF IInv, Types, Fields
<1>3. /\ pending' \in Seq(Chunk) /\ ~Announces(pending')
      /\ task' = "over" /\ after' = "none"
  BY <1>1, <1>2, ProceedFacts
<1>4. /\ records' = <<"none">> /\ records' # <<"good">>
      /\ Len(records') = 1 /\ records' \in Seq({"none", "good"})
  BY <1>1 DEF IInv, Bookkeeping, Record
<1>5. Types'
  <2>1. req' \in Requests /\ records' \in Seq({"none", "good"})
    BY <1>1, <1>2, <1>3, <1>4 DEF IInv, Types
  <2>2. Fields'
    BY <1>1, <1>2, <1>3, <1>4 DEF IInv, Types, Fields, Upstreams
  <2>3. Chunks'
    BY <1>1, <1>2, <1>3, <1>4 DEF IInv, Types, Chunks
  <2> QED BY <2>1, <2>2, <2>3 DEF Types
<1>6. Bookkeeping'
  BY <1>1, <1>2, <1>3, <1>4
     DEF IInv, Types, Fields, Upstreams, Bookkeeping, Reading, Settled
<1>7. ObserverKnows'
  BY <1>1, <1>2, <1>3, <1>4
     DEF IInv, Types, Fields, Upstreams, Observers, Bookkeeping, ObserverKnows,
         Reading, Settled
<1>8. EndAnnounced'
  BY <1>1, <1>2, <1>3, <1>4
     DEF IInv, Types, Fields, Upstreams, Bookkeeping, EndAnnounced, Whole, Reading,
         Settled
<1> QED BY <1>5, <1>6, <1>7, <1>8 DEF IInv

LEMMA DisconnectSendingStep ==
    ASSUME IInv, Disconnect, task = "send"
    PROVE  IInv'
<1>1. /\ client' = "gone" /\ UNCHANGED <<req, parser, gen, reserved, sent>>
      /\ task' = IF after = "read" THEN "adrift" ELSE "over"
      /\ pending' = <<>> /\ after' = "none"
      /\ UNCHANGED <<unwinding, obs, slot, records, upstream>>
  BY DEF Disconnect
<1>2. pending' \in Seq(Chunk) /\ ~Announces(pending')
  BY <1>1, ShortChunks
<1>3. Types'
  <2>1. req' \in Requests /\ records' \in Seq({"none", "good"})
    BY <1>1, <1>2 DEF IInv, Types
  <2>2. Fields'
    BY <1>1, <1>2 DEF IInv, Types, Fields
  <2>3. Chunks'
    BY <1>1, <1>2 DEF IInv, Types, Chunks
  <2> QED BY <2>1, <2>2, <2>3 DEF Types
<1>4. Bookkeeping'
  BY <1>1, <1>2 DEF IInv, Types, Fields, Upstreams, Bookkeeping, Reading, Settled
<1>5. ObserverKnows'
  BY <1>1, <1>2
     DEF IInv, Types, Fields, Upstreams, Observers, Bookkeeping, ObserverKnows,
         Reading, Settled
<1>6. EndAnnounced'
  BY <1>1, <1>2
     DEF IInv, Types, Fields, Upstreams, Bookkeeping, EndAnnounced, Whole, Reading,
         Settled
<1> QED BY <1>3, <1>4, <1>5, <1>6 DEF IInv

LEMMA DisconnectStep == ASSUME IInv, Disconnect PROVE IInv'
<1>1. task \in {"begin", "slot", "admit", "connect", "read", "close", "send", "adrift"}
  BY DEF IInv, Types, Fields, Disconnect
<1>2. task # "adrift"
  BY DEF IInv, ObserverKnows, Disconnect
<1> QED
  BY <1>1, <1>2, DisconnectEarlyStep, DisconnectConnectingStep,
     DisconnectReadingStep,
     DisconnectClosingStep, DisconnectSendingStep

\* A stuttering step.
LEMMA Unchanged == ASSUME IInv, UNCHANGED vars PROVE IInv'
BY DEF IInv, Types, Fields, Chunks, Bookkeeping, ObserverKnows, EndAnnounced, Whole,
       Reading, Settled, vars

-----------------------------------------------------------------------------
(* Theorems.                                                               *)

\* The invariant is inductive.
LEMMA Inductive == IInv /\ [Next]_vars => IInv'
<1> SUFFICES ASSUME IInv, [Next]_vars PROVE IInv'
  OBVIOUS
<1>1. CASE ReadLine
  BY <1>1, ReadEventStep, ReadUnacceptableStep, ReadErrorStep, ReadJunkStep,
     ReadDoneStep
     DEF ReadLine
<1>2. CASE \/ Start \/ StartFails \/ TakeSlot \/ Admit \/ Refuse
           \/ Connect \/ ConnectFails \/ Rejected
  BY <1>2, StartStep, StartFailsStep, TakeSlotStep, AdmitStep, RefuseStep,
     ConnectStep, ConnectFailsStep, RejectedStep
<1>3. CASE \E e \in Replies : Reply(e)
  BY <1>3, ReplyStep
<1>4. CASE \E q \in {"none", "good"} : ReplyFails(q)
  BY <1>4, ReplyFailsStep
<1>5. CASE ReadEof \/ ReadFails \/ Close \/ Send \/ Finalize
  BY <1>5, ReadEofStep, ReadFailsStep, CloseStep, SendStep, FinalizeStep
<1>6. CASE Disconnect
  BY <1>6, DisconnectStep
<1>7. CASE UNCHANGED vars
  BY <1>7, Unchanged
<1> QED BY <1>1, <1>2, <1>3, <1>4, <1>5, <1>6, <1>7 DEF Next, Step

\* It holds initially.
LEMMA Initial == Init => IInv
<1> SUFFICES ASSUME Init PROVE IInv
  OBVIOUS
<1>1. Bookkeeping /\ ObserverKnows
  BY DEF Init, Bookkeeping, ObserverKnows, Reading, Settled
<1>2. EndAnnounced
  BY ShortChunks DEF Init, EndAnnounced, Settled
<1> QED BY <1>1, <1>2, InitTypes DEF IInv

\* So it holds in every state that is reached.
LEMMA Invariance == Spec => []IInv
BY Initial, Inductive, PTL DEF Spec

\* Every variable keeps its type, for bodies of any length and any set of tool
\* calls; in particular the observer never keeps counts that cannot be used.
THEOREM ChatTypes == Spec => []TypeOK
<1>1. IInv => TypeOK
  BY TypeParts DEF IInv
<1> QED BY <1>1, Invariance, PTL

\* The slot, the connection and the reservation are given back however the
\* request ends, and no slot is held while the body is read.
THEOREM ChatNothingLeftOpen == Spec => []NothingLeftOpen
<1>1. IInv => NothingLeftOpen
  BY DEF IInv, Types, Fields, Bookkeeping, Settled, NothingLeftOpen
<1> QED BY <1>1, Invariance, PTL

\* A client is told of the end only after the body was read to its end and the
\* reservation recorded.
THEOREM ChatFinishMeansWhole == Spec => []FinishMeansWhole
<1>1. ASSUME Finished PROVE Announces(sent)
  BY <1>1 DEF Finished, Received, Announces
<1>2. IInv => FinishMeansWhole
  BY <1>1 DEF IInv, Bookkeeping, EndAnnounced, FinishMeansWhole
<1> QED BY <1>2, Invariance, PTL

\* A reservation is recorded at most once, with a usage exactly when the whole
\* body came and its usage can be used, if the client was told of the end.
THEOREM ChatUsageFromWholeStream == Spec => []UsageFromWholeStream
<1>1. ASSUME Finished PROVE Announces(sent)
  BY <1>1 DEF Finished, Received, Announces
<1>2. ASSUME IInv, records # <<>> PROVE reserved /\ Len(records) = 1
  <2>1. Settled
    BY <1>2 DEF IInv, Types, Fields, Bookkeeping, Reading, Settled
  <2>2. Len(records) # 0
    BY <1>2 DEF IInv, Types
  <2> QED BY <1>2, <2>1, <2>2 DEF IInv, Bookkeeping
<1>3. ASSUME IInv, records = <<"good">> PROVE Whole
  BY <1>3 DEF IInv, Types, Fields, Bookkeeping, EndAnnounced, Reading, Settled
<1>4. ASSUME IInv, Finished, Whole PROVE records = <<"good">>
  BY <1>1, <1>4 DEF IInv, EndAnnounced
<1>5. IInv => UsageFromWholeStream
  BY <1>2, <1>3, <1>4 DEF UsageFromWholeStream, Whole
<1> QED BY <1>5, Invariance, PTL

-----------------------------------------------------------------------------
(* The grammar of an answer.                                               *)

Order == IF req.ingress = "openai" THEN OpenAIOrder ELSE AnthropicOrder

\* Stands for the chunk before the first one.
Nothing == Block("start", 0)

\* Chunk c may come right after p, under the order o.
Follows(o, p, c) ==
    /\ <<p.type, c.type>> \in o
    /\ c.type = "block_start" =>
          c.block = IF p.type = "message_start" THEN 0 ELSE p.block + 1
    /\ c.type \in {"block_delta", "block_stop"} => c.block = p.block

\* The chunks of s may come, one after the other, after p; the last one then.
Linked(o, p, s) == \A i \in 1..Len(s) : Follows(o, IF i = 1 THEN p ELSE s[i - 1], s[i])
EndOf(p, s) == IF s = <<>> THEN p ELSE s[Len(s)]

LastSent == EndOf(Nothing, sent)
LastMade == EndOf(LastSent, pending)

\* The generator, having made p last, remembers it as g and can go on.
GoesOn(p, g) ==
    IF g.first THEN p = Nothing
    ELSE IF req.ingress = "openai" THEN p.type \in {"role", "delta"}
    ELSE p.type = (IF g.text THEN "block_delta" ELSE "block_start") /\ p.block = 0

\* More chunks will be made.
Unfinished == \/ task \in {"begin", "slot", "admit", "connect", "read"}
              \/ task \in {"send", "close"} /\ after # "over"

\* What has been sent and what is to be sent are linked, and while more is to
\* come the last chunk is one that it can follow.
Grammar ==
    /\ Linked(Order, Nothing, sent) /\ Linked(Order, LastSent, pending)
    /\ Unfinished => GoesOn(LastMade, gen)
    /\ task # "send" => pending = <<>>
    /\ gen.first => ~gen.text /\ ~parser.tool

\* What the last chunk says of the blocks that have been sent.
Starts == Received("block_start")
Deltas == {sent[i].block : i \in Received("block_delta")}
Stops  == {sent[i].block : i \in Received("block_stop")}

Blocks ==
    /\ IsFiniteSet(Starts)
    /\ LastSent.type \in {"start", "message_start"} => Cardinality(Starts) = 0
    /\ LastSent.type \in {"block_start", "block_delta", "block_stop"} =>
          LastSent.block + 1 = Cardinality(Starts)
    /\ \A i \in Starts : sent[i].block = Cardinality({j \in Starts : j < i})
    /\ \A i \in Received("block_delta") \union Received("block_stop") :
          sent[i].block + 1 = Cardinality({j \in Starts : j < i})
    /\ Stops \subseteq Deltas
    /\ LastSent.type \notin {"error", "[DONE]"} =>
          Deltas \subseteq Stops \union
             (IF LastSent.type = "block_delta" THEN {LastSent.block} ELSE {})
    /\ Received("message_delta") # {} => LastSent.type \in {"message_delta", "message_stop"}

\* The calls must be announced.
Calling == /\ req.provider \in Native
           /\ gen.tools # {}
           /\ req.protocol = "responses" \/ parser.finish = "none"

Announced(s) == \A i \in DOMAIN s : s[i].type \in {"finish", "message_delta"} =>
                                        s[i].reason \in {"tool_calls", "tool_use"}

\* What stream_chat and the generator both know of the calls.
CallsKnown ==
    /\ req.provider \in Native /\ gen.tools # {} => parser.tool
    /\ req.protocol = "responses" /\ parser.finish # "none" =>
          parser.terminal /\ (gen.tools # {} => gen.finish = "tool_calls")

\* Where the reason comes from.
Reasons ==
    /\ CallsKnown
    /\ after = "tail" /\ Calling => gen.finish = "tool_calls"
    /\ Calling => Announced(sent) /\ Announced(pending)

Answer == Grammar /\ Blocks /\ Reasons

-----------------------------------------------------------------------------
(* Sequences of linked chunks.                                             *)

\* Of no chunk, one, and two sequences of them.
LEMMA LinkedNone ==
    ASSUME NEW o, NEW p
    PROVE  Linked(o, p, <<>>) /\ EndOf(p, <<>>) = p
BY DEF Linked, EndOf

LEMMA LinkedOne ==
    ASSUME NEW o, NEW p, NEW c, Follows(o, p, c)
    PROVE  Linked(o, p, <<c>>) /\ EndOf(p, <<c>>) = c
<1>1. Len(<<c>>) = 1 /\ <<c>>[1] = c /\ <<c>> # <<>>
  OBVIOUS
<1> QED BY <1>1 DEF Linked, EndOf

\* A sequence is empty when its length is 0.
LEMMA EmptyChunks == ASSUME NEW s \in Seq(Chunk) PROVE s = <<>> <=> Len(s) = 0
OBVIOUS

LEMMA LinkedConcat ==
    ASSUME NEW o, NEW p, NEW s \in Seq(Chunk), NEW t \in Seq(Chunk),
           Linked(o, p, s), Linked(o, EndOf(p, s), t)
    PROVE  Linked(o, p, s \o t) /\ EndOf(p, s \o t) = EndOf(EndOf(p, s), t)
<1> DEFINE u == s \o t
<1>1. /\ Len(s) \in Nat /\ Len(t) \in Nat /\ Len(u) = Len(s) + Len(t)
      /\ \A i \in 1..Len(s) : u[i] = s[i]
      /\ \A i \in 1..Len(t) : u[Len(s) + i] = t[i]
      /\ u \in Seq(Chunk)
      /\ s = <<>> <=> Len(s) = 0
      /\ t = <<>> <=> Len(t) = 0
      /\ u = <<>> <=> Len(u) = 0
  OBVIOUS
<1> HIDE DEF u
<1>2. ASSUME NEW i \in 1..Len(u)
      PROVE  Follows(o, IF i = 1 THEN p ELSE u[i - 1], u[i])
  <2>1. CASE i \in 1..Len(s)
    <3>1. i # 1 => i - 1 \in 1..Len(s)
      BY <1>1, <2>1
    <3> QED BY <1>1, <2>1, <3>1 DEF Linked
  <2>2. CASE i \notin 1..Len(s)
    <3> DEFINE j == i - Len(s)
    <3>1. j \in 1..Len(t) /\ i = Len(s) + j /\ u[i] = t[j]
      BY <1>1, <2>2
    <3>2. Follows(o, IF j = 1 THEN EndOf(p, s) ELSE t[j - 1], t[j])
      BY <3>1 DEF Linked
    <3>3. (IF i = 1 THEN p ELSE u[i - 1]) = (IF j = 1 THEN EndOf(p, s) ELSE t[j - 1])
      <4>1. CASE j = 1 /\ Len(s) = 0
        BY <1>1, <3>1, <4>1 DEF EndOf
      <4>2. CASE j = 1 /\ Len(s) # 0
        BY <1>1, <3>1, <4>2 DEF EndOf
      <4>3. CASE j # 1
        <5>1. j - 1 \in 1..Len(t) /\ i - 1 = Len(s) + (j - 1) /\ i # 1
          BY <1>1, <3>1, <4>3
        <5> QED BY <1>1, <4>3, <5>1
      <4> QED BY <4>1, <4>2, <4>3
    <3> QED BY <3>1, <3>2, <3>3
  <2> QED BY <2>1, <2>2
<1>3. EndOf(p, u) = EndOf(EndOf(p, s), t)
  <2>1. CASE Len(t) = 0
    <3>1. Len(u) = Len(s)
      BY <1>1, <2>1
    <3> QED BY <1>1, <2>1, <3>1 DEF EndOf
  <2>2. CASE Len(t) # 0
    BY <1>1, <2>2 DEF EndOf
  <2> QED BY <2>1, <2>2
<1> QED BY <1>2, <1>3 DEF Linked, u

\* Moving the first chunk from one sequence to the end of another.
LEMMA LinkedMove ==
    ASSUME NEW o, NEW p, NEW s \in Seq(Chunk), NEW t \in Seq(Chunk), t # <<>>,
           Linked(o, p, s), Linked(o, EndOf(p, s), t)
    PROVE  /\ Follows(o, EndOf(p, s), Head(t)) /\ Head(t) \in Chunk
           /\ Append(s, Head(t)) \in Seq(Chunk) /\ Tail(t) \in Seq(Chunk)
           /\ Linked(o, p, Append(s, Head(t)))
           /\ EndOf(p, Append(s, Head(t))) = Head(t)
           /\ Linked(o, Head(t), Tail(t))
           /\ EndOf(Head(t), Tail(t)) = EndOf(EndOf(p, s), t)
           /\ Len(t) = 1 => Tail(t) = <<>>
<1> DEFINE r == Tail(t)
<1>a. Len(t) \in Nat /\ Len(t) > 0 /\ Head(t) = t[1] /\ Head(t) \in Chunk
  OBVIOUS
<1>b. r \in Seq(Chunk) /\ Len(r) = Len(t) - 1
  OBVIOUS
<1>d. r = <<>> <=> Len(r) = 0
  BY <1>b, EmptyChunks
<1>c. \A i \in 1..Len(r) : r[i] = t[i + 1]
  OBVIOUS
<1>1. /\ Len(t) \in Nat /\ Len(t) > 0 /\ Head(t) = t[1] /\ Head(t) \in Chunk
      /\ r \in Seq(Chunk) /\ Len(r) = Len(t) - 1
      /\ \A i \in 1..Len(r) : r[i] = t[i + 1]
      /\ r = <<>> <=> Len(r) = 0
  BY <1>a, <1>b, <1>c, <1>d
<1>2. Follows(o, EndOf(p, s), Head(t))
  BY <1>1 DEF Linked
<1>3. Append(s, Head(t)) = s \o <<Head(t)>> /\ <<Head(t)>> \in Seq(Chunk)
  BY <1>1
<1>4. /\ Append(s, Head(t)) \in Seq(Chunk)
      /\ Linked(o, p, Append(s, Head(t)))
      /\ EndOf(p, Append(s, Head(t))) = Head(t)
  <2> DEFINE w == <<Head(t)>>
  <2>1. Linked(o, EndOf(p, s), w) /\ EndOf(EndOf(p, s), w) = Head(t)
    BY <1>2, LinkedOne
  <2>2. w \in Seq(Chunk) /\ Append(s, Head(t)) = s \o w
    BY <1>3
  <2> HIDE DEF w
  <2>3. Linked(o, p, s \o w) /\ EndOf(p, s \o w) = Head(t)
    BY <2>1, <2>2, LinkedConcat
  <2>4. s \o w \in Seq(Chunk)
    BY <2>2
  <2> QED BY <2>2, <2>3, <2>4
<1> HIDE DEF r
<1>5. Linked(o, Head(t), r)
  <2> SUFFICES ASSUME NEW i \in 1..Len(r)
               PROVE  Follows(o, IF i = 1 THEN Head(t) ELSE r[i - 1], r[i])
    BY DEF Linked
  <2>1. i + 1 \in 1..Len(t) /\ i + 1 # 1 /\ (i + 1) - 1 = i
    BY <1>1
  <2>2. Follows(o, t[i], t[i + 1])
    BY <2>1 DEF Linked
  <2>3. t[i] = IF i = 1 THEN Head(t) ELSE r[i - 1]
    <3>1. i # 1 => i - 1 \in 1..Len(r) /\ (i - 1) + 1 = i
      BY <1>1
    <3> QED BY <1>1, <3>1
  <2> QED BY <1>1, <2>2, <2>3
<1>6. EndOf(Head(t), r) = EndOf(EndOf(p, s), t)
  <2>1. CASE Len(t) = 1
    BY <1>1, <2>1 DEF EndOf
  <2>2. CASE Len(t) # 1
    <3>1. Len(r) \in 1..Len(r) /\ Len(r) + 1 = Len(t) /\ Len(r) # 0 /\ t # <<>>
      BY <1>1, <2>2
    <3> QED BY <1>1, <3>1 DEF EndOf
  <2> QED BY <2>1, <2>2
<1> QED BY <1>1, <1>2, <1>4, <1>5, <1>6 DEF r

-----------------------------------------------------------------------------
(* What is made is linked.                                                 *)

\* The orders, by what they say of one chunk after another.
LEMMA OpenAIPairs ==
    ASSUME req.ingress = "openai"
    PROVE  /\ \A t \in {"role", "error"} : <<"start", t>> \in Order
           /\ \A p \in {"role", "delta"}, t \in {"delta", "finish", "error"} :
                 <<p, t>> \in Order
           /\ <<"finish", IF req.includeUsage THEN "usage" ELSE "[DONE]">> \in Order
           /\ <<"usage", "[DONE]">> \in Order /\ <<"error", "[DONE]">> \in Order
BY DEF Order, OpenAIOrder

LEMMA AnthropicPairs ==
    ASSUME req.ingress = "anthropic"
    PROVE  /\ \A t \in {"message_start", "error"} : <<"start", t>> \in Order
           /\ <<"message_start", "block_start">> \in Order
           /\ \A p \in {"block_start", "block_stop"}, t \in {"block_start", "message_delta"} :
                 <<p, t>> \in Order
           /\ \A p \in {"block_start", "block_delta"}, t \in {"block_delta", "error"} :
                 <<p, t>> \in Order
           /\ <<"block_delta", "block_stop">> \in Order
           /\ <<"message_delta", "message_stop">> \in Order
BY DEF Order, AnthropicOrder

\* Chunks that are outside of any block may follow whatever their order says.
LEMMA PlainFollows ==
    ASSUME NEW o, NEW p, NEW t, NEW r, <<p.type, t>> \in o,
           t \notin {"block_start", "block_delta", "block_stop"}
    PROVE  Follows(o, p, Plain(t)) /\ Follows(o, p, Ending(t, r))
BY DEF Follows, Plain, Block, Ending

\* An Anthropic answer begins with its first block.
LEMMA StartLinked ==
    ASSUME req.ingress = "anthropic"
    PROVE  /\ Linked(Order, Nothing, StartChunks)
           /\ EndOf(Nothing, StartChunks) = Block("block_start", 0)
<1> DEFINE m == Plain("message_start")
           b == Block("block_start", 0)
<1>1. Follows(Order, Nothing, m)
  <2>1. Nothing.type = "start"
    BY DEF Nothing, Block
  <2> QED BY <2>1, AnthropicPairs, PlainFollows
<1>2. Follows(Order, m, b)
  <2>1. m.type = "message_start" /\ b.type = "block_start" /\ b.block = 0
    BY DEF Plain, Block
  <2> QED BY <2>1, AnthropicPairs DEF Follows
<1> HIDE DEF m, b
<1>3. /\ StartChunks = <<m, b>> /\ Len(<<m, b>>) = 2 /\ <<m, b>> # <<>>
      /\ <<m, b>>[1] = m /\ <<m, b>>[2] = b
  BY DEF StartChunks, m, b
<1> QED BY <1>1, <1>2, <1>3 DEF Linked, EndOf, b

\* An error can be sent wherever the generator could go on.
LEMMA ErrorLinked ==
    ASSUME req \in Requests, NEW p, NEW g, GoesOn(p, g)
    PROVE  Linked(Order, p, ErrorChunks)
<1> DEFINE e == Plain("error")
<1>1. <<p.type, "error">> \in Order
  <2>1. Nothing.type = "start"
    BY DEF Nothing, Block
  <2>2. req.ingress \in {"openai", "anthropic"}
    BY DEF Requests, Request
  <2> QED BY <2>1, <2>2, OpenAIPairs, AnthropicPairs DEF GoesOn
<1>2. Follows(Order, p, e) /\ e.type = "error"
  BY <1>1, PlainFollows DEF Plain, Block
<1>3. CASE req.ingress = "anthropic"
  BY <1>2, <1>3, LinkedOne DEF ErrorChunks
<1>4. CASE req.ingress # "anthropic"
  <2>1. Follows(Order, e, Done)
    <3>1. req.ingress = "openai"
      BY <1>4 DEF Requests, Request
    <3> QED BY <1>2, <3>1, OpenAIPairs, PlainFollows DEF Done
  <2> HIDE DEF e
  <2>2. /\ <<e, Done>>[1] = e /\ <<e, Done>>[2] = Done /\ Len(<<e, Done>>) = 2
    OBVIOUS
  <2> QED BY <1>2, <1>4, <2>1, <2>2 DEF ErrorChunks, Linked, e
<1> QED BY <1>3, <1>4

\* An event of the upstream leads from where the generator can go on to where it
\* can go on.
LEMMA EventLinked ==
    ASSUME req \in Requests, NEW g \in Gens, NEW e \in Event, NEW p, GoesOn(p, g),
           g.first => ~g.text
    PROVE  /\ Linked(Order, p, EventChunks(g, e))
           /\ GoesOn(EndOf(p, EventChunks(g, e)), Take(g, e))
<1>1. Take(g, e).first = FALSE /\ Take(g, e).text = (g.text \/ e.text)
  BY DEF Take
<1>2. Nothing.type = "start"
  BY DEF Nothing, Block
<1>3. CASE req.ingress = "anthropic"
  <2> DEFINE S == IF g.first THEN StartChunks ELSE <<>>
             d == Block("block_delta", 0)
             D == IF e.text THEN <<d>> ELSE <<>>
  <2>1. /\ Linked(Order, p, S)
        /\ EndOf(p, S).type = (IF g.text THEN "block_delta" ELSE "block_start")
        /\ EndOf(p, S).block = 0
    <3>1. Block("block_start", 0).type = "block_start" /\ Block("block_start", 0).block = 0
      BY DEF Block
    <3>2. CASE g.first
      BY <1>3, <3>1, <3>2, StartLinked DEF GoesOn
    <3>3. CASE ~g.first
      BY <1>3, <3>3, LinkedNone DEF GoesOn
    <3> QED BY <3>2, <3>3
  <2>2. S \in Seq(Chunk)
    BY StartChunksTyped
  <2>3. d \in Chunk /\ d.type = "block_delta" /\ d.block = 0
    BY BlockTyped DEF ChunkType, Reason, Block
  <2> DEFINE q == EndOf(p, S)
  <2>4. Follows(Order, q, d)
    <3>1. q.type \in {"block_start", "block_delta"} /\ q.block = 0
      BY <2>1
    <3> QED BY <1>3, <2>3, <3>1, AnthropicPairs DEF Follows
  <2> HIDE DEF q, d
  <2>5. /\ Linked(Order, q, D) /\ D \in Seq(Chunk)
        /\ EndOf(q, D) = IF e.text THEN d ELSE q
    BY <2>3, <2>4, LinkedOne, LinkedNone
  <2>6. EventChunks(g, e) = S \o D
    BY <1>3 DEF EventChunks, d
  <2> HIDE DEF S, D
  <2>7. Linked(Order, p, S \o D) /\ EndOf(p, S \o D) = EndOf(q, D)
    BY <2>1, <2>2, <2>5, LinkedConcat DEF q
  <2>8. GoesOn(EndOf(q, D), Take(g, e))
    BY <1>1, <1>3, <2>1, <2>3, <2>5 DEF GoesOn, q
  <2> QED BY <2>6, <2>7, <2>8
<1>4. CASE req.ingress # "anthropic"
  <2>1. req.ingress = "openai"
    BY <1>4 DEF Requests, Request
  <2>2. Plain("role").type = "role" /\ Plain("delta").type = "delta"
    BY DEF Plain, Block
  <2>3. CASE g.first
    <3>1. EventChunks(g, e) = <<Plain("role")>>
      BY <1>4, <2>3 DEF EventChunks
    <3>2. Follows(Order, p, Plain("role"))
      BY <1>2, <2>1, <2>3, OpenAIPairs, PlainFollows DEF GoesOn
    <3> QED BY <1>1, <2>1, <2>2, <3>1, <3>2, LinkedOne DEF GoesOn
  <2>4. CASE ~g.first /\ (e.text \/ e.calls # {})
    <3>1. EventChunks(g, e) = <<Plain("delta")>>
      BY <1>4, <2>4 DEF EventChunks
    <3>2. Follows(Order, p, Plain("delta"))
      BY <2>1, <2>4, OpenAIPairs, PlainFollows DEF GoesOn
    <3> QED BY <1>1, <2>1, <2>2, <3>1, <3>2, LinkedOne DEF GoesOn
  <2>5. CASE ~g.first /\ ~(e.text \/ e.calls # {})
    <3>1. EventChunks(g, e) = <<>>
      BY <1>4, <2>5 DEF EventChunks
    <3> QED BY <1>1, <2>1, <2>5, <3>1, LinkedNone DEF GoesOn
  <2> QED BY <2>3, <2>4, <2>5
<1> QED BY <1>3, <1>4

\* Counting by threes.
LEMMA Threes ==
    ASSUME NEW a \in Nat
    PROVE  /\ a % 3 \in {0, 1, 2} /\ a \div 3 \in Nat
           /\ a = 0 => a % 3 = 0 /\ a \div 3 = 0
           /\ a > 0 /\ a % 3 = 0 => (a - 1) % 3 = 2 /\ a \div 3 = ((a - 1) \div 3) + 1
           /\ a % 3 # 0 => (a - 1) % 3 = (a % 3) - 1 /\ (a - 1) \div 3 = a \div 3
OBVIOUS

\* The blocks of the tool calls, one by one.
LEMMA ToolBlockAt ==
    ASSUME NEW n \in Nat, NEW k \in 1..3 * n
    PROVE  /\ ToolBlocks(n)[k].block = ((k - 1) \div 3) + 1
           /\ (k - 1) % 3 = 0 => ToolBlocks(n)[k].type = "block_start"
           /\ (k - 1) % 3 = 1 => ToolBlocks(n)[k].type = "block_delta"
           /\ (k - 1) % 3 = 2 => ToolBlocks(n)[k].type = "block_stop"
<1> DEFINE T == <<"block_start", "block_delta", "block_stop">>
<1>1. T[1] = "block_start" /\ T[2] = "block_delta" /\ T[3] = "block_stop"
  OBVIOUS
<1> HIDE DEF T
<1>2. ToolBlocks(n)[k] = Block(T[((k - 1) % 3) + 1], ((k - 1) \div 3) + 1)
  BY DEF ToolBlocks, T
<1>3. /\ ToolBlocks(n)[k].type = T[((k - 1) % 3) + 1]
      /\ ToolBlocks(n)[k].block = ((k - 1) \div 3) + 1
  BY <1>2 DEF Block
<1>4. (k - 1) % 3 = 0 => ((k - 1) % 3) + 1 = 1
  OBVIOUS
<1>5. (k - 1) % 3 = 1 => ((k - 1) % 3) + 1 = 2
  OBVIOUS
<1>6. (k - 1) % 3 = 2 => ((k - 1) % 3) + 1 = 3
  OBVIOUS
<1> QED BY <1>1, <1>3, <1>4, <1>5, <1>6

\* They may follow the first block, closed or without content.
LEMMA ToolsLinked ==
    ASSUME req.ingress = "anthropic", NEW n \in Nat, NEW p,
           p.type \in {"block_start", "block_stop"}, p.block = 0
    PROVE  /\ Linked(Order, p, ToolBlocks(n))
           /\ EndOf(p, ToolBlocks(n)).type \in {"block_start", "block_stop"}
<1> DEFINE s == ToolBlocks(n)
<1>1. s \in Seq(Chunk) /\ Len(s) = 3 * n
  <2>1. s \in Seq(Chunk)
    BY ToolBlocksTyped
  <2>2. DOMAIN s = 1..3 * n
    BY DEF ToolBlocks
  <2> HIDE DEF s
  <2>3. DOMAIN s = 1..Len(s) /\ Len(s) \in Nat
    BY <2>1
  <2> QED BY <2>1, <2>2, <2>3
<1>2. ASSUME NEW k \in 1..Len(s)
      PROVE  /\ k - 1 \in Nat /\ s[k].block = ((k - 1) \div 3) + 1
             /\ (k - 1) % 3 = 0 => s[k].type = "block_start"
             /\ (k - 1) % 3 = 1 => s[k].type = "block_delta"
             /\ (k - 1) % 3 = 2 => s[k].type = "block_stop"
  BY <1>1, ToolBlockAt
<1> HIDE DEF s
<1>3. ASSUME NEW k \in 1..Len(s)
      PROVE  Follows(Order, IF k = 1 THEN p ELSE s[k - 1], s[k])
  <2>1. CASE k = 1
    <3>1. s[k].type = "block_start" /\ s[k].block = 1
      BY <1>2, <2>1, Threes
    <3>2. <<p.type, "block_start">> \in Order
      BY AnthropicPairs
    <3> QED BY <2>1, <3>1, <3>2 DEF Follows
  <2>2. CASE k # 1
    <3> DEFINE q == s[k - 1]
               a == k - 1
    <3>1. a \in Nat /\ a > 0 /\ a \in 1..Len(s)
      BY <1>1, <2>2
    <3>2. /\ q.block = ((a - 1) \div 3) + 1
          /\ (a - 1) % 3 = 0 => q.type = "block_start"
          /\ (a - 1) % 3 = 1 => q.type = "block_delta"
          /\ (a - 1) % 3 = 2 => q.type = "block_stop"
      BY <1>2, <3>1
    <3>3. /\ s[k].block = (a \div 3) + 1
          /\ a % 3 = 0 => s[k].type = "block_start"
          /\ a % 3 = 1 => s[k].type = "block_delta"
          /\ a % 3 = 2 => s[k].type = "block_stop"
      BY <1>2
    <3> HIDE DEF q, a
    <3>4. CASE a % 3 = 0
      <4>1. q.type = "block_stop" /\ s[k].type = "block_start" /\ s[k].block = q.block + 1
        BY <3>1, <3>2, <3>3, <3>4, Threes
      <4> QED BY <1>3, <2>2, <4>1, AnthropicPairs DEF Follows, q
    <3>5. CASE a % 3 = 1
      <4>1. q.type = "block_start" /\ s[k].type = "block_delta" /\ s[k].block = q.block
        BY <3>1, <3>2, <3>3, <3>5, Threes
      <4> QED BY <1>3, <2>2, <4>1, AnthropicPairs DEF Follows, q
    <3>6. CASE a % 3 = 2
      <4>1. q.type = "block_delta" /\ s[k].type = "block_stop" /\ s[k].block = q.block
        BY <3>1, <3>2, <3>3, <3>6, Threes
      <4> QED BY <1>3, <2>2, <4>1, AnthropicPairs DEF Follows, q
    <3>7. a % 3 \in {0, 1, 2}
      BY <3>1, Threes
    <3>8. (IF k = 1 THEN p ELSE s[k - 1]) = s[k - 1]
      BY <2>2
    <3> QED BY <2>2, <3>4, <3>5, <3>6, <3>7, <3>8
  <2> QED BY <2>1, <2>2
<1>4. EndOf(p, s).type \in {"block_start", "block_stop"}
  <2>1. CASE n = 0
    <3>1. s = <<>>
      BY <1>1, <2>1, EmptyChunks
    <3> QED BY <3>1 DEF EndOf
  <2>2. CASE n # 0
    <3>1. s # <<>> /\ 3 * n \in 1..Len(s) /\ (3 * n - 1) % 3 = 2
      BY <1>1, <2>2, EmptyChunks
    <3> QED BY <1>1, <1>2, <3>1 DEF EndOf
  <2> QED BY <2>1, <2>2
<1> QED BY <1>3, <1>4 DEF Linked, s

\* The end of an answer can be sent where the generator could go on.
LEMMA TailLinked ==
    ASSUME req \in Requests, NEW g \in Gens, NEW p, GoesOn(p, g), g.first => ~g.text
    PROVE  Linked(Order, p, TailChunks(g))
<1>1. Nothing.type = "start"
  BY DEF Nothing, Block
<1>2. \A r \in Reason : Ending("finish", r) \in Chunk /\ Ending("message_delta", r) \in Chunk
  BY BlockTyped DEF ChunkType
<1>3. CASE req.ingress = "anthropic"
  <2> DEFINE A == IF g.first THEN StartChunks ELSE <<>>
             b == Block("block_stop", 0)
             B == IF g.text THEN <<b>> ELSE <<>>
             C == ToolBlocks(Cardinality(g.tools))
             why == IF g.finish = "tool_calls" THEN "tool_use" ELSE "end_turn"
             m == Ending("message_delta", why)
             z == Plain("message_stop")
  <2>1. /\ A \in Seq(Chunk) /\ Linked(Order, p, A)
        /\ EndOf(p, A).type = (IF g.text THEN "block_delta" ELSE "block_start")
        /\ EndOf(p, A).block = 0
    <3>1. Block("block_start", 0).type = "block_start" /\ Block("block_start", 0).block = 0
      BY DEF Block
    <3>2. CASE g.first
      BY <1>3, <3>1, <3>2, StartLinked, StartChunksTyped DEF GoesOn
    <3>3. CASE ~g.first
      BY <1>3, <3>3, LinkedNone DEF GoesOn
    <3> QED BY <3>2, <3>3
  <2>2. b \in Chunk /\ b.type = "block_stop" /\ b.block = 0
    BY BlockTyped DEF ChunkType, Reason, Block
  <2> DEFINE q == EndOf(p, A)
  <2> HIDE DEF b
  <2>3. /\ B \in Seq(Chunk) /\ Linked(Order, q, B)
        /\ EndOf(q, B).type \in {"block_start", "block_stop"} /\ EndOf(q, B).block = 0
    <3>1. CASE g.text
      <4>1. Follows(Order, q, b)
        BY <1>3, <2>1, <2>2, <3>1, AnthropicPairs DEF Follows
      <4> HIDE DEF q
      <4> QED BY <2>2, <3>1, <4>1, LinkedOne
    <3>2. CASE ~g.text
      <4> HIDE DEF A
      <4> QED BY <2>1, <3>2, LinkedNone
    <3> QED BY <3>1, <3>2
  <2> DEFINE u == EndOf(q, B)
  <2>4. /\ C \in Seq(Chunk) /\ Linked(Order, u, C)
        /\ EndOf(u, C).type \in {"block_start", "block_stop"}
    <3>1. g.tools \subseteq Tools
      BY DEF Gens
    <3>2. Cardinality(g.tools) \in Nat
      BY <3>1, StreamAssumption, FS_Subset, FS_CardinalityType
    <3> HIDE DEF u
    <3>3. u.type \in {"block_start", "block_stop"} /\ u.block = 0
      BY <2>3 DEF u
    <3> QED BY <1>3, <3>2, <3>3, ToolsLinked, ToolBlocksTyped
  <2> DEFINE v == EndOf(u, C)
  <2>5. /\ m \in Chunk /\ z \in Chunk
        /\ Follows(Order, v, m) /\ Follows(Order, m, z)
    <3>1. m \in Chunk /\ z \in Chunk /\ m.type = "message_delta"
      BY <1>2, BlockTyped DEF Reason, ChunkType, Ending
    <3> HIDE DEF v, m, why
    <3>2. v.type \in {"block_start", "block_stop"}
      BY <2>4 DEF v
    <3>3. <<v.type, "message_delta">> \in Order /\ <<m.type, "message_stop">> \in Order
      BY <1>3, <3>1, <3>2, AnthropicPairs
    <3>4. Follows(Order, v, m)
      BY <3>3, PlainFollows DEF m
    <3> QED BY <3>1, <3>3, <3>4, PlainFollows
  <2>6. TailChunks(g) = ((A \o B) \o C) \o <<m, z>>
    BY <1>3 DEF TailChunks, b
  <2> HIDE DEF A, B, C, m, z, why
  <2>7. /\ A \o B \in Seq(Chunk) /\ Linked(Order, p, A \o B)
        /\ EndOf(p, A \o B) = u
    BY <2>1, <2>3, LinkedConcat
  <2> HIDE DEF u, q
  <2>8. /\ (A \o B) \o C \in Seq(Chunk) /\ Linked(Order, p, (A \o B) \o C)
        /\ EndOf(p, (A \o B) \o C) = v
    <3> DEFINE R == A \o B
    <3>1. R \in Seq(Chunk) /\ Linked(Order, p, R) /\ EndOf(p, R) = u
      BY <2>7
    <3> HIDE DEF R
    <3>2. Linked(Order, p, R \o C) /\ EndOf(p, R \o C) = EndOf(u, C)
      BY <2>4, <3>1, LinkedConcat
    <3>3. R \o C \in Seq(Chunk)
      BY <2>4, <3>1
    <3> QED BY <3>2, <3>3 DEF R
  <2> HIDE DEF v
  <2> DEFINE E == <<m, z>>
             K == (A \o B) \o C
  <2>9. E \in Seq(Chunk) /\ Linked(Order, v, E)
    <3>1. E \in Seq(Chunk) /\ Len(E) = 2 /\ E[1] = m /\ E[2] = z
      BY <2>5
    <3> HIDE DEF E
    <3> QED BY <2>5, <3>1 DEF Linked
  <2> HIDE DEF E, K
  <2>10. K \in Seq(Chunk) /\ Linked(Order, p, K) /\ EndOf(p, K) = v
    BY <2>8 DEF K
  <2>11. Linked(Order, p, K \o E)
    BY <2>9, <2>10, LinkedConcat
  <2> QED BY <2>6, <2>11 DEF K, E
<1>4. CASE req.ingress # "anthropic"
  <2>1. req.ingress = "openai"
    BY <1>4 DEF Requests, Request
  <2> DEFINE a == Plain("role")
             A == IF g.first THEN <<a>> ELSE <<>>
             why == IF g.finish = "none" THEN "stop" ELSE g.finish
             f == Ending("finish", why)
             n == Plain("usage")
             C == IF req.includeUsage THEN <<n>> ELSE <<>>
  <2>2. /\ a \in Chunk /\ a.type = "role" /\ n \in Chunk /\ n.type = "usage"
        /\ f \in Chunk /\ f.type = "finish" /\ Done \in Chunk
    <3>1. why \in Reason
      BY DEF Gens, Finishings, Reason
    <3>2. f.type = "finish" /\ a.type = "role" /\ n.type = "usage"
      BY DEF Ending, Plain, Block
    <3> QED BY <1>2, <3>1, <3>2, BlockTyped DEF ChunkType, Reason, Done
  <2>3. TailChunks(g) = ((A \o <<f>>) \o C) \o <<Done>>
    BY <1>4 DEF TailChunks
  <2>4. Follows(Order, p, a) \/ ~g.first
    BY <1>1, <2>1, OpenAIPairs, PlainFollows DEF GoesOn
  <2> HIDE DEF a
  <2>5. /\ A \in Seq(Chunk) /\ Linked(Order, p, A)
        /\ EndOf(p, A).type \in {"role", "delta"}
    BY <2>1, <2>2, <2>4, LinkedOne, LinkedNone DEF GoesOn
  <2> DEFINE q == EndOf(p, A)
  <2>6. Follows(Order, q, f)
    <3>1. <<q.type, "finish">> \in Order
      BY <2>1, <2>5, OpenAIPairs
    <3> HIDE DEF q
    <3> QED BY <3>1, PlainFollows
  <2> HIDE DEF A, f, q
  <2> DEFINE F == <<f>>
             D == <<Done>>
  <2>7. F \in Seq(Chunk) /\ Linked(Order, q, F) /\ EndOf(q, F) = f
    BY <2>2, <2>6, LinkedOne
  <2>8. /\ C \in Seq(Chunk) /\ Linked(Order, f, C)
        /\ <<EndOf(f, C).type, "[DONE]">> \in Order
    <3>1. CASE req.includeUsage
      <4>1. Follows(Order, f, n)
        BY <2>1, <2>2, <3>1, OpenAIPairs, PlainFollows
      <4> HIDE DEF n
      <4>2. /\ Linked(Order, f, <<n>>) /\ EndOf(f, <<n>>) = n
            /\ <<n>> \in Seq(Chunk) /\ C = <<n>>
        BY <2>2, <3>1, <4>1, LinkedOne
      <4> HIDE DEF C
      <4> QED BY <2>1, <2>2, <4>2, OpenAIPairs
    <3>2. CASE ~req.includeUsage
      <4>1. C = <<>>
        BY <3>2
      <4>2. C \in Seq(Chunk) /\ Linked(Order, f, C) /\ EndOf(f, C) = f
        BY <4>1, LinkedNone
      <4>3. <<f.type, "[DONE]">> \in Order
        BY <2>1, <2>2, <3>2, OpenAIPairs
      <4> HIDE DEF C
      <4> QED BY <4>2, <4>3
    <3> QED BY <3>1, <3>2
  <2> DEFINE u == EndOf(f, C)
  <2>9. D \in Seq(Chunk) /\ Linked(Order, u, D)
    <3> HIDE DEF u
    <3>1. Follows(Order, u, Done)
      BY <2>8, PlainFollows DEF Done, u
    <3> QED BY <2>2, <3>1, LinkedOne
  <2> HIDE DEF F, C, D, u
  <2>10. /\ A \o F \in Seq(Chunk) /\ Linked(Order, p, A \o F)
         /\ EndOf(p, A \o F) = f
    BY <2>5, <2>7, LinkedConcat DEF q
  <2>11. /\ (A \o F) \o C \in Seq(Chunk) /\ Linked(Order, p, (A \o F) \o C)
         /\ EndOf(p, (A \o F) \o C) = u
    <3> DEFINE R == A \o F
    <3>1. R \in Seq(Chunk) /\ Linked(Order, p, R) /\ EndOf(p, R) = f
      BY <2>10
    <3> HIDE DEF R
    <3>2. Linked(Order, p, R \o C) /\ EndOf(p, R \o C) = EndOf(f, C)
      BY <2>8, <3>1, LinkedConcat
    <3>3. R \o C \in Seq(Chunk)
      BY <2>8, <3>1
    <3> QED BY <3>2, <3>3 DEF R, u
  <2>12. Linked(Order, p, ((A \o F) \o C) \o D)
    BY <2>9, <2>11, LinkedConcat
  <2> QED BY <2>3, <2>12 DEF F, D
<1> QED BY <1>3, <1>4

-----------------------------------------------------------------------------
(* The grammar is kept.                                                    *)

\* What a step must do to keep the grammar, unless it sends a chunk.
LEMMA MadeKeeps ==
    ASSUME Grammar, sent' = sent, req' = req,
           Linked(Order, LastSent, pending'),
           Unfinished' => GoesOn(EndOf(LastSent, pending'), gen'),
           task' # "send" => pending' = <<>>,
           gen'.first => ~gen'.text /\ ~parser'.tool
    PROVE  Grammar'
<1>1. Order' = Order
  BY DEF Order, OpenAIOrder, AnthropicOrder
<1>2. LastSent' = LastSent
  BY DEF LastSent
<1>3. LastMade' = EndOf(LastSent, pending')
  BY <1>2 DEF LastMade
<1>4. Unfinished' => GoesOn(LastMade, gen)'
  BY <1>3 DEF GoesOn
<1> QED BY <1>1, <1>2, <1>4 DEF Grammar

\* It may make nothing,
LEMMA NothingMade ==
    ASSUME Grammar, UNCHANGED <<req, sent, gen>>, pending' = <<>>,
           Unfinished' => Unfinished /\ pending = <<>>,
           gen.first => ~parser'.tool
    PROVE  Grammar'
<1>1. Unfinished' => GoesOn(EndOf(LastSent, pending'), gen')
  BY LinkedNone DEF Grammar, LastMade
<1>2. Linked(Order, LastSent, pending')
  BY LinkedNone
<1> QED BY <1>1, <1>2, MadeKeeps DEF Grammar

\* go on to the next line or to the end of the answer,
LEMMA ProceedLinked ==
    ASSUME req \in Requests, NEW g \in Gens, g.first => ~g.text, NEW p, NEW next,
           Proceed(next, g), next # "over" => GoesOn(p, g)
    PROVE  /\ Linked(Order, p, pending')
           /\ task' # "send" => pending' = <<>>
           /\ next = "read" => EndOf(p, pending') = p
           /\ next # "read" => ~Unfinished'
<1>1. CASE next \in {"read", "over"}
  BY <1>1, LinkedNone DEF Proceed, Unfinished
<1>2. CASE next = "tail"
  BY <1>2, TailLinked DEF Proceed, Unfinished
<1>3. CASE next = "error"
  BY <1>3, ErrorLinked DEF Proceed, Unfinished
<1> QED BY <1>1, <1>2, <1>3 DEF Proceed

LEMMA ProceedKeeps ==
    ASSUME Types, Grammar, pending = <<>>, UNCHANGED <<req, sent, gen, parser>>,
           NEW next, Proceed(next, gen), next # "over" => Unfinished
    PROVE  Grammar'
<1>1. gen \in Gens /\ req \in Requests
  BY DEF Types, Fields
<1>2. gen.first => ~gen.text /\ ~parser.tool
  BY DEF Grammar
<1>3. next # "over" => GoesOn(LastSent, gen)
  BY LinkedNone DEF Grammar, LastMade
<1>4. /\ Linked(Order, LastSent, pending')
      /\ task' # "send" => pending' = <<>>
      /\ next = "read" => EndOf(LastSent, pending') = LastSent
      /\ next # "read" => ~Unfinished'
  BY <1>1, <1>2, <1>3, ProceedLinked
<1>5. Unfinished' => GoesOn(EndOf(LastSent, pending'), gen')
  BY <1>3, <1>4
<1> QED BY <1>2, <1>4, <1>5, MadeKeeps

\* or hand an event to the generator.
LEMMA YieldKeeps ==
    ASSUME Types, Grammar, Unfinished, pending = <<>>, UNCHANGED <<req, sent>>,
           NEW e \in Event, NEW next \in {"read", "tail"}, Yield(e, next)
    PROVE  Grammar'
<1>1. gen \in Gens /\ req \in Requests
  BY DEF Types, Fields
<1>2. gen.first => ~gen.text
  BY DEF Grammar
<1>3. GoesOn(LastSent, gen)
  BY LinkedNone DEF Grammar, LastMade
<1>4. /\ Linked(Order, LastSent, EventChunks(gen, e))
      /\ GoesOn(EndOf(LastSent, EventChunks(gen, e)), gen')
      /\ gen' \in Gens /\ ~gen'.first
  <2>1. gen' = Take(gen, e) /\ ~gen'.first
    BY DEF Yield, Take
  <2> QED BY <1>1, <1>2, <1>3, <2>1, EventLinked, TakeTyped
<1>5. CASE EventChunks(gen, e) = <<>>
  <2>1. Proceed(next, gen')
    BY <1>5 DEF Yield
  <2>2. GoesOn(LastSent, gen')
    BY <1>4, <1>5, LinkedNone
  <2>3. /\ Linked(Order, LastSent, pending')
        /\ task' # "send" => pending' = <<>>
        /\ next = "read" => EndOf(LastSent, pending') = LastSent
        /\ next # "read" => ~Unfinished'
    BY <1>1, <1>4, <2>1, <2>2, ProceedLinked
  <2>4. Unfinished' => GoesOn(EndOf(LastSent, pending'), gen')
    BY <2>2, <2>3
  <2> QED BY <1>4, <2>3, <2>4, MadeKeeps
<1>6. CASE EventChunks(gen, e) # <<>>
  <2>1. task' = "send" /\ pending' = EventChunks(gen, e)
    BY <1>6 DEF Yield
  <2> QED BY <1>4, <2>1, MadeKeeps
<1> QED BY <1>5, <1>6

\* The end of the body makes nothing, and adds a reason only to an answer that
\* has begun.
LEMMA EndOfBodyKeeps ==
    ASSUME Types, Grammar, task = "read", UNCHANGED <<req, sent>>,
           NEW p, p.tool = parser.tool, parser'.tool = parser.tool, EndOfBody(p)
    PROVE  Grammar'
<1>1. pending = <<>> /\ Unfinished /\ (gen.first => ~gen.text /\ ~parser.tool)
  BY DEF Grammar, Unfinished
<1>2. CASE req.provider = "jetbrains" /\ ~p.terminal
  <2>1. LeaveFailing("error") /\ gen' = gen
    BY <1>2 DEF EndOfBody
  <2> QED BY <1>1, <2>1, NothingMade DEF LeaveFailing, Leave
<1>3. CASE ~(req.provider = "jetbrains" /\ ~p.terminal)
  <2>1. /\ Leave("tail")
        /\ gen' = IF req.provider \in Native /\ p.tool /\ p.finish = "none"
                    THEN Take(gen, Finish("tool_calls")) ELSE gen
    BY <1>3 DEF EndOfBody
  <2>2. pending' = <<>>
    BY <2>1 DEF Leave
  <2>3. CASE gen' = gen
    BY <1>1, <2>2, <2>3, NothingMade
  <2>4. CASE p.tool /\ gen' = Take(gen, Finish("tool_calls"))
    <3>1. ~gen.first /\ ~gen'.first
      BY <1>1, <2>4 DEF Take
    <3>2. gen'.text = gen.text
      <4>1. Finish("tool_calls").text = FALSE
        BY DEF Finish, Blank
      <4>2. gen.text \in BOOLEAN
        BY DEF Types, Fields, Gens
      <4> QED BY <2>4, <4>1, <4>2 DEF Take
    <3>3. GoesOn(LastSent, gen)
      BY <1>1, LinkedNone DEF Grammar, LastMade
    <3>4. GoesOn(LastSent, gen')
      BY <3>1, <3>2, <3>3 DEF GoesOn
    <3>5. Linked(Order, LastSent, pending') /\ EndOf(LastSent, pending') = LastSent
      BY <2>2, LinkedNone
    <3> QED BY <2>2, <3>1, <3>4, <3>5, MadeKeeps
  <2> QED BY <2>1, <2>3, <2>4
<1> QED BY <1>2, <1>3

\* Sending moves a chunk from one part to the other.
LEMMA SendKeeps ==
    ASSUME Types, Types', Grammar, pending # <<>>, Send
    PROVE  Grammar'
<1>1. /\ sent \in Seq(Chunk) /\ pending \in Seq(Chunk) /\ gen \in Gens /\ req \in Requests
  BY DEF Types, Fields, Chunks
<1>2. /\ sent' = Append(sent, Head(pending))
      /\ UNCHANGED <<req, gen, parser>> /\ task = "send"
  BY DEF Send
<1> DEFINE h == Head(pending)
           r == Tail(pending)
<1>3. /\ Linked(Order, Nothing, Append(sent, h))
      /\ EndOf(Nothing, Append(sent, h)) = h
      /\ Linked(Order, h, r) /\ EndOf(h, r) = LastMade
      /\ Len(pending) = 1 => r = <<>>
  BY <1>1, LinkedMove DEF Grammar, LastSent, LastMade
<1> HIDE DEF h, r
<1>4. Order' = Order
  BY <1>2 DEF Order, OpenAIOrder, AnthropicOrder
<1>5. LastSent' = h
  BY <1>2, <1>3 DEF LastSent, h
<1>6. Linked(Order, Nothing, sent)'
  BY <1>2, <1>3, <1>4 DEF h
<1>7. gen.first => ~gen.text /\ ~parser.tool
  BY DEF Grammar
<1>8. CASE Len(pending) > 1
  <2>1. pending' = r /\ UNCHANGED <<task, after>>
    BY <1>8 DEF Send, r
  <2>2. Unfinished' = Unfinished /\ LastMade' = LastMade
    BY <1>3, <1>5, <2>1 DEF Unfinished, LastMade
  <2>3. Unfinished' => GoesOn(LastMade', gen')
    BY <1>2, <2>2 DEF Grammar
  <2>4. (Unfinished => GoesOn(LastMade, gen))'
    BY <1>2, <2>3 DEF GoesOn
  <2> QED BY <1>2, <1>3, <1>4, <1>5, <1>6, <1>7, <2>1, <2>4 DEF Grammar
<1>9. CASE ~(Len(pending) > 1)
  <2>1. Proceed(after, gen)
    BY <1>9 DEF Send
  <2>2. LastMade = h
    <3>1. Len(pending) = 1
      <4>1. Len(pending) # 0 /\ Len(pending) \in Nat
        BY <1>1, EmptyChunks
      <4> QED BY <1>9, <4>1
    <3> QED BY <1>3, <3>1, LinkedNone
  <2>3. (gen.first => ~gen.text) /\ (after # "over" => GoesOn(h, gen))
    BY <1>2, <1>7, <2>2 DEF Grammar, Unfinished
  <2>4. /\ Linked(Order, h, pending')
        /\ task' # "send" => pending' = <<>>
        /\ after = "read" => EndOf(h, pending') = h
        /\ after # "read" => ~Unfinished'
    BY <1>1, <2>1, <2>3, ProceedLinked DEF Proceed
  <2>5. Unfinished' => GoesOn(EndOf(h, pending'), gen')
    BY <1>2, <2>3, <2>4
  <2>6. LastMade' = EndOf(h, pending')
    BY <1>5 DEF LastMade
  <2>7. (Unfinished => GoesOn(LastMade, gen))'
    BY <1>2, <2>5, <2>6 DEF GoesOn
  <2> QED BY <1>2, <1>4, <1>5, <1>6, <1>7, <2>4, <2>7 DEF Grammar
<1> QED BY <1>8, <1>9

\* Where nothing is being sent, nothing is left to be sent.
LEMMA NothingPending ==
    ASSUME Grammar, task # "send"
    PROVE  pending = <<>> /\ (gen.first => ~parser.tool)
BY DEF Grammar

\* Which the actions do, up to the headers, on a reply, on the lines of a body
\* and where the stream is left.
LEMMA UpToTheHeadersKeeps ==
    ASSUME Types, Grammar,
           \/ Start \/ StartFails \/ TakeSlot \/ Admit \/ Refuse
           \/ Connect \/ ConnectFails \/ Rejected
           \/ (\E q \in {"none", "good"} : ReplyFails(q))
    PROVE  Grammar'
<1>1. ASSUME Start \/ TakeSlot \/ Admit PROVE Grammar'
  <2>1. /\ task \in {"begin", "slot", "admit"} /\ pending' = pending
        /\ UNCHANGED <<req, sent, gen, parser>>
    BY <1>1 DEF Start, TakeSlot, Admit
  <2> QED BY <2>1, NothingPending, NothingMade DEF Unfinished
<1>2. ASSUME StartFails PROVE Grammar'
  <2>1. task = "begin" /\ UNCHANGED <<req, sent, gen, parser>>
    BY <1>2 DEF StartFails
  <2>2. pending = <<>> /\ Unfinished
    BY <2>1, NothingPending DEF Unfinished
  <2>3. Proceed("error", gen) \/ Proceed("over", gen)
    BY <1>2 DEF StartFails
  <2> QED BY <2>1, <2>2, <2>3, ProceedKeeps
<1>3. ASSUME \/ Refuse \/ Connect \/ ConnectFails
             \/ (\E q \in {"none", "good"} : ReplyFails(q))
      PROVE  Grammar'
  <2>1. /\ task \in {"admit", "connect"} /\ UNCHANGED <<req, sent, gen, parser>>
        /\ Proceed("error", gen) \/ Proceed("read", gen)
    BY <1>3 DEF Refuse, Connect, ConnectFails, ReplyFails
  <2>2. pending = <<>> /\ Unfinished
    BY <2>1, NothingPending DEF Unfinished
  <2> QED BY <2>1, <2>2, ProceedKeeps
<1>4. ASSUME Rejected PROVE Grammar'
  <2>1. /\ task = "connect" /\ pending' = <<>> /\ UNCHANGED <<req, sent, gen, parser>>
    BY <1>4 DEF Rejected, LeaveFailing, Leave
  <2> QED BY <2>1, NothingPending, NothingMade DEF Unfinished
<1> QED BY <1>1, <1>2, <1>3, <1>4

LEMMA ReplyKeeps ==
    ASSUME Types, Grammar, NEW e \in Replies, Reply(e)
    PROVE  Grammar'
<1>1. e \in Event /\ task = "connect" /\ UNCHANGED <<req, sent>> /\ Yield(e, "tail")
  BY DEF Replies, Reply
<1>2. pending = <<>> /\ Unfinished
  BY <1>1, NothingPending DEF Unfinished
<1> QED BY <1>1, <1>2, YieldKeeps

LEMMA ReadEventKeeps ==
    ASSUME Types, Grammar, NEW e \in Events, ReadEvent(e)
    PROVE  Grammar'
<1> DEFINE seen == Parsed(parser, e)
<1>1. e \in Event /\ seen \in Event
  BY EventsTyped, TypeParts, ParsedTyped DEF Types, Fields
<1>2. /\ task = "read" /\ UNCHANGED <<req, sent>> /\ parser' = Remember(parser, seen)
      /\ IF Passes(seen) THEN Yield(seen, "read")
         ELSE UNCHANGED <<task, pending, after, gen>>
  BY DEF ReadEvent, Receive
<1> HIDE DEF seen
<1>3. pending = <<>> /\ Unfinished /\ (gen.first => ~parser.tool)
  BY <1>2, NothingPending DEF Unfinished
<1>4. CASE Passes(seen)
  BY <1>1, <1>2, <1>3, <1>4, YieldKeeps
<1>5. CASE ~Passes(seen)
  <2>1. seen.calls = {} /\ parser'.tool = parser.tool
    <3>1. seen = Blank /\ Blank.calls = {}
      BY <1>5 DEF Passes, Blank
    <3>2. parser.tool \in BOOLEAN
      BY DEF Types, Fields, Parsers
    <3> QED BY <1>2, <3>1, <3>2 DEF Remember
  <2> QED BY <1>2, <1>3, <1>5, <2>1, NothingMade
<1> QED BY <1>4, <1>5

LEMMA ReadingKeeps ==
    ASSUME Types, Grammar,
           \/ (\E e \in Events : ReadUnacceptable(e))
           \/ ReadError \/ ReadJunk \/ ReadDone \/ ReadEof \/ ReadFails
    PROVE  Grammar'
<1>1. task = "read" /\ UNCHANGED <<req, sent>>
  BY DEF ReadUnacceptable, ReadError, ReadJunk, ReadDone, ReadEof, ReadFails, Receive
<1>2. pending = <<>> /\ Unfinished /\ (gen.first => ~parser.tool)
  BY <1>1, NothingPending DEF Unfinished
<1>3. ASSUME (\E e \in Events : ReadUnacceptable(e)) \/ ReadFails PROVE Grammar'
  <2>1. pending' = <<>> /\ UNCHANGED <<gen, parser>>
    BY <1>3 DEF ReadUnacceptable, ReadFails, LeaveFailing, Leave
  <2> QED BY <1>1, <1>2, <2>1, NothingMade
<1>4. ASSUME ReadError PROVE Grammar'
  <2>1. parser' = parser
    BY <1>4 DEF ReadError
  <2>2. CASE LeaveFailing("error") /\ UNCHANGED gen
    BY <1>1, <1>2, <2>1, <2>2, NothingMade DEF LeaveFailing, Leave
  <2>3. CASE Yield(Blank, "read")
    BY <1>1, <1>2, <2>3, EventConstructors, YieldKeeps
  <2> QED BY <1>4, <2>2, <2>3 DEF ReadError
<1>5. ASSUME ReadJunk PROVE Grammar'
  <2>1. UNCHANGED <<pending, gen, parser>>
    BY <1>5 DEF ReadJunk
  <2> QED BY <1>1, <1>2, <2>1, NothingMade
<1>6. ASSUME ReadDone PROVE Grammar'
  <2>1. parser'.tool = parser.tool /\ EndOfBody(parser')
    BY <1>6 DEF ReadDone, Types, Fields, Parsers
  <2> QED BY <1>1, <2>1, EndOfBodyKeeps DEF EndOfBody
<1>7. ASSUME ReadEof PROVE Grammar'
  <2>1. parser' = parser /\ EndOfBody(parser)
    BY <1>7 DEF ReadEof
  <2> QED BY <1>1, <2>1, EndOfBodyKeeps DEF EndOfBody
<1> QED BY <1>3, <1>4, <1>5, <1>6, <1>7

LEMMA LeavingKeeps ==
    ASSUME Types, ObserverKnows, Grammar, Close \/ Finalize \/ Disconnect
    PROVE  Grammar'
<1>1. UNCHANGED <<req, sent, gen, parser>> /\ (gen.first => ~parser.tool)
  BY DEF Close, Finalize, Disconnect, Grammar
<1>2. ASSUME Close PROVE Grammar'
  <2>1. task = "close" /\ Proceed(after, gen)
    BY <1>2 DEF Close
  <2>2. pending = <<>> /\ (after # "over" => Unfinished)
    BY <2>1, NothingPending DEF Unfinished
  <2> QED BY <1>1, <2>1, <2>2, ProceedKeeps DEF Proceed
<1>3. ASSUME pending' = <<>>, ~Unfinished' PROVE Grammar'
  BY <1>1, <1>3, NothingMade
<1>4. ASSUME Finalize PROVE Grammar'
  <2>1. pending' = <<>> /\ ~Unfinished'
    BY <1>4 DEF Finalize, LeaveFailing, Leave, Unfinished
  <2> QED BY <2>1, <1>3
<1>5. ASSUME Disconnect PROVE Grammar'
  <2>1. task \in {"begin", "slot", "admit", "connect", "read", "close", "send", "adrift"}
    BY <1>5 DEF Disconnect, Types, Fields
  <2>2. CASE task \in {"begin", "slot", "admit", "connect", "close"}
    <3>1. Proceed("over", gen)
      BY <1>5, <2>2 DEF Disconnect
    <3>2. pending' = <<>> /\ ~Unfinished'
      BY <3>1 DEF Proceed, Unfinished
    <3> QED BY <3>2, <1>3
  <2>3. CASE task = "read"
    <3>1. LeaveFailing("over")
      BY <1>5, <2>3 DEF Disconnect
    <3>2. pending' = <<>> /\ ~Unfinished'
      BY <3>1 DEF LeaveFailing, Leave, Unfinished
    <3> QED BY <3>2, <1>3
  <2>4. CASE task = "send"
    <3>1. pending' = <<>> /\ ~Unfinished'
      BY <1>5, <2>4 DEF Disconnect, Unfinished
    <3> QED BY <3>1, <1>3
  <2>5. task # "adrift"
    BY <1>5 DEF Disconnect, ObserverKnows
  <2> QED BY <2>1, <2>2, <2>3, <2>4, <2>5
<1> QED BY <1>2, <1>4, <1>5

\* So every step keeps the grammar.
LEMMA GrammarKept ==
    ASSUME IInv, IInv', Grammar, [Next]_vars
    PROVE  Grammar'
<1>1. Types /\ Types' /\ ObserverKnows /\ (task = "send" => pending # <<>>)
  BY DEF IInv, Bookkeeping
<1>2. ASSUME Send PROVE Grammar'
  <2>1. task = "send"
    BY <1>2 DEF Send
  <2> QED BY <1>1, <1>2, <2>1, SendKeeps
<1>3. ASSUME UNCHANGED vars PROVE Grammar'
  <2>1. UNCHANGED <<req, task, after, gen, parser, sent, pending>>
    BY <1>3 DEF vars
  <2> QED
    BY <2>1 DEF Grammar, Order, OpenAIOrder, AnthropicOrder, LastSent, LastMade,
                GoesOn, Unfinished
<1>4. ASSUME ReadLine PROVE Grammar'
  BY <1>1, <1>4, ReadEventKeeps, ReadingKeeps DEF ReadLine
<1>5. ASSUME \E e \in Replies : Reply(e) PROVE Grammar'
  BY <1>1, <1>5, ReplyKeeps
<1> QED
  BY <1>1, <1>2, <1>3, <1>4, <1>5, UpToTheHeadersKeeps, ReadingKeeps, LeavingKeeps
     DEF Next, Step

-----------------------------------------------------------------------------
(* The blocks match.                                                       *)

\* What the orders say of the neighbours of a chunk.
LEMMA Neighbours ==
    ASSUME req \in Requests, NEW a, NEW b, <<a, b>> \in Order
    PROVE  /\ b # "start"
           /\ b = "message_start" => a = "start"
           /\ b = "block_start" => a \in {"message_start", "block_start", "block_stop"}
           /\ b = "block_delta" => a \in {"block_start", "block_delta"}
           /\ b = "block_stop" => a = "block_delta"
           /\ b = "message_delta" => a \in {"block_start", "block_stop"}
           /\ a = "block_delta" => b \in {"block_delta", "block_stop", "error"}
           /\ a \in {"message_delta", "message_stop"} => b = "message_stop"
           /\ a \in {"error", "[DONE]"} => b = "[DONE]"
<1>1. CASE req.ingress = "openai"
  <2>1. <<a, b>> \in OpenAIOrder
    BY <1>1 DEF Order
  <2>2. /\ a \in {"start", "role", "delta", "finish", "usage", "error"}
        /\ b \in {"role", "delta", "finish", "error", "usage", "[DONE]"}
        /\ a = "error" => b = "[DONE]"
    BY <2>1 DEF OpenAIOrder
  <2> QED BY <2>2
<1>2. CASE req.ingress = "anthropic"
  <2>1. <<a, b>> \in AnthropicOrder
    BY <1>2 DEF Order
  <2> QED BY <2>1 DEF AnthropicOrder
<1> QED BY <1>1, <1>2 DEF Requests, Request

\* Sending a chunk adds it to those of its type.
LEMMA ReceivedMore ==
    ASSUME sent \in Seq(Chunk), NEW c \in Chunk, sent' = Append(sent, c), NEW t
    PROVE  /\ Received(t) \subseteq 1..Len(sent) /\ Len(sent) \in Nat
           /\ \A i \in 1..Len(sent) : sent'[i] = sent[i]
           /\ sent'[Len(sent) + 1] = c
           /\ Received(t)' = Received(t) \union (IF c.type = t THEN {Len(sent) + 1} ELSE {})
<1>1. /\ Len(sent) \in Nat /\ DOMAIN sent = 1..Len(sent)
      /\ DOMAIN sent' = 1..(Len(sent) + 1)
      /\ \A i \in 1..Len(sent) : sent'[i] = sent[i]
      /\ sent'[Len(sent) + 1] = c
  OBVIOUS
<1> QED BY <1>1 DEF Received

\* So it adds to the blocks that have content, and to those that are closed.
LEMMA ContentsMore ==
    ASSUME sent \in Seq(Chunk), NEW c \in Chunk, sent' = Append(sent, c)
    PROVE  /\ Deltas' = Deltas \union (IF c.type = "block_delta" THEN {c.block} ELSE {})
           /\ Stops' = Stops \union (IF c.type = "block_stop" THEN {c.block} ELSE {})
<1>1. Deltas' = Deltas \union (IF c.type = "block_delta" THEN {c.block} ELSE {})
  BY ReceivedMore DEF Deltas
<1>2. Stops' = Stops \union (IF c.type = "block_stop" THEN {c.block} ELSE {})
  BY ReceivedMore DEF Stops
<1> QED BY <1>1, <1>2

\* Which does not change how many there are before another.
LEMMA EarlierOnes ==
    ASSUME NEW l \in Nat, NEW S, S \subseteq 1..l, NEW T, T = S \/ T = S \union {l + 1}
    PROVE  /\ \A i \in 1..l : {j \in T : j < i} = {j \in S : j < i}
           /\ {j \in T : j < l + 1} = S
<1>1. \A j \in S : j \in Nat /\ j < l + 1
  OBVIOUS
<1>2. ASSUME NEW i \in 1..l PROVE {j \in T : j < i} = {j \in S : j < i}
  <2>1. ~(l + 1 < i)
    OBVIOUS
  <2> QED BY <2>1
<1>3. {j \in T : j < l + 1} = S
  <2>1. ~(l + 1 < l + 1)
    OBVIOUS
  <2> QED BY <1>1, <2>1
<1> QED BY <1>2, <1>3

\* A chunk that is linked to the last one keeps the numbers in order.
LEMMA SendKeepsBlocks ==
    ASSUME Types, Grammar, Blocks, pending # <<>>, Send
    PROVE  Blocks'
<1> DEFINE c == Head(pending)
           n == Len(sent) + 1
<1>1. req \in Requests /\ sent \in Seq(Chunk) /\ pending \in Seq(Chunk)
  BY DEF Types, Chunks
<1>2. /\ sent' = Append(sent, c) /\ c \in Chunk
      /\ Follows(Order, LastSent, c) /\ LastSent' = c
  BY <1>1, LinkedMove DEF Send, Grammar, LastSent
<1> HIDE DEF c
<1>3. /\ LastSent.block \in Nat
      /\ LastSent.type = "block_delta" => LastSent.block \in Deltas
  <2>1. CASE sent = <<>>
    BY <2>1 DEF LastSent, EndOf, Nothing, Block
  <2>2. CASE sent # <<>>
    <3>1. Len(sent) \in DOMAIN sent /\ LastSent = sent[Len(sent)] /\ LastSent \in Chunk
      BY <1>1, <2>2 DEF LastSent, EndOf
    <3> QED BY <3>1 DEF Chunk, Deltas, Received
  <2> QED BY <2>1, <2>2
<1>4. <<LastSent.type, c.type>> \in Order
  BY <1>2 DEF Follows
<1>5. /\ Len(sent) \in Nat /\ n \in Nat
      /\ \A i \in 1..Len(sent) : sent'[i] = sent[i]
      /\ sent'[n] = c
      /\ Starts \subseteq 1..Len(sent)
      /\ Starts' = Starts \union (IF c.type = "block_start" THEN {n} ELSE {})
      /\ Received("block_delta") \subseteq 1..Len(sent)
      /\ Received("block_delta")' =
            Received("block_delta") \union (IF c.type = "block_delta" THEN {n} ELSE {})
      /\ Received("block_stop") \subseteq 1..Len(sent)
      /\ Received("block_stop")' =
            Received("block_stop") \union (IF c.type = "block_stop" THEN {n} ELSE {})
      /\ Received("message_delta")' =
            Received("message_delta") \union (IF c.type = "message_delta" THEN {n} ELSE {})
  BY <1>1, <1>2, ReceivedMore DEF Starts
<1> HIDE DEF n
<1>6. /\ IsFiniteSet(Starts) /\ Cardinality(Starts) \in Nat
      /\ IsFiniteSet(Starts') /\ Cardinality(Starts') \in Nat
      /\ Cardinality(Starts') = Cardinality(Starts) + (IF c.type = "block_start" THEN 1 ELSE 0)
  <2>1. IsFiniteSet(Starts) /\ Cardinality(Starts) \in Nat
    BY FS_CardinalityType DEF Blocks
  <2>2. n \notin Starts
    BY <1>5 DEF n
  <2>3. /\ IsFiniteSet(Starts \union {n})
        /\ Cardinality(Starts \union {n}) = Cardinality(Starts) + 1
    BY <2>1, <2>2, FS_AddElement
  <2>4. CASE c.type = "block_start"
    BY <1>5, <2>1, <2>3, <2>4
  <2>5. CASE c.type # "block_start"
    BY <1>5, <2>1, <2>5
  <2> QED BY <2>4, <2>5
<1>7. /\ c.block \in Nat
      /\ c.type = "block_start" => c.block = Cardinality(Starts)
      /\ c.type \in {"block_delta", "block_stop"} => c.block + 1 = Cardinality(Starts)
  <2>1. c.block \in Nat
    BY <1>2 DEF Chunk
  <2>2. CASE c.type = "block_start"
    BY <1>1, <1>2, <1>3, <1>4, <1>6, <2>1, <2>2, Neighbours DEF Follows, Blocks
  <2>3. CASE c.type \in {"block_delta", "block_stop"}
    BY <1>1, <1>2, <1>3, <1>4, <1>6, <2>1, <2>3, Neighbours DEF Follows, Blocks
  <2> QED BY <2>1, <2>2, <2>3
<1>8. /\ \A i \in 1..Len(sent) : {j \in Starts' : j < i} = {j \in Starts : j < i}
      /\ {j \in Starts' : j < n} = Starts
  <2> DEFINE l == Len(sent)
             T == Starts'
  <2>1. /\ l \in Nat /\ Starts \subseteq 1..l
        /\ T = Starts \/ T = Starts \union {l + 1}
    BY <1>5 DEF n
  <2> HIDE DEF l, T
  <2>2. /\ \A i \in 1..l : {j \in T : j < i} = {j \in Starts : j < i}
        /\ {j \in T : j < l + 1} = Starts
    BY <2>1, EarlierOnes
  <2> QED BY <2>2 DEF l, T, n
<1>9. /\ LastSent'.type \in {"start", "message_start"} => Cardinality(Starts') = 0
      /\ LastSent'.type \in {"block_start", "block_delta", "block_stop"} =>
            LastSent'.block + 1 = Cardinality(Starts')
  BY <1>1, <1>2, <1>4, <1>6, <1>7, Neighbours DEF Blocks
<1>10. \A i \in Starts' : sent'[i].block = Cardinality({j \in Starts' : j < i})
  <2> SUFFICES ASSUME NEW i \in Starts'
               PROVE  sent'[i].block = Cardinality({j \in Starts' : j < i})
    OBVIOUS
  <2>1. CASE i \in Starts
    BY <1>5, <1>8, <2>1 DEF Blocks
  <2>2. CASE i = n /\ c.type = "block_start"
    BY <1>5, <1>7, <1>8, <2>2
  <2> QED BY <1>5, <2>1, <2>2
<1>11. \A i \in Received("block_delta")' \union Received("block_stop")' :
          sent'[i].block + 1 = Cardinality({j \in Starts' : j < i})
  <2> SUFFICES ASSUME NEW i \in Received("block_delta")' \union Received("block_stop")'
               PROVE  sent'[i].block + 1 = Cardinality({j \in Starts' : j < i})
    OBVIOUS
  <2>1. CASE i \in Received("block_delta") \union Received("block_stop")
    BY <1>5, <1>8, <2>1 DEF Blocks
  <2>2. CASE i = n /\ c.type \in {"block_delta", "block_stop"}
    BY <1>5, <1>7, <1>8, <2>2
  <2> QED BY <1>5, <2>1, <2>2
<1>12. /\ Deltas' = Deltas \union (IF c.type = "block_delta" THEN {c.block} ELSE {})
       /\ Stops' = Stops \union (IF c.type = "block_stop" THEN {c.block} ELSE {})
  BY <1>1, <1>2, ContentsMore
<1>13. c.type \in {"block_delta", "block_stop"} => c.block = LastSent.block
  BY <1>2 DEF Follows
<1>14. Stops' \subseteq Deltas'
  BY <1>1, <1>3, <1>4, <1>12, <1>13, Neighbours DEF Blocks
<1>15. LastSent'.type \notin {"error", "[DONE]"} =>
          Deltas' \subseteq Stops' \union
             (IF LastSent'.type = "block_delta" THEN {LastSent'.block} ELSE {})
  <2> SUFFICES ASSUME c.type \notin {"error", "[DONE]"}
               PROVE  Deltas' \subseteq Stops' \union
                         (IF c.type = "block_delta" THEN {c.block} ELSE {})
    BY <1>2
  <2>1. Deltas \subseteq Stops \union
           (IF LastSent.type = "block_delta" THEN {LastSent.block} ELSE {})
    BY <1>1, <1>4, Neighbours DEF Blocks
  <2>2. LastSent.type = "block_delta" => c.type \in {"block_delta", "block_stop"}
    BY <1>1, <1>4, Neighbours
  <2> QED BY <1>12, <1>13, <2>1, <2>2
<1>16. Received("message_delta")' # {} => LastSent'.type \in {"message_delta", "message_stop"}
  BY <1>1, <1>2, <1>4, <1>5, Neighbours DEF Blocks
<1> QED BY <1>6, <1>9, <1>10, <1>11, <1>14, <1>15, <1>16 DEF Blocks

\* Only sending adds to what the client has received.
LEMMA BlocksKept ==
    ASSUME IInv, Grammar, Blocks, [Next]_vars
    PROVE  Blocks'
<1>1. ASSUME Send PROVE Blocks'
  <2>1. Types /\ pending # <<>>
    BY <1>1 DEF IInv, Bookkeeping, Send
  <2> QED BY <1>1, <2>1, SendKeepsBlocks
<1>2. ASSUME sent' = sent PROVE Blocks'
  <2>1. /\ Received("block_start")' = Received("block_start")
        /\ Received("block_delta")' = Received("block_delta")
        /\ Received("block_stop")' = Received("block_stop")
        /\ Received("message_delta")' = Received("message_delta")
    BY <1>2 DEF Received
  <2>2. LastSent' = LastSent
    BY <1>2 DEF LastSent
  <2>3. Starts' = Starts /\ Deltas' = Deltas /\ Stops' = Stops
    BY <1>2, <2>1 DEF Starts, Deltas, Stops
  <2> QED BY <1>2, <2>1, <2>2, <2>3 DEF Blocks
<1>3. Send \/ sent' = sent
  BY DEF Next, Step, ReadLine, Start, StartFails, TakeSlot, Admit, Refuse, Connect,
         ConnectFails, Rejected, Reply, ReplyFails, ReadEvent, ReadUnacceptable,
         ReadError, ReadJunk, ReadDone, ReadEof, ReadFails, Receive, Close, Finalize,
         Disconnect, vars
<1> QED BY <1>1, <1>2, <1>3

-----------------------------------------------------------------------------
(* The tool calls are announced.                                           *)

\* Every end in two sequences gives the reason if it does so in each of them.
LEMMA AnnouncedConcat ==
    ASSUME NEW s \in Seq(Chunk), NEW t \in Seq(Chunk), Announced(s), Announced(t)
    PROVE  s \o t \in Seq(Chunk) /\ Announced(s \o t)
<1>1. /\ s \o t \in Seq(Chunk)
      /\ Len(s) \in Nat /\ Len(t) \in Nat /\ Len(s \o t) = Len(s) + Len(t)
      /\ DOMAIN s = 1..Len(s) /\ DOMAIN t = 1..Len(t) /\ DOMAIN (s \o t) = 1..Len(s \o t)
  OBVIOUS
<1>2. ASSUME NEW i \in DOMAIN (s \o t)
      PROVE  \/ i \in DOMAIN s /\ (s \o t)[i] = s[i]
             \/ i - Len(s) \in DOMAIN t /\ (s \o t)[i] = t[i - Len(s)]
  BY <1>1
<1> QED BY <1>1, <1>2 DEF Announced

\* Where no end is announced, and in the blocks of the calls themselves.
LEMMA NoneAnnounced == ASSUME NEW s, ~Announces(s) PROVE Announced(s)
BY DEF Announces, Announced

LEMMA ToolsNotAnnounced ==
    ASSUME NEW n \in Nat
    PROVE  ~Announces(ToolBlocks(n))
<1> SUFFICES ASSUME NEW k \in 1..3 * n
             PROVE  ToolBlocks(n)[k].type \notin {"finish", "message_delta"}
  BY DEF Announces, ToolBlocks
<1>1. k - 1 \in Nat
  OBVIOUS
<1>2. (k - 1) % 3 \in {0, 1, 2}
  BY <1>1, Threes
<1> QED BY <1>2, ToolBlockAt

\* The end of an answer gives the reason that the generator remembers.
LEMMA TailAnnounced ==
    ASSUME NEW g \in Gens, g.finish = "tool_calls"
    PROVE  Announced(TailChunks(g))
<1>1. \A r \in Reason : Ending("finish", r) \in Chunk /\ Ending("message_delta", r) \in Chunk
  BY BlockTyped DEF ChunkType
<1>2. /\ Block("block_stop", 0) \in Chunk /\ Block("block_stop", 0).type = "block_stop"
      /\ \A t \in {"role", "usage", "message_stop", "[DONE]"} :
            Plain(t) \in Chunk /\ Plain(t).type = t
  BY BlockTyped DEF ChunkType, Reason, Plain, Block
<1>3. CASE req.ingress = "anthropic"
  <2> DEFINE A == IF g.first THEN StartChunks ELSE <<>>
             B == IF g.text THEN <<Block("block_stop", 0)>> ELSE <<>>
             C == ToolBlocks(Cardinality(g.tools))
             m == Ending("message_delta", "tool_use")
             z == Plain("message_stop")
             D == <<m, z>>
  <2>1. A \in Seq(Chunk) /\ Announced(A)
    BY StartChunksTyped, ShortChunks, NoneAnnounced
  <2>2. B \in Seq(Chunk) /\ Announced(B)
    BY <1>2, ShortChunks, NoneAnnounced
  <2>3. C \in Seq(Chunk) /\ Announced(C)
    <3>1. g.tools \subseteq Tools
      BY DEF Gens
    <3>2. Cardinality(g.tools) \in Nat
      BY <3>1, StreamAssumption, FS_Subset, FS_CardinalityType
    <3> QED BY <3>2, ToolBlocksTyped, ToolsNotAnnounced, NoneAnnounced
  <2>4. D \in Seq(Chunk) /\ Announced(D)
    <3>1. m \in Chunk /\ z \in Chunk /\ m.reason = "tool_use" /\ z.type = "message_stop"
      BY <1>1, <1>2 DEF Reason, Ending
    <3> HIDE DEF m, z
    <3>2. D \in Seq(Chunk) /\ DOMAIN D = {1, 2} /\ D[1] = m /\ D[2] = z
      BY <3>1
    <3> HIDE DEF D
    <3> QED BY <3>1, <3>2 DEF Announced
  <2>5. TailChunks(g) = ((A \o B) \o C) \o D
    BY <1>3 DEF TailChunks
  <2> HIDE DEF A, B, C, D
  <2>6. A \o B \in Seq(Chunk) /\ Announced(A \o B)
    BY <2>1, <2>2, AnnouncedConcat
  <2> DEFINE R == A \o B
  <2>7. R \in Seq(Chunk) /\ Announced(R)
    BY <2>6
  <2> HIDE DEF R
  <2>8. R \o C \in Seq(Chunk) /\ Announced(R \o C)
    BY <2>3, <2>7, AnnouncedConcat
  <2> DEFINE S == R \o C
  <2>9. S \in Seq(Chunk) /\ Announced(S)
    BY <2>8
  <2> HIDE DEF S
  <2>10. Announced(S \o D)
    BY <2>4, <2>9, AnnouncedConcat
  <2> QED BY <2>5, <2>10 DEF S, R
<1>4. CASE req.ingress # "anthropic"
  <2> DEFINE A == IF g.first THEN <<Plain("role")>> ELSE <<>>
             f == Ending("finish", "tool_calls")
             F == <<f>>
             C == IF req.includeUsage THEN <<Plain("usage")>> ELSE <<>>
             D == <<Done>>
  <2>1. A \in Seq(Chunk) /\ Announced(A)
    BY <1>2, ShortChunks, NoneAnnounced
  <2>2. F \in Seq(Chunk) /\ Announced(F)
    <3>1. f \in Chunk /\ f.reason = "tool_calls"
      BY <1>1 DEF Reason, Ending
    <3> HIDE DEF f
    <3> QED BY <3>1 DEF Announced
  <2>3. C \in Seq(Chunk) /\ Announced(C)
    BY <1>2, ShortChunks, NoneAnnounced
  <2>4. D \in Seq(Chunk) /\ Announced(D)
    BY <1>2, ShortChunks, NoneAnnounced DEF Done
  <2>5. TailChunks(g) = ((A \o F) \o C) \o D
    BY <1>4 DEF TailChunks
  <2> HIDE DEF A, F, C, D
  <2>6. A \o F \in Seq(Chunk) /\ Announced(A \o F)
    BY <2>1, <2>2, AnnouncedConcat
  <2> DEFINE R == A \o F
  <2>7. R \in Seq(Chunk) /\ Announced(R)
    BY <2>6
  <2> HIDE DEF R
  <2>8. R \o C \in Seq(Chunk) /\ Announced(R \o C)
    BY <2>3, <2>7, AnnouncedConcat
  <2> DEFINE S == R \o C
  <2>9. S \in Seq(Chunk) /\ Announced(S)
    BY <2>8
  <2> HIDE DEF S
  <2>10. Announced(S \o D)
    BY <2>4, <2>9, AnnouncedConcat
  <2> QED BY <2>5, <2>10 DEF S, R
<1> QED BY <1>3, <1>4

\* The lines of a Responses message: the one that ends it has no calls, and no
\* other has a reason or a usage.
LEMMA ResponsesEvents ==
    ASSUME req \in Requests, req.protocol = "responses", NEW e \in Events
    PROVE  /\ ~parser.terminal
           /\ \/ e.finish = "none" /\ e.usage = "none"
              \/ e.finish = "stop" /\ e.calls = {}
<1>1. req.provider # "ollama"
  BY DEF Requests, Native
<1>2. ~parser.terminal
  <2>1. parser.terminal => Events = {}
    BY <1>1 DEF Events
  <2> QED BY <2>1
<1>3. e \in {Text} \union {Call(t) : t \in IF req.tools THEN Tools ELSE {}}
              \union {Complete("stop", q) : q \in {"good", "bad"}}
  BY <1>1, <1>2 DEF Events
<1> QED BY <1>2, <1>3 DEF Text, Call, Complete, Blank

\* Reading a line keeps what is known of the calls.
LEMMA ReadEventKnows ==
    ASSUME Types, CallsKnown, NEW e \in Events, ReadEvent(e)
    PROVE  CallsKnown'
<1> DEFINE seen == Parsed(parser, e)
<1>1. /\ req \in Requests /\ gen \in Gens /\ parser \in Parsers
      /\ e \in Event /\ seen \in Event
  BY EventsTyped, TypeParts, ParsedTyped DEF Types, Fields
<1>2. req' = req /\ parser' = Remember(parser, seen)
  BY DEF ReadEvent, Receive
<1>3. \/ gen' = Take(gen, seen)
      \/ gen' = gen /\ req.provider \in Native /\ seen = Blank
  BY DEF ReadEvent, Yield, Passes
<1> HIDE DEF seen
<1>4. gen'.tools = gen.tools \union seen.calls
  <2>1. Blank.calls = {}
    BY DEF Blank
  <2> QED BY <1>3, <2>1 DEF Take
<1>5. req.provider \in Native /\ gen'.tools # {} => parser'.tool
  <2>1. parser'.tool = (parser.tool \/ seen.calls # {})
    BY <1>2 DEF Remember
  <2> QED BY <1>4, <2>1 DEF CallsKnown
<1>6. ASSUME req.protocol = "responses", parser'.finish # "none"
      PROVE  parser'.terminal /\ (gen'.tools # {} => gen'.finish = "tool_calls")
  <2>1. req.provider \in Native
    BY <1>1, <1>6 DEF Requests
  <2>2. /\ ~parser.terminal
        /\ \/ e.finish = "none" /\ e.usage = "none"
           \/ e.finish = "stop" /\ e.calls = {}
    BY <1>1, <1>6, ResponsesEvents
  <2>3. parser.finish = "none"
    BY <1>6, <2>2 DEF CallsKnown
  <2>4. seen.finish # "none"
    BY <1>2, <1>6, <2>3 DEF Remember
  <2>5. e.finish = "stop" /\ e.calls = {}
    <3>1. e.finish = "none" /\ e.usage = "none" => seen.finish = "none"
      BY <1>1, <2>1 DEF Parsed, Event, seen
    <3> QED BY <2>2, <2>4, <3>1
  <2>6. seen.calls = {} /\ (parser.tool => seen.finish = "tool_calls")
    BY <1>1, <1>6, <2>1, <2>5 DEF Parsed, Event, seen
  <2>7. parser'.terminal
    BY <1>2, <1>6, <2>4 DEF Remember
  <2>8. gen' = Take(gen, seen)
    <3>1. Blank.finish = "none"
      BY DEF Blank
    <3> QED BY <1>3, <2>4, <3>1
  <2>9. gen'.finish = seen.finish
    BY <2>4, <2>8 DEF Take
  <2>10. gen'.tools # {} => parser.tool
    BY <1>4, <2>1, <2>6 DEF CallsKnown
  <2> QED BY <2>6, <2>7, <2>9, <2>10
<1> QED BY <1>2, <1>5, <1>6 DEF CallsKnown

\* While there is something to read, no end has been announced.
LEMMA NotYetAnnounced ==
    ASSUME IInv, task \in {"connect", "read"}
    PROVE  ~Announces(sent) /\ after # "tail"
BY DEF IInv, Types, Fields, Upstreams, Bookkeeping, EndAnnounced, Reading, Settled

\* What a step must do that does not announce anything,
LEMMA NothingSaid ==
    ASSUME ~Announces(sent), sent' = sent, ~Announces(pending'), CallsKnown',
           after' = "tail" /\ Calling' => gen'.finish = "tool_calls"
    PROVE  Reasons'
<1>1. Announced(sent') /\ Announced(pending')
  BY NoneAnnounced
<1>2. Announced(sent)' /\ Announced(pending)'
  BY <1>1 DEF Announced
<1> QED BY <1>2 DEF Reasons

\* that learns nothing,
LEMMA SameKnown ==
    ASSUME Reasons, UNCHANGED <<req, gen, parser>>, after' = "tail" => after = "tail",
           Calling => Announced(sent') /\ Announced(pending')
    PROVE  Reasons'
<1>1. CallsKnown' /\ Calling' = Calling
  BY DEF Reasons, CallsKnown, Calling
<1>2. Calling' => Announced(sent)' /\ Announced(pending)'
  BY <1>1 DEF Announced
<1>3. after' = "tail" /\ Calling' => gen'.finish = "tool_calls"
  BY <1>1 DEF Reasons
<1> QED BY <1>1, <1>2, <1>3 DEF Reasons

\* or that goes on, perhaps to the end.
LEMMA ProceedSays ==
    ASSUME Reasons, gen \in Gens, UNCHANGED <<req, gen, parser>>,
           NEW next, Proceed(next, gen), next = "tail" => after = "tail",
           Calling => Announced(sent')
    PROVE  Reasons'
<1>1. after' # "tail"
  BY DEF Proceed
<1>2. Calling => Announced(pending')
  <2>1. CASE next = "tail"
    <3>1. pending' = TailChunks(gen)
      BY <2>1 DEF Proceed
    <3>2. Calling => gen.finish = "tool_calls"
      BY <2>1 DEF Reasons
    <3> QED BY <3>1, <3>2, TailAnnounced
  <2>2. CASE next # "tail"
    <3>1. ~Announces(pending')
      BY <2>2, ProceedFacts
    <3> QED BY <3>1, NoneAnnounced
  <2> QED BY <2>1, <2>2
<1> QED BY <1>1, <1>2, SameKnown

\* A reason for the calls is added at the end of a body that gave none.
LEMMA EndOfBodySays ==
    ASSUME IInv, Reasons, task = "read", UNCHANGED <<req, sent>>,
           NEW p, EndOfBody(p), p.tool = parser.tool, p.finish = parser.finish,
           parser'.tool = parser.tool, parser'.finish = parser.finish,
           req.protocol = "responses" => parser' = parser
    PROVE  Reasons'
<1>1. /\ ~Announces(sent) /\ gen \in Gens
  BY NotYetAnnounced DEF IInv, Types, Fields
<1>2. /\ ~Announces(pending')
      /\ \/ after' = "error" /\ gen' = gen
         \/ /\ after' = "tail"
            /\ gen' = IF req.provider \in Native /\ parser.tool /\ parser.finish = "none"
                        THEN Take(gen, Finish("tool_calls")) ELSE gen
  BY ShortChunks DEF EndOfBody, LeaveFailing, Leave
<1>3. Finish("tool_calls").calls = {} /\ Finish("tool_calls").finish = "tool_calls"
  BY DEF Finish, Blank
<1>4. /\ gen'.tools = gen.tools
      /\ gen' = gen \/ (gen'.finish = "tool_calls" /\ parser.finish = "none")
  BY <1>2, <1>3 DEF Take
<1>5. CallsKnown'
  BY <1>4 DEF Reasons, CallsKnown
<1>6. ASSUME after' = "tail", Calling' PROVE gen'.finish = "tool_calls"
  <2>1. /\ req.provider \in Native /\ gen.tools # {}
        /\ req.protocol = "responses" \/ parser.finish = "none"
    BY <1>4, <1>6 DEF Calling
  <2>2. parser.tool
    BY <2>1 DEF Reasons, CallsKnown
  <2>3. CASE parser.finish = "none"
    <3>1. gen' = Take(gen, Finish("tool_calls"))
      BY <1>2, <1>6, <2>1, <2>2, <2>3
    <3> QED BY <1>3, <3>1 DEF Take
  <2>4. CASE parser.finish # "none"
    BY <1>4, <2>1, <2>4 DEF Reasons, CallsKnown
  <2> QED BY <2>3, <2>4
<1> QED BY <1>1, <1>2, <1>5, <1>6, NothingSaid

\* The other providers' calls need not be announced.
LEMMA NotNative ==
    ASSUME req \in Requests, req' = req, req.provider \notin Native
    PROVE  Reasons'
<1>1. req.protocol # "responses"
  BY DEF Requests
<1> QED BY <1>1 DEF Reasons, CallsKnown, Calling

\* Which the actions do, as above.
LEMMA UpToTheHeadersSays ==
    ASSUME IInv, Grammar, Reasons,
           \/ Start \/ StartFails \/ TakeSlot \/ Admit \/ Refuse
           \/ Connect \/ ConnectFails \/ Rejected
           \/ (\E q \in {"none", "good"} : ReplyFails(q))
    PROVE  Reasons'
<1>1. /\ UNCHANGED <<req, sent, gen, parser>> /\ gen \in Gens
      /\ Calling => Announced(sent')
  BY DEF Start, StartFails, TakeSlot, Admit, Refuse, Connect, ConnectFails, Rejected,
         ReplyFails, Reasons, IInv, Types, Fields
<1>2. ASSUME Start \/ TakeSlot \/ Admit PROVE Reasons'
  <2>1. UNCHANGED <<pending, after>>
    BY <1>2 DEF Start, TakeSlot, Admit
  <2>2. Calling => Announced(pending')
    BY <2>1 DEF Reasons
  <2> QED BY <1>1, <2>1, <2>2, SameKnown
<1>3. ASSUME \/ StartFails \/ Refuse \/ Connect \/ ConnectFails
             \/ (\E q \in {"none", "good"} : ReplyFails(q))
      PROVE  Reasons'
  <2>1. Proceed("error", gen) \/ Proceed("read", gen) \/ Proceed("over", gen)
    BY <1>3 DEF StartFails, Refuse, Connect, ConnectFails, ReplyFails
  <2> QED BY <1>1, <2>1, ProceedSays
<1>4. ASSUME Rejected PROVE Reasons'
  <2>1. after' = "error" /\ Announced(pending')
    BY <1>4, ShortChunks, NoneAnnounced DEF Rejected, LeaveFailing, Leave
  <2> QED BY <1>1, <2>1, SameKnown
<1> QED BY <1>2, <1>3, <1>4

LEMMA ReadingSays ==
    ASSUME IInv, Grammar, Reasons,
           \/ ReadLine \/ ReadEof \/ ReadFails
           \/ (\E e \in Replies : Reply(e))
    PROVE  Reasons'
<1>1. UNCHANGED <<req, sent>> /\ task \in {"connect", "read"}
  BY DEF ReadLine, ReadEvent, ReadUnacceptable, ReadError, ReadJunk, ReadDone, ReadEof,
         ReadFails, Receive, Reply
<1>2. /\ ~Announces(sent) /\ after # "tail" /\ gen \in Gens /\ req \in Requests /\ Types
  BY <1>1, NotYetAnnounced DEF IInv, Types, Fields
<1>3. ASSUME \E e \in Replies : Reply(e) PROVE Reasons'
  <2>1. req.provider = "vertex"
    BY <1>3 DEF Reply, Buffered
  <2> QED BY <1>1, <1>2, <2>1, NotNative DEF Native
<1>4. ASSUME NEW e \in Events, ReadEvent(e) PROVE Reasons'
  <2>1. CallsKnown'
    BY <1>2, <1>4, ReadEventKnows DEF Reasons
  <2>2. task = "read" /\ parser \in Parsers /\ e \in Event /\ Parsed(parser, e) \in Event
    BY <1>2, <1>4, EventsTyped, TypeParts, ParsedTyped DEF Types, Fields, ReadEvent, Receive
  <2>3. ~Announces(pending') /\ after' # "tail"
    <3>1. CASE Passes(Parsed(parser, e))
      BY <1>2, <1>4, <2>2, <3>1, YieldFacts DEF ReadEvent
    <3>2. CASE ~Passes(Parsed(parser, e))
      BY <1>2, <1>4, <2>2, <3>2, ReadingQuiet DEF ReadEvent
    <3> QED BY <3>1, <3>2
  <2> QED BY <1>1, <1>2, <2>1, <2>3, NothingSaid
<1>5. ASSUME (\E e \in Events : ReadUnacceptable(e)) \/ ReadFails PROVE Reasons'
  <2>1. UNCHANGED <<gen, parser>> /\ ~Announces(pending') /\ after' # "tail"
    BY <1>5, ShortChunks DEF ReadUnacceptable, ReadFails, LeaveFailing, Leave
  <2> QED BY <1>1, <1>2, <2>1, NoneAnnounced, SameKnown
<1>6. ASSUME ReadError PROVE Reasons'
  <2>1. CASE LeaveFailing("error") /\ UNCHANGED gen
    <3>1. parser' = parser /\ ~Announces(pending') /\ after' # "tail"
      BY <1>6, <2>1, ShortChunks DEF ReadError, LeaveFailing, Leave
    <3> QED BY <1>1, <1>2, <2>1, <3>1, NoneAnnounced, SameKnown
  <2>2. CASE req.provider \notin Native
    BY <1>1, <1>2, <2>2, NotNative
  <2> QED BY <1>6, <2>1, <2>2 DEF ReadError
<1>7. ASSUME ReadJunk PROVE Reasons'
  <2>1. UNCHANGED <<gen, parser, pending, after>>
    BY <1>7 DEF ReadJunk
  <2>2. Calling => Announced(sent') /\ Announced(pending')
    BY <1>1, <2>1 DEF Reasons
  <2> QED BY <1>1, <2>1, <2>2, SameKnown
<1>8. ASSUME ReadDone PROVE Reasons'
  <2>1. /\ task = "read" /\ EndOfBody(parser') /\ req.protocol # "responses"
        /\ parser'.tool = parser.tool /\ parser'.finish = parser.finish
    BY <1>8 DEF ReadDone, SendsDone, IInv, Types, Fields, Parsers
  <2> QED BY <1>1, <2>1, EndOfBodySays DEF EndOfBody
<1>9. ASSUME ReadEof PROVE Reasons'
  <2>1. task = "read" /\ EndOfBody(parser) /\ parser' = parser
    BY <1>9 DEF ReadEof
  <2> QED BY <1>1, <2>1, EndOfBodySays DEF EndOfBody
<1> QED BY <1>3, <1>4, <1>5, <1>6, <1>7, <1>8, <1>9 DEF ReadLine

LEMMA LeavingSays ==
    ASSUME IInv, Reasons, Close \/ Finalize \/ Disconnect
    PROVE  Reasons'
<1>1. /\ UNCHANGED <<req, sent, gen, parser>> /\ gen \in Gens
      /\ Calling => Announced(sent')
  BY DEF Close, Finalize, Disconnect, Reasons, IInv, Types, Fields
<1>2. ASSUME Close PROVE Reasons'
  <2>1. Proceed(after, gen)
    BY <1>2 DEF Close
  <2> QED BY <1>1, <2>1, ProceedSays DEF Proceed
<1>3. ASSUME pending' = <<>>, after' # "tail" PROVE Reasons'
  <2>1. Announced(pending')
    BY <1>3, ShortChunks, NoneAnnounced
  <2> QED BY <1>1, <1>3, <2>1, SameKnown
<1>4. ASSUME Finalize PROVE Reasons'
  <2>1. pending' = <<>> /\ after' # "tail"
    BY <1>4 DEF Finalize, LeaveFailing, Leave
  <2> QED BY <2>1, <1>3
<1>5. ASSUME Disconnect PROVE Reasons'
  <2>1. /\ task \in {"begin", "slot", "admit", "connect", "read", "close", "send", "adrift"}
        /\ task # "adrift"
    BY <1>5 DEF Disconnect, IInv, Types, Fields, ObserverKnows
  <2>2. CASE task \in {"begin", "slot", "admit", "connect", "close"}
    <3>1. Proceed("over", gen)
      BY <1>5, <2>2 DEF Disconnect
    <3>2. pending' = <<>> /\ after' # "tail"
      BY <3>1 DEF Proceed
    <3> QED BY <3>2, <1>3
  <2>3. CASE task = "read"
    <3>1. LeaveFailing("over")
      BY <1>5, <2>3 DEF Disconnect
    <3>2. pending' = <<>> /\ after' # "tail"
      BY <3>1 DEF LeaveFailing, Leave
    <3> QED BY <3>2, <1>3
  <2>4. CASE task = "send"
    <3>1. pending' = <<>> /\ after' # "tail"
      BY <1>5, <2>4 DEF Disconnect
    <3> QED BY <3>1, <1>3
  <2> QED BY <2>1, <2>2, <2>3, <2>4
<1> QED BY <1>2, <1>4, <1>5

LEMMA SendSays ==
    ASSUME IInv, Reasons, Send
    PROVE  Reasons'
<1>1. /\ sent \in Seq(Chunk) /\ pending \in Seq(Chunk) /\ gen \in Gens
      /\ pending # <<>> /\ UNCHANGED <<req, gen, parser>>
      /\ sent' = Append(sent, Head(pending))
  BY DEF IInv, Types, Fields, Chunks, Bookkeeping, Send
<1>2. /\ Len(pending) \in Nat /\ Len(pending) > 0 /\ Head(pending) = pending[1]
      /\ 1 \in DOMAIN pending
      /\ \A i \in DOMAIN Tail(pending) : i + 1 \in DOMAIN pending
                                         /\ Tail(pending)[i] = pending[i + 1]
      /\ Len(sent) \in Nat /\ DOMAIN sent = 1..Len(sent)
      /\ DOMAIN sent' = 1..(Len(sent) + 1)
      /\ \A i \in 1..Len(sent) : sent'[i] = sent[i]
      /\ sent'[Len(sent) + 1] = Head(pending)
  BY <1>1
<1>3. Calling => Announced(sent') /\ Announced(Tail(pending))
  <2> SUFFICES ASSUME Calling PROVE Announced(sent') /\ Announced(Tail(pending))
    OBVIOUS
  <2>1. Announced(sent) /\ Announced(pending)
    BY DEF Reasons
  <2>2. Announced(sent')
    <3> SUFFICES ASSUME NEW i \in 1..(Len(sent) + 1),
                        sent'[i].type \in {"finish", "message_delta"}
                 PROVE  sent'[i].reason \in {"tool_calls", "tool_use"}
      BY <1>2 DEF Announced
    <3>1. CASE i \in 1..Len(sent)
      BY <1>2, <2>1, <3>1 DEF Announced
    <3>2. CASE i = Len(sent) + 1
      BY <1>2, <2>1, <3>2 DEF Announced
    <3> QED BY <1>2, <3>1, <3>2
  <2>3. Announced(Tail(pending))
    BY <1>2, <2>1 DEF Announced
  <2> QED BY <2>2, <2>3
<1>4. CASE Len(pending) > 1
  <2>1. pending' = Tail(pending) /\ after' = after
    BY <1>4 DEF Send
  <2> QED BY <1>1, <1>3, <2>1, SameKnown
<1>5. CASE ~(Len(pending) > 1)
  <2>1. Proceed(after, gen)
    BY <1>5 DEF Send
  <2> QED BY <1>1, <1>3, <2>1, ProceedSays DEF Proceed
<1> QED BY <1>4, <1>5

\* So every step keeps the reasons.
LEMMA ReasonsKept ==
    ASSUME IInv, Grammar, Reasons, [Next]_vars
    PROVE  Reasons'
<1>1. ASSUME UNCHANGED vars PROVE Reasons'
  <2>1. UNCHANGED <<req, gen, parser, sent, pending, after>>
    BY <1>1 DEF vars
  <2>2. Calling => Announced(sent') /\ Announced(pending')
    BY <2>1 DEF Reasons
  <2> QED BY <2>1, <2>2, SameKnown
<1> QED
  BY <1>1, UpToTheHeadersSays, ReadingSays, LeavingSays, SendSays DEF Next, Step

-----------------------------------------------------------------------------
(* The theorem about the answer.                                           *)

\* Nothing has been sent at first.
LEMMA AnswerInitial == Init => Answer
<1> SUFFICES ASSUME Init PROVE Answer
  OBVIOUS
<1>1. sent = <<>> /\ pending = <<>> /\ gen.first /\ ~gen.text /\ gen.tools = {}
      /\ ~parser.tool /\ parser.finish = "none" /\ after = "none"
  BY DEF Init
<1>2. LastSent = Nothing /\ LastMade = Nothing
  BY <1>1, LinkedNone DEF LastSent, LastMade
<1>3. Grammar
  BY <1>1, <1>2, LinkedNone DEF Grammar, GoesOn
<1>4. Blocks
  <2>1. Nothing.type = "start"
    BY DEF Nothing, Block
  <2>2. \A t : Received(t) = {}
    BY <1>1 DEF Received
  <2> QED BY <1>2, <2>1, <2>2, FS_EmptySet DEF Blocks, Starts, Deltas, Stops
<1>5. Reasons
  BY <1>1 DEF Reasons, CallsKnown, Calling
<1> QED BY <1>3, <1>4, <1>5 DEF Answer

\* The grammar, the blocks and the reasons hold in every state that is reached.
LEMMA AnswerInvariance == Spec => []Answer
<1>1. IInv /\ IInv' /\ Answer /\ [Next]_vars => Answer'
  BY GrammarKept, BlocksKept, ReasonsKept DEF Answer
<1> QED BY <1>1, AnswerInitial, Invariance, PTL DEF Spec

\* Whatever the upstream sends, for bodies of any length and any set of tool
\* calls, and wherever the client leaves or the stream breaks, what the client
\* has received is the beginning of an answer of its protocol: the order of the
\* chunks (event_generator, AnthropicStreamState.feed and finish), the numbers of
\* the blocks and the announcement of the calls.
THEOREM ChatAnswerWellFormed == Spec => []AnswerWellFormed
<1>1. ASSUME IInv, Answer PROVE AnswerWellFormed
  <2>1. /\ sent \in Seq(Chunk) /\ Len(sent) \in Nat /\ DOMAIN sent = 1..Len(sent)
        /\ Linked(Order, Nothing, sent) /\ Blocks /\ Reasons
    BY <1>1 DEF IInv, Types, Chunks, Answer, Grammar
  <2>2. ASSUME NEW i \in DOMAIN sent
        PROVE  <<Before(i), sent[i].type>>
                 \in IF req.ingress = "openai" THEN OpenAIOrder ELSE AnthropicOrder
    <3>1. Before(i) = (IF i = 1 THEN Nothing ELSE sent[i - 1]).type
      BY DEF Before, Nothing, Block
    <3>2. Follows(Order, IF i = 1 THEN Nothing ELSE sent[i - 1], sent[i])
      BY <2>1 DEF Linked
    <3> QED BY <3>1, <3>2 DEF Follows, Order
  <2>3. BlocksMatch
    <3>1. Received("message_delta") # {} => Deltas = Stops
      <4>1. "message_delta" \notin {"block_delta", "error", "[DONE]"}
            /\ "message_stop" \notin {"block_delta", "error", "[DONE]"}
        OBVIOUS
      <4> QED BY <2>1, <4>1 DEF Blocks
    <3> QED BY <2>1, <3>1 DEF Blocks, BlocksMatch, Starts, Deltas, Stops
  <2>4. ToolCallsAnnounced
    BY <2>1 DEF Reasons, Calling, Announced, ToolCallsAnnounced, Received
  <2> QED BY <2>2, <2>3, <2>4 DEF AnswerWellFormed
<1>2. IInv /\ Answer => AnswerWellFormed
  BY <1>1
<1> QED BY <1>2, Invariance, AnswerInvariance, PTL

=============================================================================
