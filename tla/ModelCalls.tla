----------------------------- MODULE ModelCalls ------------------------------
(***************************************************************************)
(* One call of a language model: llm.rs.  The client does not know how a   *)
(* provider wants to be addressed, so it tries ways to send the key and    *)
(* names of the token limit one after the other, and then reads the answer *)
(* at once or as a stream of server-sent events cut into chunks anywhere.  *)
(*                                                                         *)
(*   ModelRequests  what the caller and the URL determine                  *)
(*   ModelReplies   what a provider may send                               *)
(*                                                                         *)
(* A stream is a sequence of tokens: line ends, and payloads, each a line  *)
(* with its JSON.  A payload is text, a piece of a tool call (every piece  *)
(* names its index), a comment, or the end mark.                           *)
(***************************************************************************)
EXTENDS Integers, FiniteSets, SequencesExt

CONSTANTS ModelRequests, ModelReplies

Schemes == {"bearer", "api-key", "x-api-key"}
Fields == {"max_tokens", "max_completion_tokens"}
Indices == 0 .. 1

CR == [kind |-> "cr"]
LF == [kind |-> "lf"]
Text(t) == [kind |-> "text", of |-> t]
Piece(i, part) == [kind |-> "call", index |-> i, of |-> part]
Comment == [kind |-> "comment"]
Done == [kind |-> "done"]

Payload(p) ==
    \/ p \in {Comment, Done} \/ p = Text(p.of)
    \/ p.index \in Indices /\ p = Piece(p.index, p.of)
Texts(payloads) == {n \in DOMAIN payloads : payloads[n].kind = "text"}
Pieces(payloads, i) ==
    {n \in DOMAIN payloads : payloads[n].kind = "call" /\ payloads[n].index = i}
ReplyPayloads == UNION {{r.payloads[n] : n \in DOMAIN r.payloads} : r \in ModelReplies}

\* What providers send: nothing follows the end mark, and a tool call begins
\* with its name.
ASSUME ModelCallsAssumption ==
    /\ \A r \in ModelRequests :
          /\ \/ r.protocol = "openai" /\ r.auth \in {"bearer", "api-key"}
             \/ r.protocol = "anthropic" /\ r.auth \in {"x-api-key", "api-key"}
          /\ r.field \in Fields /\ r.keyed \in BOOLEAN /\ r.streaming \in BOOLEAN
    /\ \A r \in ModelReplies :
          /\ r.crlf \in BOOLEAN /\ r.closed \in BOOLEAN /\ r.payloads \in Seq(ReplyPayloads)
          /\ \A n \in DOMAIN r.payloads :
                Payload(r.payloads[n]) /\ (r.payloads[n] = Done => n = Len(r.payloads))
          /\ \A i \in Indices : Pieces(r.payloads, i) # {} =>
                \E n \in Pieces(r.payloads, i) : \A m \in Pieces(r.payloads, i) :
                   n <= m /\ (r.payloads[m].of = "name" <=> m = n)

VARIABLES
    request,    \* the call's request
    provider,   \* the scheme ("none": no key needed) and the field it accepts
    ways,       \* the ways to ask that are left
    calling,    \* where the call is
    reply,      \* what the provider sends
    incoming,   \* tokens of the stream that were not received yet
    buffer,     \* tokens that were received and not parsed yet
    answer,     \* the texts and the tool calls' pieces parsed so far
    streamed,   \* the texts given to on_event, over all attempts
    cut,        \* history: the connection was closed before the stream's end
    broken      \* history: an error that is not about key or field

modelVars == <<request, provider, ways, calling, reply, incoming, buffer, answer,
               streamed, cut, broken>>

NoAsk == [protocol |-> "none"]
AnyProvider == [auth |-> "none", field |-> "max_tokens"]
NoReply == [payloads |-> <<>>, crlf |-> FALSE, closed |-> TRUE]
NoAnswer == [text |-> <<>>, calls |-> [i \in Indices |-> <<>>]]

----------------------------------------------------------------------------
(* The attempts                                                            *)

PushUnique(items, item) == IF Contains(items, item) THEN items ELSE Append(items, item)

Alternate(field) == CHOOSE f \in Fields : f # field
PushBoth(items, auth, field) ==
    PushUnique(PushUnique(items, <<auth, field>>), <<auth, Alternate(field)>>)

\* Every scheme with both fields, the preferred ones first.
OpenAiAttempts(r) ==
    LET first == PushBoth(<<>>, r.auth, r.field)
        bearer == PushBoth(first, "bearer", r.field)
        apiKey == PushBoth(bearer, "api-key", r.field)
    IN IF r.keyed THEN PushBoth(apiKey, "x-api-key", r.field) ELSE first

AnthropicAttempts(r) ==
    LET first == << <<r.auth, r.field>> >>
        own == PushUnique(first, <<"x-api-key", r.field>>)
        apiKey == PushUnique(own, <<"api-key", r.field>>)
    IN IF r.keyed THEN PushUnique(apiKey, <<"bearer", r.field>>) ELSE first

AttemptsOf(r) == IF r.protocol = "openai" THEN OpenAiAttempts(r) ELSE AnthropicAttempts(r)

ModelCallsInit ==
    /\ request = NoAsk /\ provider = AnyProvider
    /\ ways = <<>>
    /\ calling = "idle"
    /\ reply = NoReply /\ incoming = <<>> /\ buffer = <<>>
    /\ answer = NoAnswer /\ streamed = <<>>
    /\ cut = FALSE /\ broken = FALSE

Calls ==
    /\ calling = "idle"
    /\ \E r \in ModelRequests : request' = r /\ ways' = AttemptsOf(r)
    /\ provider' \in [auth : Schemes \cup {"none"}, field : Fields]
    /\ calling' = "asking"
    /\ UNCHANGED <<reply, incoming, buffer, answer, streamed, cut, broken>>

\* An Anthropic endpoint knows one name of the limit only.
Accepts(attempt) ==
    /\ provider.auth \in {"none", attempt[1]}
    /\ request.protocol = "openai" => attempt[2] = provider.field

\* A 401 or 403, or a 400 or 422 about the limit's name: the next attempt.
IsRefused ==
    /\ calling = "asking" /\ ~Accepts(Head(ways))
    /\ ways' = Tail(ways)
    /\ calling' = IF Tail(ways) = <<>> THEN "failed" ELSE "asking"
    /\ UNCHANGED <<request, provider, reply, incoming, buffer, answer, streamed, cut, broken>>

\* Another status, no connection, no answer in time, an error while reading
\* or an error event: the call fails and is not repeated.
Breaks ==
    /\ calling \in {"idle", "asking", "reading"}
    /\ calling' = "failed" /\ broken' = TRUE
    /\ UNCHANGED <<request, provider, ways, reply, incoming, buffer, answer, streamed, cut>>

----------------------------------------------------------------------------
(* The answer                                                              *)

\* A reply on the wire: each payload and an empty line, except maybe the last.
Blank(r) == IF r.crlf THEN <<CR, LF, CR, LF>> ELSE <<LF, LF>>
Wire(r) ==
    LET step == Len(Blank(r)) + 1
        whole == Len(r.payloads) * step
        length == IF r.closed \/ whole = 0 THEN whole ELSE whole - Len(Blank(r))
    IN [k \in 1 .. length |-> IF k % step = 1 THEN r.payloads[k \div step + 1]
                              ELSE Blank(r)[(k - 1) % step]]

IsData(token) == token.kind \in {"text", "call", "done"}

\* What a payload adds to a streamed answer: text is shown as it comes.
AppliesOpenAi(ans, p) ==
    CASE p.kind = "text" -> [ans EXCEPT !.text = Append(@, p.of)]
      [] p.kind = "call" -> [ans EXCEPT !.calls[p.index] = Append(@, p.of)]
      [] OTHER -> ans

\* A block's start sets its name instead of adding to it.
Named(parts) == IF Contains(parts, "name") THEN parts ELSE <<"name">> \o parts

AppliesAnthropic(ans, p) ==
    IF p.kind = "call" /\ p.of = "name" THEN [ans EXCEPT !.calls[p.index] = Named(@)]
    ELSE AppliesOpenAi(ans, p)

Applies(ans, p) ==
    IF request.protocol = "openai" THEN AppliesOpenAi(ans, p) ELSE AppliesAnthropic(ans, p)

\* A call without a name: an error of the OpenAI parser, dropped by the other.
Nameless(ans, i) == ans.calls[i] # <<>> /\ ~Contains(ans.calls[i], "name")
Concludes(ans) ==
    IF request.protocol = "openai" /\ \E i \in Indices : Nameless(ans, i)
    THEN calling' = "failed" /\ answer' = ans
    ELSE /\ calling' = "returned"
         /\ answer' = [ans EXCEPT !.calls =
                          [i \in Indices |-> IF Nameless(ans, i) THEN <<>> ELSE @[i]]]

\* Without streaming the body is read as a whole: what its payloads hold, in
\* their order.
Rank(S, n) == Cardinality({m \in S : m <= n})
PartsOf(payloads, S) ==
    [k \in 1 .. Cardinality(S) |-> payloads[CHOOSE n \in S : Rank(S, n) = k].of]

AnswersWhole ==
    /\ calling = "asking" /\ Accepts(Head(ways)) /\ ~request.streaming
    /\ \E r \in ModelReplies :
          /\ reply' = r
          /\ answer' = [text |-> PartsOf(r.payloads, Texts(r.payloads)),
                        calls |-> [i \in Indices |-> PartsOf(r.payloads, Pieces(r.payloads, i))]]
    /\ calling' = "returned"
    /\ UNCHANGED <<request, provider, ways, incoming, buffer, streamed, cut, broken>>

OpensStream ==
    /\ calling = "asking" /\ Accepts(Head(ways)) /\ request.streaming
    /\ \E r \in ModelReplies : reply' = r /\ incoming' = Wire(r)
    /\ calling' = "reading"
    /\ UNCHANGED <<request, provider, ways, buffer, answer, streamed, cut, broken>>

\* find_sse_boundary: where the first event of the buffer ends, and how many
\* tokens part it from the next; the longer mark is looked for first.
BeginsAt(mark, b, i) ==
    i + Len(mark) - 1 <= Len(b) /\ \A j \in DOMAIN mark : b[i + j - 1] = mark[j]
MarkAt(b, i) == IF BeginsAt(<<CR, LF, CR, LF>>, b, i) THEN 4
                ELSE IF BeginsAt(<<LF, LF>>, b, i) THEN 2 ELSE 0
Marks(b) == {i \in DOMAIN b : MarkAt(b, i) > 0}
FirstMark(b) == CHOOSE i \in Marks(b) : \A j \in Marks(b) : i <= j

ReceivesChunk ==
    /\ calling = "reading" /\ Marks(buffer) = {} /\ incoming # <<>>
    /\ \E n \in 1 .. Len(incoming) :
          /\ buffer' = buffer \o SubSeq(incoming, 1, n)
          /\ incoming' = SubSeq(incoming, n + 1, Len(incoming))
    /\ UNCHANGED <<request, provider, ways, calling, reply, answer, streamed, cut, broken>>

\* parse_sse_event and the parser's step: comments count for nothing, and two
\* payloads in one event are no JSON.
Handles(raw, last) ==
    LET data == {i \in DOMAIN raw : IsData(raw[i])}
        payload == IF data = {} THEN Comment ELSE raw[CHOOSE i \in data : TRUE]
        after == Applies(answer, payload)
    IN IF \E i, j \in data : i # j THEN calling' = "failed" /\ UNCHANGED <<answer, streamed>>
       ELSE /\ IF last \/ payload = Done THEN Concludes(after)
               ELSE answer' = after /\ UNCHANGED calling
            /\ streamed' = IF payload.kind = "text" THEN Append(streamed, payload.of)
                           ELSE streamed

HandlesEvent ==
    /\ calling = "reading" /\ Marks(buffer) # {}
    /\ LET i == FirstMark(buffer)
       IN /\ Handles(SubSeq(buffer, 1, i - 1), FALSE)
          /\ buffer' = SubSeq(buffer, i + MarkAt(buffer, i), Len(buffer))
    /\ UNCHANGED <<request, provider, ways, reply, incoming, cut, broken>>

\* Faulty: what is left in the buffer at the end is dropped.
EndsWithoutRest ==
    /\ calling = "reading" /\ Marks(buffer) = {} /\ incoming = <<>>
    /\ Concludes(answer)
    /\ UNCHANGED <<request, provider, ways, reply, incoming, buffer, streamed, cut, broken>>

\* The stream ends, with or without an end mark: what is left is an event too.
StreamEnds ==
    /\ calling = "reading" /\ Marks(buffer) = {} /\ incoming = <<>>
    /\ Handles(buffer, TRUE)
    /\ buffer' = <<>>
    /\ UNCHANGED <<request, provider, ways, reply, incoming, cut, broken>>

\* The connection is closed between two payloads; to the client it has ended.
ConnectionCloses ==
    /\ calling = "reading" /\ incoming # <<>>
    /\ incoming' = <<>> /\ cut' = TRUE
    /\ UNCHANGED <<request, provider, ways, calling, reply, buffer, answer, streamed, broken>>

ModelCallsNext ==
    \/ Calls \/ IsRefused \/ Breaks \/ AnswersWhole \/ OpensStream
    \/ ReceivesChunk \/ HandlesEvent \/ StreamEnds \/ ConnectionCloses

ModelCallsSpec == ModelCallsInit /\ [][ModelCallsNext]_modelVars

----------------------------------------------------------------------------
(* Properties                                                              *)

ModelCallsTypeOK ==
    /\ request \in ModelRequests \cup {NoAsk}
    /\ provider \in [auth : Schemes \cup {"none"}, field : Fields]
    /\ ways \in Seq(Schemes \X Fields)
    /\ calling \in {"idle", "asking", "reading", "returned", "failed"}
    /\ reply \in ModelReplies \cup {NoReply}
    /\ \A seq \in {incoming, buffer} : \A i \in DOMAIN seq : seq[i] \in {CR, LF} \cup ReplyPayloads
    /\ \A i \in DOMAIN streamed : Text(streamed[i]) \in ReplyPayloads
    /\ cut \in BOOLEAN /\ broken \in BOOLEAN

\* The parts are those of the payloads of S, all of them and in their order.
Tells(parts, payloads, S) ==
    Len(parts) = Cardinality(S) /\ \A n \in S : parts[Rank(S, n)] = payloads[n].of
UpTo(S, k) == {n \in S : n <= k}

(***************************************************************************)
(* What the user is shown while a call streams, and what the call returns, *)
(* is what the provider said: no chunk boundary splits, joins, drops or    *)
(* repeats an event (llm.rs:1316-1378), pieces of two tool calls are not   *)
(* mixed up, and no text is shown twice because an attempt was repeated.   *)
(* And a provider that accepts some scheme and some name of the token      *)
(* limit is found (llm.rs:851-870): when nothing else goes wrong a call    *)
(* with a key does not fail, nor one without at a provider that needs none.*)
(***************************************************************************)
AnswersMatchReplies ==
    LET said == reply.payloads
    IN /\ \E k \in 0 .. Len(said) : Tells(streamed, said, UpTo(Texts(said), k))
       /\ calling = "returned" /\ ~cut =>
             /\ Tells(answer.text, said, Texts(said))
             /\ request.streaming => streamed = answer.text
             /\ \A i \in Indices : Tells(answer.calls[i], said, Pieces(said, i))
       /\ calling = "failed" /\ ~broken /\ ~cut => ~request.keyed /\ provider.auth # "none"

=============================================================================
