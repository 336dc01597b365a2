------------------------------- MODULE Streams --------------------------------
(* An answer of an upstream on its way to the client: the lines a stream is    *)
(* made of, the goroutine that reads them, the handler that waits for it, what *)
(* each channel adaptor makes of a line in the client's format, and the usage  *)
(* the handler returns to be billed.  One behaviour is one answer.             *)
(*                                                                             *)
(* A line is named for what it carries ("text", "think" for reasoning, "tool", *)
(* "finish", "usage", "bad" for what does not parse, ...), a chunk sent to the *)
(* client likewise, and every line with content is one token.                  *)
EXTENDS Naturals, Sequences, FiniteSets

CONSTANT Requests       \* the requests a behaviour may be about, each with
                        \* "lines", the bound on the lines of its answer

VARIABLES req,      \* provider, client's format, kind of answer, and settings
          left,     \* lines the upstream may still send
          made,     \* lines with content it has sent
          told,     \* it has reported its usage
          reader,   \* "reading", "got" a line, "stopping" or "done"
          line,     \* the line read
          waiter,   \* the handler: "select", "expired", "final", "returned"
          signals,  \* values in stopChan
          h,        \* the handler's locals and its part of RelayInfo
          out,      \* the chunks written to the client
          billed    \* what the handler returned: err, usage

streamsVars == <<req, left, made, told, reader, line, waiter, signals, h, out, billed>>

Scanned == {"openai", "completions", "responses", "claude", "gemini", "dify", "xai"}
Channelled == {"baidu", "zhipu", "xunfei", "cohere", "palm"}
Looped == {"tencent", "cloudflare", "aws"}

\* The relays that answer in one piece.
Answering == {"openai", "tts", "stt", "responses", "claude", "aws", "gemini",
              "gemini_embedding", "baidu", "baidu_embedding", "zhipu", "xunfei",
              "cohere", "cohere_rerank", "palm", "tencent", "cloudflare",
              "cloudflare_stt", "dify", "xai", "mokaai", "siliconflow"}

\* A stream comes from one of these, a pseudo-stream from the two adaptors that
\* have one.
ASSUME RequestsAssumption ==
    \A r \in Requests :
        /\ r.lines \in Nat /\ r.include \in BOOLEAN
        /\ r.client \in {"openai", "claude"}
        /\ r.kind \in {"stream", "whole", "pseudo"}
        /\ r.kind = "stream" => r.p \in Scanned \cup Channelled \cup Looped
        /\ r.kind = "pseudo" => r.p \in {"openai", "gemini"}
        /\ r.kind = "whole" => r.p \in Answering

\* Mutant: a channel with room for the scanner only.
OneSlot == 1

\* Capacity of the channel that ends a scanned stream.
StopSize == 2

(* ------------------------------ lines and chunks --------------------------- *)
Content == {"text", "think", "tool", "image", "node"}
Reports == {"last", "usage", "delta", "meta", "end"}

\* What each upstream may send.
Lines(p) ==
    CASE p = "openai" -> {"role", "text", "think", "tool", "finish", "last", "usage", "bad"}
      [] p = "completions" -> {"text", "finish", "usage", "bad"}
      [] p = "responses" -> {"text", "usage", "bad"}
      [] p \in {"claude", "aws"} ->
             {"start", "block", "text", "think", "tool", "delta", "stop", "error", "bad"}
      [] p = "gemini" -> {"text", "think", "tool", "image", "end", "bad"}
      [] p = "dify" -> {"text", "node", "end", "error", "bad"}
      [] p = "xai" -> {"text", "think", "tool", "usage", "bad"}
      [] p = "baidu" -> {"text", "last", "bad"}
      [] p = "zhipu" -> {"text", "meta", "bad"}
      [] p = "xunfei" -> {"text", "last", "bad"}
      [] p = "cohere" -> {"text", "finish", "last", "bad"}
      [] p \in {"palm", "tencent", "cloudflare"} -> {"text", "bad"}

Chunk(t) == [t |-> t, i |-> 0, k |-> "none"]
Block(t, i, k) == [t |-> t, i |-> i, k |-> k]
Done == <<Chunk("[DONE]")>>

NoUsage == [p |-> 0, c |-> 0]
\* What is billed where a handler returns no usage: the prompt.
NilUsage == [p |-> 1, c |-> 0]
Reported == [p |-> 1, c |-> made]
ResponseText2Usage(tokens) == [p |-> 1, c |-> tokens]

GenerateFinalUsage == IF req.include THEN <<Chunk("usage")>> ELSE <<>>

\* One line handled: the handler's state after it, what was written, and
\* whether the scanner goes on.
Sent(s, chunks) == [h |-> s, out |-> chunks, more |-> TRUE]
Skipped(s) == Sent(s, <<>>)
Ended(s) == [h |-> s, out |-> <<>>, more |-> FALSE]

\* The end of a handler: what it writes last and returns.
Ending(s, chunks, usage) == [h |-> s, out |-> chunks, usage |-> usage, err |-> FALSE]
Refused(s) == [h |-> s, out |-> <<>>, usage |-> NoUsage, err |-> TRUE]

(* ------------------ OpenAI's format, to either kind of client -------------- *)
\* sendStreamData: raw, parsed and written again ("force"), or with reasoning
\* turned into content between think tags ("think").
SendStreamData(s, e) ==
    LET turns == req.setting # "force"
    IN IF req.setting = "plain" THEN Sent(s, <<Chunk(e)>>)
       ELSE CASE e = "bad" -> Skipped(s)
              [] e = "think" /\ turns /\ s.first ->
                     Sent([s EXCEPT !.first = FALSE, !.hasSent = TRUE], <<Chunk("<think>")>>)
              [] e = "think" /\ turns /\ ~s.first -> Sent(s, <<Chunk("thought")>>)
              [] e = "text" /\ turns /\ s.hasSent /\ ~s.sendLast ->
                     Sent([s EXCEPT !.sendLast = TRUE], <<Chunk("</think>"), Chunk(e)>>)
              [] OTHER -> Sent(s, <<Chunk(e)>>)

StopBlock(i) == <<Block("block_stop", i, "none")>>
Opened(i, k) == <<Block("block_start", i, k)>>
Delta(i, k) == <<Block("block_delta", i, k)>>

\* Mutant: the index is moved after the line is written.
InOldBlock(s, e) ==
    LET new == s.kind # e
        i == IF new THEN s.index + 1 ELSE s.index
    IN Sent([s EXCEPT !.kind = e, !.index = i],
            (IF new THEN StopBlock(s.index) \o Opened(i, e) ELSE <<>>) \o Delta(s.index, e))

\* The block a line belongs to, opened where the line before was of another
\* kind; only text closes a block of thinking, and thinking closes none.
InBlock(s, e) ==
    LET new == s.kind # e
        moves == new /\ (e = "tool" \/ (e = "text" /\ s.kind \in {"think", "tool"}))
        i == IF moves THEN s.index + 1 ELSE s.index
    IN Sent([s EXCEPT !.kind = e, !.index = i],
            (IF moves THEN StopBlock(s.index) ELSE <<>>)
            \o (IF new THEN Opened(i, e) ELSE <<>>) \o Delta(i, e))

\* The first line is spent on message_start; a line without choices and one
\* with a finish reason give nothing, even as the last.
StreamResponseOpenAI2Claude(s, e) ==
    CASE s.count = 1 ->
             Sent(s, <<Chunk("message_start")>> \o (IF e = "tool" THEN Opened(0, e) ELSE <<>>))
      [] s.count # 1 /\ e \in {"usage", "finish", "last"} -> Skipped(s)
      [] s.count # 1 /\ e \notin {"usage", "finish", "last"} /\ s.done ->
             Sent(s, StopBlock(s.index) \o <<Chunk("message_delta"), Chunk("message_stop")>>)
      [] s.count # 1 /\ e \in {"text", "think", "tool"} /\ ~s.done -> InBlock(s, e)
      [] OTHER -> Skipped(s)

HandleStreamFormat(s, e) ==
    LET t == [s EXCEPT !.count = @ + 1]
    IN CASE req.client = "openai" -> SendStreamData(t, e)
         [] req.client = "claude" /\ e = "bad" -> Skipped(t)
         [] OTHER -> StreamResponseOpenAI2Claude(t, e)

\* A line is kept until the next one comes, so that the last is known as such.
OaiHandleData(s, e) ==
    LET r == IF s.last = "none" THEN Skipped(s) ELSE HandleStreamFormat(s, s.last)
    IN Sent([r.h EXCEPT !.last = e, !.items = Append(@, e),
                        !.use = IF e \in Reports THEN Reported ELSE @], r.out)

\* Mutant: the line kept back is not counted.
CountedBeforeLast(items) == {n \in DOMAIN items : n < Len(items)}

\* The lines whose text is counted: a chat's up to the first that does not parse.
Counted(items) ==
    {n \in DOMAIN items : req.p # "completions" => \A m \in 1..n : items[m] # "bad"}

\* Of the lines at these places, how many have content, and whether there is a tool's.
TextOf(items, places) == Cardinality({n \in places : items[n] \in Content})
ToolsOf(items, places) == IF \E n \in places : items[n] = "tool" THEN 1 ELSE 0

HandleFinalResponse(s, counted) ==
    CASE req.client = "openai" -> (IF counted THEN GenerateFinalUsage ELSE <<>>) \o Done
      [] req.client = "claude" /\ s.last \in {"none", "bad"} -> <<>>
      [] OTHER -> StreamResponseOpenAI2Claude([s EXCEPT !.done = TRUE], s.last).out

\* The end of OaiStreamHandler: the last line (in OpenAI's format whoever
\* asked), the usage it carries or the one counted, and the final chunks.  An
\* answer without text or tools is billed nothing.
OaiStreamEnd(s) ==
    LET e == s.last
        given == e \in {"last", "usage"}
        last == IF e # "none" /\ (~given \/ req.include \/ e = "last")
                THEN SendStreamData(s, e) ELSE Skipped(s)
        text == TextOf(s.items, Counted(s.items))
        tools == ToolsOf(s.items, Counted(s.items))
        empty == text = 0
    IN Ending([last.h EXCEPT !.done = TRUE],
              last.out \o HandleFinalResponse(last.h, empty \/ ~given),
              CASE empty -> NoUsage
                [] ~empty /\ given -> s.use
                [] OTHER -> ResponseText2Usage(text + 7 * tools))

\* The Responses API: every line is passed on, the last one reports.
ResponsesHandleData(s, e) ==
    CASE e = "bad" -> Skipped(s)
      [] e = "usage" -> Sent([s EXCEPT !.use = Reported], <<Chunk(e)>>)
      [] e = "text" -> Sent([s EXCEPT !.text = @ + 1], <<Chunk(e)>>)

OaiResponsesStreamEnd(s) ==
    Ending(s, Done, IF s.use.c = 0 THEN [s.use EXCEPT !.c = s.text] ELSE s.use)

(* ------------------------------ the other formats -------------------------- *)
\* What a Claude upstream's event is to a client in OpenAI's format.
StreamResponseClaude2OpenAI(e) ==
    CASE e = "start" -> <<Chunk("role")>>
      [] e = "delta" -> <<Chunk("finish")>>
      [] e \in {"block", "text", "think", "tool"} -> <<Chunk(e)>>
      [] OTHER -> <<>>

\* Only message_start, message_delta and text change what will be billed; a
\* client in Claude's format is also billed what message_start reports.
FormatClaudeResponseInfo(s, e) ==
    CASE e = "start" -> [s EXCEPT !.use.p = 1, !.use.c = IF req.client = "claude" THEN 1 ELSE @]
      [] e = "text" -> [s EXCEPT !.text = @ + 1]
      [] e = "delta" -> [s EXCEPT !.use.c = made]
      [] OTHER -> s

HandleStreamResponseData(s, e) ==
    IF e \in {"bad", "error"} THEN Ended([s EXCEPT !.err = TRUE])
    ELSE Sent(FormatClaudeResponseInfo(s, e),
              IF req.client = "claude" THEN <<Chunk(e)>> ELSE StreamResponseClaude2OpenAI(e))

HandleStreamFinalResponse(s) ==
    IF s.err THEN Refused(s)
    ELSE Ending(s, IF req.client = "claude" THEN <<>> ELSE GenerateFinalUsage \o Done,
                IF s.use.c = 0 THEN [s.use EXCEPT !.c = s.text] ELSE s.use)

\* STOP is taken off the line that has it and sent as a chunk of its own.
StreamResponseGeminiChat2OpenAI(e) ==
    IF e = "end" THEN <<Chunk(e), Chunk("finish")>> ELSE <<Chunk(e)>>

GeminiHandleData(s, e) ==
    IF e = "bad" THEN Ended(s)
    ELSE Sent([s EXCEPT !.images = IF e = "image" THEN @ + 1 ELSE @,
                        !.use = IF e = "end" THEN Reported ELSE @],
              StreamResponseGeminiChat2OpenAI(e))

GeminiStreamEnd(s) ==
    Ending(s, GenerateFinalUsage \o Done,
           IF s.use.c = 0 THEN [s.use EXCEPT !.c = s.images * 258] ELSE s.use)

\* Without a report the tokens of a fixed name are billed, the arguments of the
\* count being exchanged; a workflow's nodes are added to either.
DifyHandleData(s, e) ==
    CASE e = "bad" -> Skipped(s)
      [] e = "end" -> Ended([s EXCEPT !.use = Reported])
      [] e = "error" -> Ended(s)
      [] e = "text" -> Sent([s EXCEPT !.text = @ + 1], <<Chunk(e)>>)
      [] e = "node" -> Sent([s EXCEPT !.tools = @ + 1], <<Chunk("think")>>)

DifyStreamEnd(s) ==
    Ending(s, Done, [p |-> 1, c |-> s.tools + (IF s.use = NoUsage THEN 1 ELSE s.use.c)])

XaiHandleData(s, e) ==
    IF e = "bad" THEN Skipped(s)
    ELSE Sent([s EXCEPT !.use = IF e = "usage" THEN Reported ELSE @, !.items = Append(@, e)],
              <<Chunk(e)>>)

XaiStreamEnd(s) ==
    Ending(s, Done, IF s.use # NoUsage THEN s.use
                    ELSE ResponseText2Usage(TextOf(s.items, DOMAIN s.items)
                                            + 7 * ToolsOf(s.items, DOMAIN s.items)))

\* Baidu: the usage of the latest line that has one, or nothing.
BaiduHandleData(s, e) ==
    IF e = "bad" THEN Skipped(s)
    ELSE Sent([s EXCEPT !.use = IF e = "last" THEN Reported ELSE @], <<Chunk(e)>>)

\* Zhipu: the usage comes on a channel of its own; without it there is none.
ZhipuHandleData(s, e) ==
    CASE e = "bad" -> Skipped(s)
      [] e = "meta" -> Sent([s EXCEPT !.use = Reported], <<Chunk("finish")>>)
      [] OTHER -> Sent(s, <<Chunk(e)>>)
ZhipuUsage(s) == IF s.use = NoUsage THEN NilUsage ELSE s.use

\* Xunfei: usages are summed over the messages of a websocket.
XunfeiHandleData(s, e) ==
    Sent([s EXCEPT !.use = IF e = "last" THEN [p |-> @.p + 1, c |-> @.c + made] ELSE @],
         <<Chunk(e)>>)

CohereHandleData(s, e) ==
    CASE e = "bad" -> Skipped(s)
      [] e = "last" -> Sent([s EXCEPT !.use = Reported], <<Chunk("finish")>>)
      [] e = "finish" -> Sent(s, <<Chunk(e)>>)
      [] e = "text" -> Sent([s EXCEPT !.text = @ + 1], <<Chunk(e)>>)
CohereUsage(s) == IF s.use.p = 0 THEN ResponseText2Usage(s.text) ELSE s.use

\* PaLM, Tencent and Cloudflare: the text is counted; PaLM's as soon as its one
\* body is read, sent or not.
PalmHandleData(s, e) ==
    IF e = "bad" THEN Skipped(s) ELSE Sent([s EXCEPT !.text = @ + 1], <<Chunk(e)>>)
TencentHandleData(s, e) == PalmHandleData(s, e)
CfHandleData(s, e) == PalmHandleData(s, e)
PalmUsage(s) == ResponseText2Usage(IF reader = "got" THEN s.text + 1 ELSE s.text)
CfStreamEnd(s) == Ending(s, GenerateFinalUsage \o Done, ResponseText2Usage(s.text))

HandleData(s, e) ==
    CASE req.p \in {"openai", "completions"} -> OaiHandleData(s, e)
      [] req.p = "responses" -> ResponsesHandleData(s, e)
      [] req.p \in {"claude", "aws"} -> HandleStreamResponseData(s, e)
      [] req.p = "gemini" -> GeminiHandleData(s, e)
      [] req.p = "dify" -> DifyHandleData(s, e)
      [] req.p = "xai" -> XaiHandleData(s, e)
      [] req.p = "baidu" -> BaiduHandleData(s, e)
      [] req.p = "zhipu" -> ZhipuHandleData(s, e)
      [] req.p = "xunfei" -> XunfeiHandleData(s, e)
      [] req.p = "cohere" -> CohereHandleData(s, e)
      [] req.p = "palm" -> PalmHandleData(s, e)
      [] req.p = "tencent" -> TencentHandleData(s, e)
      [] req.p = "cloudflare" -> CfHandleData(s, e)

\* What is left to do when the stream is over; the handlers on channels have
\* sent their [DONE] by then.
StreamEnd(s) ==
    CASE req.p \in {"openai", "completions"} -> OaiStreamEnd(s)
      [] req.p = "responses" -> OaiResponsesStreamEnd(s)
      [] req.p \in {"claude", "aws"} -> HandleStreamFinalResponse(s)
      [] req.p = "gemini" -> GeminiStreamEnd(s)
      [] req.p = "dify" -> DifyStreamEnd(s)
      [] req.p = "xai" -> XaiStreamEnd(s)
      [] req.p = "cloudflare" -> CfStreamEnd(s)
      [] req.p = "tencent" -> Ending(s, Done, ResponseText2Usage(s.text))
      [] req.p = "zhipu" -> Ending(s, <<>>, ZhipuUsage(s))
      [] req.p = "cohere" -> Ending(s, <<>>, CohereUsage(s))
      [] req.p = "palm" -> Ending(s, <<>>, PalmUsage(s))
      [] OTHER -> Ending(s, <<>>, s.use)

(* --------------------- answers that come in one piece ---------------------- *)
\* A body that could not be read, does not parse, reports an error, has nothing
\* to say, or has text, a call of a tool, or data (vectors, ranks, audio); and
\* whether it has a usage.
Bodies == {"unread", "bad", "error", "empty", "text", "tool", "data"}

Given(g) == IF g THEN [p |-> 1, c |-> 1] ELSE NoUsage
Answer(b, usage) == Ending(h, <<Chunk(b)>>, usage)
CountedBody(b) == ResponseText2Usage(IF b = "text" THEN 1 ELSE 0)
Unless(refusing, b, answer) == IF b \in refusing THEN Refused(h) ELSE answer

\* Anything without text, a tool's call and embeddings too, is billed nothing.
OpenaiHandler(b, g) ==
    Unless({"unread", "bad", "error"}, b,
           Answer(b, CASE b # "text" -> NoUsage
                       [] b = "text" /\ g -> Given(g)
                       [] OTHER -> CountedBody(b)))
OpenaiTTSHandler(b, g) == Unless({"unread"}, b, Answer(b, NilUsage))
OpenaiSTTHandler(b, g) == Unless({"unread"}, b, Answer(b, NilUsage))
OpenaiResponsesHandler(b, g) == Unless({"unread", "bad", "error"}, b, Answer(b, Given(g)))
ClaudeHandler(b, g) == Unless({"unread", "bad", "error"}, b, Answer(b, Given(g)))
\* The error found in the body is dropped.
AwsHandler(b, g) ==
    Unless({"unread"}, b, IF b \in {"bad", "error"} THEN Ending(h, <<>>, NoUsage)
                          ELSE Answer(b, Given(g)))
GeminiChatHandler(b, g) == Unless({"unread", "bad", "error", "empty"}, b, Answer(b, Given(g)))
GeminiEmbeddingHandler(b, g) == Unless({"unread", "bad"}, b, Answer(b, NilUsage))
BaiduHandler(b, g) == Unless({"unread", "bad", "error"}, b, Answer(b, Given(g)))
BaiduEmbeddingHandler(b, g) == Unless({"unread", "bad", "error"}, b, Answer(b, Given(g)))
ZhipuHandler(b, g) == Unless({"unread", "bad", "error"}, b, Answer(b, Given(g)))
\* A message without text is passed over with its usage.
XunfeiHandler(b, g) == Unless({"unread"}, b, Answer(b, Given(g /\ b = "text")))
CohereHandler(b, g) == Unless({"unread", "bad"}, b, Answer(b, Given(g)))
CohereRerankHandler(b, g) ==
    Unless({"unread", "bad"}, b, Answer(b, IF g THEN Given(g) ELSE NilUsage))
PalmHandler(b, g) == Unless({"unread", "bad", "error", "empty"}, b, Answer(b, CountedBody(b)))
TencentHandler(b, g) == Unless({"unread", "bad", "error"}, b, Answer(b, Given(g)))
CfHandler(b, g) == Unless({"unread", "bad"}, b, Answer(b, CountedBody(b)))
CfSTTHandler(b, g) == Unless({"unread", "bad"}, b, Answer(b, CountedBody(b)))
DifyHandler(b, g) == Unless({"unread", "bad"}, b, Answer(b, Given(g)))
\* A body that does not parse is neither passed on nor an error.
XaiHandler(b, g) ==
    IF b \in {"unread", "bad"} THEN Ending(h, <<>>, NilUsage) ELSE Answer(b, Given(g))
MokaEmbeddingHandler(b, g) == Unless({"unread", "bad"}, b, Answer(b, Given(g)))
SiliconflowRerankHandler(b, g) == Unless({"unread", "bad"}, b, Answer(b, Given(g)))

\* A stream made of one body, for upstreams that cannot stream.
PseudoStream(b, usage) == Ending(h, <<Chunk(b)>> \o GenerateFinalUsage \o Done, usage)
OpenaiPseudoStreamHandler(b, g) ==
    Unless({"unread", "bad", "error"}, b,
           PseudoStream(b, IF g THEN Given(g) ELSE CountedBody(b)))
GeminiChatPseudoStreamHandler(b, g) ==
    Unless({"unread", "bad", "error", "empty"}, b, PseudoStream(b, Given(g)))

DoResponse(b, g) ==
    CASE req.kind = "pseudo" /\ req.p = "openai" -> OpenaiPseudoStreamHandler(b, g)
      [] req.kind = "pseudo" /\ req.p = "gemini" -> GeminiChatPseudoStreamHandler(b, g)
      [] req.kind = "whole" ->
           CASE req.p = "openai" -> OpenaiHandler(b, g)
             [] req.p = "tts" -> OpenaiTTSHandler(b, g)
             [] req.p = "stt" -> OpenaiSTTHandler(b, g)
             [] req.p = "responses" -> OpenaiResponsesHandler(b, g)
             [] req.p = "claude" -> ClaudeHandler(b, g)
             [] req.p = "aws" -> AwsHandler(b, g)
             [] req.p = "gemini" -> GeminiChatHandler(b, g)
             [] req.p = "gemini_embedding" -> GeminiEmbeddingHandler(b, g)
             [] req.p = "baidu" -> BaiduHandler(b, g)
             [] req.p = "baidu_embedding" -> BaiduEmbeddingHandler(b, g)
             [] req.p = "zhipu" -> ZhipuHandler(b, g)
             [] req.p = "xunfei" -> XunfeiHandler(b, g)
             [] req.p = "cohere" -> CohereHandler(b, g)
             [] req.p = "cohere_rerank" -> CohereRerankHandler(b, g)
             [] req.p = "palm" -> PalmHandler(b, g)
             [] req.p = "tencent" -> TencentHandler(b, g)
             [] req.p = "cloudflare" -> CfHandler(b, g)
             [] req.p = "cloudflare_stt" -> CfSTTHandler(b, g)
             [] req.p = "dify" -> DifyHandler(b, g)
             [] req.p = "xai" -> XaiHandler(b, g)
             [] req.p = "mokaai" -> MokaEmbeddingHandler(b, g)
             [] req.p = "siliconflow" -> SiliconflowRerankHandler(b, g)

(* ------------------------------- the machinery ----------------------------- *)
Locals == [last |-> "none", items |-> <<>>, use |-> NoUsage, text |-> 0, tools |-> 0,
           images |-> 0, count |-> 0, kind |-> "none", index |-> 0, done |-> FALSE,
           first |-> TRUE, hasSent |-> FALSE, sendLast |-> FALSE, err |-> FALSE]

StreamsInit ==
    /\ req \in Requests
    /\ left = req.lines
    /\ made = 0
    /\ told = FALSE
    /\ reader = IF req.kind = "stream" THEN "reading" ELSE "done"
    /\ line = "none"
    /\ waiter = "select"
    /\ signals = 0
    /\ h = Locals
    /\ out = <<>>
    /\ billed = [err |-> FALSE, usage |-> NoUsage, early |-> FALSE]

\* The upstream sends a line: Claude's message_start first, what it generates
\* before it reports its usage.  PaLM's and Xunfei's readers parse it themselves.
Read ==
    /\ reader = "reading"
    /\ left > 0
    /\ \E e \in Lines(req.p) :
        /\ e = "start" => left = req.lines
        /\ e \in Content => ~told
        /\ line' = e
        /\ left' = left - 1
        /\ made' = IF e \in Content THEN made + 1 ELSE made
        /\ told' = (told \/ e \in Reports)
        /\ reader' = IF req.p \in {"palm", "xunfei"} /\ e = "bad" THEN "stopping" ELSE "got"
    /\ UNCHANGED <<req, waiter, signals, h, out, billed>>

\* The body ends, or is cut short, or has been closed by the handler.
EndOfBody ==
    /\ reader = "reading"
    /\ reader' = "stopping"
    /\ UNCHANGED <<req, left, made, told, line, waiter, signals, h, out, billed>>

Apply(r) ==
    /\ h' = r.h
    /\ out' = out \o r.out

\* The scanner's goroutine calls dataHandler itself, whether or not the handler
\* still waits for it.
HandleScanned ==
    /\ req.p \in Scanned
    /\ reader = "got"
    /\ LET r == HandleData(h, line)
       IN Apply(r) /\ reader' = IF r.more THEN "reading" ELSE "stopping"
    /\ UNCHANGED <<req, left, made, told, line, waiter, signals, billed>>

\* SafeSendBool: a closed channel is no error, a full one blocks.
StopScanned ==
    /\ req.p \in Scanned
    /\ reader = "stopping"
    /\ IF waiter \in {"select", "expired"}
       THEN signals < StopSize /\ signals' = signals + 1
       ELSE UNCHANGED signals
    /\ reader' = "done"
    /\ UNCHANGED <<req, left, made, told, line, waiter, h, out, billed>>

Receive ==
    /\ waiter = "select"
    /\ signals > 0
    /\ signals' = signals - 1
    /\ waiter' = "final"
    /\ UNCHANGED <<req, left, made, told, reader, line, h, out, billed>>

\* The timer fires, at any time, even beside a value in stopChan ...
Expire ==
    /\ req.p \in Scanned
    /\ req.kind = "stream"
    /\ waiter = "select"
    /\ waiter' = "expired"
    /\ UNCHANGED <<req, left, made, told, reader, line, signals, h, out, billed>>

\* ... and the handler sends to stopChan, which it alone receives from.
SendExpired ==
    /\ waiter = "expired"
    /\ signals < StopSize
    /\ signals' = signals + 1
    /\ waiter' = "final"
    /\ UNCHANGED <<req, left, made, told, reader, line, h, out, billed>>

\* Unbuffered channels between the reader and c.Stream, which looks between two
\* steps whether the client has gone.
HandOver ==
    /\ req.p \in Channelled
    /\ reader = "got"
    /\ waiter = "select"
    /\ Apply(HandleData(h, line))
    /\ reader' = IF req.p = "palm" \/ (req.p = "xunfei" /\ line = "last")
                 THEN "stopping" ELSE "reading"
    /\ waiter' \in {"select", "final"}
    /\ UNCHANGED <<req, left, made, told, line, signals, billed>>

GoneAtOnce ==
    /\ req.p \in Channelled
    /\ req.kind = "stream"
    /\ waiter = "select"
    /\ left = req.lines
    /\ waiter' = "final"
    /\ UNCHANGED <<req, left, made, told, reader, line, signals, h, out, billed>>

HandStop ==
    /\ req.p \in Channelled
    /\ reader = "stopping"
    /\ waiter = "select"
    /\ out' = out \o Done
    /\ reader' = "done"
    /\ waiter' = "final"
    /\ UNCHANGED <<req, left, made, told, line, signals, h, billed>>

\* Handlers that read the body themselves.
LoopHandle ==
    /\ req.p \in Looped
    /\ reader = "got"
    /\ LET r == HandleData(h, line)
       IN /\ Apply(r)
          /\ reader' = IF r.more THEN "reading" ELSE "done"
          /\ waiter' = IF r.more THEN "select" ELSE "final"
    /\ UNCHANGED <<req, left, made, told, line, signals, billed>>

LoopEnd ==
    /\ req.p \in Looped
    /\ reader = "stopping"
    /\ reader' = "done"
    /\ waiter' = "final"
    /\ UNCHANGED <<req, left, made, told, line, signals, h, out, billed>>

Return(r) ==
    /\ Apply(r)
    /\ billed' = [err |-> r.err, usage |-> r.usage, early |-> reader # "done"]
    /\ waiter' = "returned"

Finish ==
    /\ waiter = "final"
    /\ Return(StreamEnd(h))
    /\ UNCHANGED <<req, left, made, told, reader, line, signals>>

Whole ==
    /\ req.kind # "stream"
    /\ waiter = "select"
    /\ \E b \in Bodies, g \in BOOLEAN : Return(DoResponse(b, g))
    /\ UNCHANGED <<req, left, made, told, reader, line, signals>>

StreamsNext ==
    \/ Read \/ EndOfBody
    \/ HandleScanned \/ StopScanned \/ Receive \/ Expire \/ SendExpired
    \/ HandOver \/ GoneAtOnce \/ HandStop
    \/ LoopHandle \/ LoopEnd
    \/ Finish \/ Whole

\* The goroutines run and the timer fires; an upstream owes neither a line nor
\* an end, but a body the handler has closed ends.
Fairness ==
    /\ WF_streamsVars(HandleScanned) /\ WF_streamsVars(StopScanned) /\ WF_streamsVars(Receive)
    /\ WF_streamsVars(Expire) /\ WF_streamsVars(SendExpired)
    /\ WF_streamsVars(HandOver) /\ WF_streamsVars(HandStop)
    /\ WF_streamsVars(LoopHandle) /\ WF_streamsVars(LoopEnd)
    /\ WF_streamsVars(Finish) /\ WF_streamsVars(Whole)
    /\ WF_streamsVars(EndOfBody /\ waiter = "returned")

StreamsSpec == StreamsInit /\ [][StreamsNext]_streamsVars /\ Fairness

(* -------------------------------- properties ------------------------------- *)
Places(t) == {n \in DOMAIN out : out[n].t = t}

\* A client of a stream in OpenAI's format is told once, last, that it is over,
\* unless its handler returned an error, or left before its reader.
EndsOnce ==
    (waiter = "returned" /\ ~billed.err /\ ~billed.early /\ req.client = "openai"
       /\ req.kind # "whole")
    => Places("[DONE]") = {Len(out)}

\* Reasoning turned into content stands in one pair of tags as far as content
\* comes after it: no content inside, no tag twice (sendStreamData).
ThinkTags ==
    /\ Cardinality(Places("<think>")) <= 1
    /\ Cardinality(Places("</think>")) <= 1
    /\ \A n \in Places("text"), m \in Places("<think>") :
         n > m => \E c \in Places("</think>") : m < c /\ c < n

\* For a client in Claude's format every delta is in the block opened last, of
\* its index and kind, and not closed since (StreamResponseOpenAI2Claude).
BlocksHold ==
    \A n \in Places("block_delta") :
        \E m \in Places("block_start") :
            /\ m < n
            /\ out[m].i = out[n].i /\ out[m].k = out[n].k
            /\ \A c \in Places("block_start") \cup Places("block_stop") : c <= m \/ c > n

\* The indices of blocks never go back, and a block that was closed is neither
\* opened, nor written to, nor closed again; message_stop comes once and last,
\* behind the end of a block and the usage.  (A reader that outlives its handler
\* closes the last block again for every line it still reads.)
BlockPlaces == Places("block_start") \cup Places("block_delta") \cup Places("block_stop")
BlocksMoveOn ==
    ~billed.early =>
        /\ \A m, n \in BlockPlaces :
             m < n => out[m].i <= out[n].i /\ (out[m].t = "block_stop" => out[m].i < out[n].i)
        /\ \A n \in Places("message_stop") :
             /\ n = Len(out) /\ n - 1 \in Places("message_delta")
             /\ n - 2 \in Places("block_stop")

\* The marks a client finds its way by stand where they belong, whatever the
\* upstream sent in whatever order and wherever it stopped: [DONE], the think
\* tags, and the blocks of Claude's format.  It does not say that a client of
\* Claude's format can read all it is sent: the code sends it the last line as it
\* came, a message_start too many or none, an answer without message_stop, the end
\* of a block that was never opened, or one opened while another is open (README).
MarksInOrder == EndsOnce /\ ThinkTags /\ BlocksHold /\ BlocksMoveOn

Counting ==
    \/ req.p \in {"openai", "completions", "responses", "xai", "cohere", "palm",
                  "tencent", "cloudflare"}
    \/ req.p \in {"claude", "aws"} /\ req.client = "openai"
Knows == IF req.p \in {"claude", "aws"} THEN told ELSE h.use.p > 0

\* The text a streaming client has been sent is billed: what the upstream
\* reported covers it, and where no report came the handlers that count bill
\* what they passed on.  (A reader that outlives its handler, and a line of a
\* chat that does not parse, take what follows them out of the count.)
DeliveredIsBilled ==
    (/\ waiter = "returned" /\ ~billed.err /\ req.kind = "stream"
     /\ ~(billed.early /\ req.p \in Scanned)
     /\ ~(req.p = "openai" /\ \E n \in DOMAIN h.items : h.items[n] = "bad")
     /\ (Counting \/ Knows))
    => billed.usage.c >= Cardinality(Places("text"))
                           + Cardinality({n \in Places("block_delta") : out[n].k = "text"})

\* A scanned stream always comes back to its client and lets its goroutine go,
\* even if the upstream falls silent; the others when the upstream ends.
StreamsEnd ==
    /\ req.p \in Scanned ~> waiter = "returned" /\ reader = "done"
    /\ reader = "stopping" ~> waiter = "returned"
=============================================================================
