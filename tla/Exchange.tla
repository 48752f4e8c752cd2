------------------------------ MODULE Exchange ------------------------------
(***************************************************************************)
(* One HTTP exchange on each of the server adapters: the request's body is *)
(* streamed to the handler and counted against maxBodyBytes                *)
(* (src/src/runtime/adapter/node.ts, body-limit.ts, bun.ts, workers.ts),   *)
(* the handler answers or fails at any time, and the response is written   *)
(* chunk by chunk with back-pressure (node-response.ts, lambda.ts).  The   *)
(* client sends, fails, stalls and hangs up when it likes.                 *)
(*                                                                         *)
(* A body is a number of chunks of one byte.  The body stream is one of    *)
(* the WHATWG: enqueue and close on a controller that is not readable      *)
(* throw, which inside an event listener ends the process: fatal.  So does *)
(* the listener of Node.js for a method the constructor of Request refuses.*)
(***************************************************************************)
EXTENDS Naturals

CONSTANTS
  MaxBody,    \* maxBodyBytes
  MaxSent,    \* bound on the chunks a client sends
  MaxChunks   \* bound on the chunks of a response's own body

ASSUME ExchangeAssumption == {MaxBody, MaxSent, MaxChunks} \subseteq Nat

VARIABLES
  host,       \* the adapter: "lambda" streams, "buffered" does not
  received,   \* chunks that have reached the adapter
  enqueued,   \* chunks put into the body stream
  upload,     \* the client's side of the body: "sending", "ended" or "failed"
  body,       \* the body stream: "readable", "closed", "errored" or "cancelled"
  exceeded,   \* limit.exceeded
  handler,    \* "none", "running", "answered" or "failed"
  content,    \* the body of the response: "null", "own" or "echo", the request's
  writer,     \* the loop of writeResponse: "no", "reading", "draining" or "done"
  written, head, reply, \* chunks written; the status sent; "open", "ended" or "destroyed"
  reported,   \* the error was given to onError, or rejects the handler's promise
  fatal       \* a listener has thrown: the process ends, and its connections

requestVars  == <<received, enqueued, upload, body, exceeded>>
responseVars == <<writer, written, head, reply, reported>>
exchangeVars == <<host, requestVars, handler, content, responseVars, fatal>>

\* The two handlers of Lambda: one streams the response, one answers with all of it.
Lambda == {"lambda", "buffered"}
Hosts  == {"node", "bun", "workers"} \cup Lambda

ExchangeTypeOK ==
  /\ host \in Hosts
  /\ received \in 0..MaxSent /\ enqueued \in 0..MaxSent /\ written \in Nat
  /\ upload \in {"sending", "ended", "failed"}
  /\ body \in {"readable", "closed", "errored", "cancelled"}
  /\ handler \in {"none", "running", "answered", "failed"}
  /\ content \in {"null", "own", "echo"} /\ head \in {0, 200, 400, 413, 500}
  /\ writer \in {"no", "reading", "draining", "done"}
  /\ reply \in {"open", "ended", "destroyed"}
  /\ exceeded \in BOOLEAN /\ reported \in BOOLEAN /\ fatal \in BOOLEAN

ExchangeInit ==
  /\ host \in Hosts
  /\ received = 0 /\ enqueued = 0 /\ upload = "sending" /\ body = "readable" /\ exceeded = FALSE
  /\ handler = "none" /\ content = "null" /\ writer = "no" /\ written = 0
  /\ head = 0 /\ reply = "open" /\ reported = FALSE /\ fatal = FALSE

-----------------------------------------------------------------------------
(* The request. *)

SendPlain(status) == head' = status /\ reply' = "ended"

\* Bun's request is made anew on the configured origin, unless its URL does not parse.
BunRefuses == host = "bun" /\ SendPlain(400)

\* Lambda's promise rejects: nothing (more) is sent.
Rejects == reported' = TRUE /\ reply' = "destroyed" /\ UNCHANGED head

\* An event whose URL, method or base64 body cannot be made a Request.
LambdaRefuses == host \in Lambda /\ Rejects

\* `new Request` refuses the method (it does TRACE): toRequest is called in the listener of
\* "request" outside any try.
ListenerThrows == host = "node" /\ fatal' = TRUE /\ reply' = "destroyed" /\ UNCHANGED <<head, reported>>

\* A target that is not a path is refused (not by Workers), a declared length over the
\* limit too (Bun's server does that by itself, Lambda has no limit).
Refuse ==
  /\ handler = "none" /\ reply = "open"
  /\ \/ host = "node" /\ SendPlain(400) /\ UNCHANGED <<reported, fatal>>
     \/ BunRefuses /\ UNCHANGED <<reported, fatal>>
     \/ LambdaRefuses /\ UNCHANGED fatal
     \/ host \notin Lambda /\ SendPlain(413) /\ UNCHANGED <<reported, fatal>>
     \/ ListenerThrows
  /\ UNCHANGED <<host, requestVars, handler, content, writer, written>>

HandlerStarts ==
  /\ handler = "none" /\ reply = "open"
  /\ handler' = "running"
  /\ UNCHANGED <<host, requestVars, content, responseVars, fatal>>

\* A chunk arrives.  Node.js hears of it in any state of the stream; the others pull, which
\* a stream that is not readable does not.  The one that crosses the limit errors the stream.
Chunk ==
  /\ handler # "none" /\ upload = "sending" /\ received < MaxSent
  /\ host = "node" \/ body = "readable"
  /\ received' = received + 1
  /\ IF exceeded \/ body = "cancelled" THEN UNCHANGED <<enqueued, body, exceeded, fatal>>
     ELSE IF received + 1 > MaxBody /\ host \notin Lambda
     THEN exceeded' = TRUE /\ body' = "errored" /\ UNCHANGED <<enqueued, fatal>>
     ELSE /\ enqueued' = enqueued + 1 /\ fatal' = (fatal \/ body # "readable")
          /\ UNCHANGED <<body, exceeded>>
  /\ UNCHANGED <<host, upload, handler, content, responseVars>>

\* The "end" event closes the stream unless it is errored or cancelled.
UploadEnds ==
  /\ handler # "none" /\ upload = "sending"
  /\ upload' = "ended"
  /\ IF exceeded \/ body = "cancelled" THEN UNCHANGED <<body, fatal>>
     ELSE body' = "closed" /\ fatal' = (fatal \/ body # "readable")
  /\ UNCHANGED <<host, received, enqueued, exceeded, handler, content, responseVars>>

\* The "error" event: error() on a stream that is no longer readable does nothing.
Errored == IF body = "readable" THEN "errored" ELSE body

-----------------------------------------------------------------------------
(* The handler. *)

\* It may give up the body at any time, also after it has answered.
HandlerCancels ==
  /\ handler # "none" /\ content # "echo" /\ body = "readable"
  /\ body' = "cancelled"
  /\ UNCHANGED <<host, received, enqueued, upload, exceeded, handler, content, responseVars, fatal>>

\* 413, or the end of the connection if the response had begun.
SendPayloadTooLarge ==
  IF head # 0 THEN reply' = "destroyed" /\ UNCHANGED head ELSE SendPlain(413)

\* Bun hands the platform a response, whatever the handler did, and reports what it threw.
BunAnswers ==
  /\ SendPlain(IF exceeded THEN 413 ELSE IF handler' = "failed" THEN 500 ELSE 200)
  /\ reported' = (handler' = "failed" /\ ~exceeded)

\* Workers does so too; Node.js and Lambda write the response.
HandlerAnswers(c) ==
  /\ handler = "running"
  /\ c = "echo" => body # "cancelled"
  /\ handler' = "answered" /\ content' = c
  /\ \/ host = "bun" /\ BunAnswers /\ UNCHANGED writer
     \/ host # "bun" /\ exceeded /\ SendPayloadTooLarge /\ UNCHANGED <<writer, reported>>
     \/ host = "workers" /\ ~exceeded /\ SendPlain(200) /\ UNCHANGED <<writer, reported>>
     \/ /\ host \in {"node"} \cup Lambda /\ ~exceeded
        /\ \/ c = "null" /\ SendPlain(200) /\ writer' = "done" /\ UNCHANGED reported
           \/ c # "null" /\ writer' = "reading" /\ UNCHANGED <<head, reply, reported>>
  /\ UNCHANGED <<host, requestVars, written, fatal>>

\* A handler that rejects: 500; Lambda rejects its promise.
HandlerFails ==
  /\ handler = "running"
  /\ handler' = "failed"
  /\ \/ host = "bun" /\ BunAnswers
     \/ host # "bun" /\ exceeded /\ SendPayloadTooLarge /\ UNCHANGED reported
     \/ host \in Lambda /\ ~exceeded /\ Rejects
     \/ host \in {"node", "workers"} /\ ~exceeded /\ SendPlain(500) /\ UNCHANGED reported
  /\ UNCHANGED <<host, requestVars, content, writer, written, fatal>>

-----------------------------------------------------------------------------
(* The response: reader.read() answers with a chunk, the end or an error. *)

SendHead == IF head = 0 THEN 200 ELSE head

\* The status goes out with the first chunk; Lambda's result is made of the whole body.
HeadAfterChunk == IF host = "buffered" THEN head ELSE SendHead

GivesChunk == IF content = "own" THEN written < MaxChunks
              ELSE body \in {"readable", "closed"} /\ written < enqueued
GivesEnd   == content = "own" \/ (body = "closed" /\ written = enqueued)
GivesError == content = "own" \/ body = "errored"

\* write() answers whether the socket takes more; Lambda's stream does not say.
\* A response that was closed under the loop cancels what it was reading.
ReadChunk ==
  /\ writer = "reading" /\ GivesChunk
  /\ head' = HeadAfterChunk
  /\ IF reply = "destroyed"
     THEN /\ writer' = "done" /\ UNCHANGED written
          /\ body' = IF content = "echo" /\ body = "readable" THEN "cancelled" ELSE body
     ELSE /\ written' = written + 1 /\ UNCHANGED body
          /\ writer' \in IF host \in Lambda THEN {"reading"} ELSE {"reading", "draining"}
  /\ UNCHANGED <<host, received, enqueued, upload, exceeded, handler, content, reply, reported, fatal>>

ReadEnd ==
  /\ writer = "reading" /\ GivesEnd
  /\ writer' = "done" /\ head' = SendHead
  /\ reply' = IF reply = "open" THEN "ended" ELSE reply
  /\ UNCHANGED <<host, requestVars, handler, content, written, reported, fatal>>

\* Before the first byte an error is a 500, after it the connection is cut, so that nobody
\* takes what was sent for the whole; it is reported either way.
ReadError ==
  /\ writer = "reading" /\ GivesError
  /\ writer' = "done"
  /\ IF head # 0 \/ host \in Lambda THEN Rejects
     ELSE /\ reported' = TRUE /\ head' = 500
          /\ reply' = IF reply = "open" THEN "ended" ELSE reply
  /\ UNCHANGED <<host, requestVars, handler, content, written, fatal>>

Drained ==
  /\ writer = "draining" /\ reply = "open"
  /\ writer' = "reading"
  /\ UNCHANGED <<host, requestVars, handler, content, written, head, reply, reported, fatal>>

\* The client hangs up: "close" wakes a loop that waits for "drain".
ClientHangs ==
  /\ host = "node" /\ handler # "none" /\ reply = "open"
  /\ reply' = "destroyed"
  /\ IF upload = "sending" THEN upload' = "failed" /\ body' = Errored ELSE UNCHANGED <<upload, body>>
  /\ writer' = IF writer = "draining" THEN "reading" ELSE writer
  /\ UNCHANGED <<host, received, enqueued, exceeded, handler, content, written, head, reported, fatal>>

-----------------------------------------------------------------------------

Reads == ReadChunk \/ ReadEnd \/ ReadError

ExchangeNext ==
  \/ Refuse \/ HandlerStarts \/ Chunk \/ UploadEnds
  \/ HandlerCancels \/ (\E c \in {"null", "own", "echo"} : HandlerAnswers(c)) \/ HandlerFails
  \/ ReadChunk \/ ReadEnd \/ ReadError \/ Drained \/ ClientHangs

\* A client neither stalls its body nor its reading for ever, or it hangs up.
ExchangeFairness ==
  /\ WF_exchangeVars(Reads)
  /\ WF_exchangeVars(UploadEnds \/ ClientHangs)
  /\ WF_exchangeVars(Drained \/ ClientHangs)

-----------------------------------------------------------------------------

\* No order of chunks, limit, cancel, answer and hang-up lets a listener of the body throw,
\* or lets the handler see more than maxBodyBytes (what throws is only the listener of a
\* request that no handler sees, see ListenerThrows); and a response that copies the request's body and
\* ends as a success is the whole of a body that ended: a cut one is never passed for whole.
ExchangeSound ==
  /\ fatal => handler = "none" /\ head = 0
  /\ host \notin Lambda => enqueued <= MaxBody
  /\ (reply = "ended" /\ head = 200 /\ content = "echo" /\ writer = "done") =>
       /\ upload = "ended" /\ ~exceeded
       /\ written = received

\* The write loop ends, whatever the client does: no response is left half open.
WriterEnds == writer \in {"reading", "draining"} ~> writer = "done"
=============================================================================
