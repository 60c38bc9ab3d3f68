------------------------------ MODULE BodyLimit ------------------------------
(***************************************************************************)
(* RequestBodySizeLimitMiddleware: one request on its way from the server  *)
(* to the application.  The middleware buffers the body until it is        *)
(* complete or too large, and hands the buffer to the application before   *)
(* the application reads from the server itself.                           *)
(***************************************************************************)
EXTENDS Naturals, Integers, Sequences, SequencesExt

CONSTANTS
  MaxBytes,       \* max_bytes
  MaxMessages     \* bound: messages the server delivers

ASSUME BodyAssumption == MaxBytes \in Nat \ {0} /\ MaxMessages \in Nat

VARIABLES
  bodyAt,         \* where the request is
  bodyScope,      \* scope["type"]
  bodyDeclared,   \* history: its content_length
  bodyArrived,    \* history: the messages received from the server
  bodyBuffer,     \* buffered_messages
  bodyBytes,      \* received_bytes
  bodyRead        \* history: the messages the application has read

bodyVars == <<bodyAt, bodyScope, bodyDeclared, bodyArrived, bodyBuffer, bodyBytes, bodyRead>>

Sizes == 0..(MaxBytes + 1)
Chunks == [type : {"http.request"}, size : Sizes, more : BOOLEAN]
Message(type) == [type |-> type, size |-> 0, more |-> FALSE]
Messages == Chunks \cup {Message("http.disconnect"), Message("other")}
NoLength == -1

BodyTypeOK ==
  /\ bodyAt \in {"none", "buffering", "app", "refused", "dropped"}
  /\ bodyScope \in {"http", "websocket"}
  /\ bodyDeclared \in Sizes \cup {NoLength}
  /\ bodyArrived \in Seq(Messages) /\ Len(bodyArrived) <= MaxMessages
  /\ bodyBuffer \in Seq(Messages)
  /\ bodyBytes \in 0..(2 * MaxBytes + 1)
  /\ bodyRead \in Seq(Messages)

BodyInit ==
  /\ bodyAt = "none" /\ bodyScope = "http" /\ bodyDeclared = NoLength
  /\ bodyArrived = <<>> /\ bodyBuffer = <<>> /\ bodyBytes = 0 /\ bodyRead = <<>>

-----------------------------------------------------------------------------
(* __call__.                                                               *)

\* _content_length: the first header counts, if it is a length; -1 stands for one
\* that is not a number or negative.
ContentLength(headers) ==
  IF headers # <<>> /\ headers[1] >= 0 THEN headers[1] ELSE NoLength

BodyStart ==
  /\ bodyAt = "none"
  /\ \E scope \in {"http", "websocket"}, headers \in BoundedSeq(Sizes \cup {NoLength}, 2) :
       /\ bodyScope' = scope
       /\ bodyDeclared' = ContentLength(headers)
       /\ bodyAt' = IF scope # "http" THEN "app"
                    ELSE IF bodyDeclared' > MaxBytes THEN "refused"
                    ELSE "buffering"
  /\ UNCHANGED <<bodyArrived, bodyBuffer, bodyBytes, bodyRead>>

\* Mutated form: the size of the last message instead of the sum.
LastSize(m) == m.size

\* received_bytes += len(body)
ReceivedBytes(m) == bodyBytes + m.size

\* await receive(): the server delivers a message.
Delivered(m) ==
  /\ Len(bodyArrived) < MaxMessages
  /\ bodyArrived' = Append(bodyArrived, m)

BodyReceives(m) ==
  /\ bodyAt = "buffering"
  /\ Delivered(m)
  /\ CASE m.type = "http.disconnect" ->
            bodyAt' = "dropped" /\ UNCHANGED <<bodyBuffer, bodyBytes>>
       [] m.type = "other" ->
            bodyBuffer' = Append(bodyBuffer, m) /\ UNCHANGED <<bodyAt, bodyBytes>>
       [] OTHER ->
            /\ bodyBytes' = ReceivedBytes(m)
            /\ IF bodyBytes' > MaxBytes
               THEN bodyAt' = "refused" /\ UNCHANGED bodyBuffer
               ELSE /\ bodyBuffer' = Append(bodyBuffer, m)
                    /\ bodyAt' = IF m.more THEN "buffering" ELSE "app"
  /\ UNCHANGED <<bodyScope, bodyDeclared, bodyRead>>

\* replay_receive while there are buffered messages ...
AppReadsBuffer ==
  /\ bodyAt = "app" /\ bodyBuffer # <<>>
  /\ bodyRead' = Append(bodyRead, Head(bodyBuffer))
  /\ bodyBuffer' = Tail(bodyBuffer)
  /\ UNCHANGED <<bodyAt, bodyScope, bodyDeclared, bodyArrived, bodyBytes>>

\* ... and afterwards, or in another scope, receive itself.
AppReadsServer(m) ==
  /\ bodyAt = "app" /\ bodyBuffer = <<>>
  /\ Delivered(m)
  /\ bodyRead' = Append(bodyRead, m)
  /\ UNCHANGED <<bodyAt, bodyScope, bodyDeclared, bodyBuffer, bodyBytes>>

BodyNext ==
  \/ BodyStart
  \/ \E m \in Messages : BodyReceives(m) \/ AppReadsServer(m)
  \/ AppReadsBuffer

BodySpec == BodyInit /\ [][BodyNext]_bodyVars

-----------------------------------------------------------------------------
(* Properties.                                                             *)

SizeOf(messages) ==
  LET sum[n \in 0..Len(messages)] == IF n = 0 THEN 0 ELSE sum[n - 1] + messages[n].size
  IN sum[Len(messages)]

\* The messages up to the end of the body, as long as they have arrived.
Body == SelectInSeq(bodyArrived, LAMBDA m : m.type = "http.request" /\ ~m.more)

\* Whatever the server delivers in whatever order: the middleware never holds more
\* than MaxBytes; the application is called for an HTTP request only with its whole
\* body, within the limit, and reads every message once and in order; and a request
\* is refused only if its length, as declared or as received, is over the limit.
BodyPassedOn ==
  /\ SizeOf(bodyBuffer) <= MaxBytes \/ bodyScope # "http"
  /\ bodyAt = "app" =>
       /\ bodyRead \o bodyBuffer = bodyArrived
       /\ bodyScope = "http" => Body > 0 /\ SizeOf(SubSeq(bodyArrived, 1, Body)) <= MaxBytes
  /\ bodyAt # "app" => bodyRead = <<>>
  /\ bodyAt = "refused" => \/ SizeOf(bodyArrived) > MaxBytes
                           \/ bodyDeclared > MaxBytes
=============================================================================
