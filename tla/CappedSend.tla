------------------------------ MODULE CappedSend ------------------------------
(***************************************************************************)
(* One request of a Client or AsyncClient that has a                       *)
(* max_response_body_bytes: send() with its terminal, and stream(), of     *)
(* client.py, with _internal/body_cap.py, while somebody may close the     *)
(* client.                                                                 *)
(*                                                                         *)
(* With a cap the client drives httpx2's auth flow and its redirects       *)
(* itself, each response opened as a stream.  Every send, chunk read and   *)
(* step of the auth is a place where the call may fail or be cancelled.    *)
(* The middleware is not here: a retry or a refusal by one is another      *)
(* request, or none.                                                       *)
(***************************************************************************)
EXTENDS Integers

CONSTANTS
    MaxRedirects,   \* the httpx2 client's max_redirects
    Cap,            \* max_response_body_bytes
    MaxBody,        \* bound: bytes in a body
    MaxChunk        \* bound: bytes in a chunk

ASSUME CapAssumption ==
    /\ MaxRedirects \in Nat
    /\ Cap \in Nat \ {0}
    /\ MaxBody \in Nat /\ MaxChunk \in Nat \ {0}

VARIABLES
    mode,       \* what is asked for: see Modes
    pc,         \* where the call is
    closed,     \* is the httpx2 client closed?
    rounds,     \* len(history): requests of the auth flow answered so far
    hops,       \* len(hops): those, and the redirects of this one
    sent,       \* requests sent, the number of the response in hand
    response,   \* the response in hand, or NoResponse
    read,       \* decoded bytes of it read so far
    buffered,   \* has it its content?
    open,       \* responses that hold a connection
    outcome     \* what the caller got

vars == <<mode, pc, closed, rounds, hops, sent, response, read, buffered, open, outcome>>

(* stream() or send(); with a response_model or not; follow_redirects of   *)
(* the httpx2 client; requires_response_body of its auth.                  *)
Modes ==
    {m \in [streams : BOOLEAN, decodes : BOOLEAN, follows : BOOLEAN, authReads : BOOLEAN] :
        m.streams => ~m.decodes}

Unknown == -1

(* Responses as a server may send them.  size is that of the decoded body, *)
(* declared the Content-Length, which is about the encoded one.  A HEAD    *)
(* response or a 204 declares a body without having it.                    *)
Responses ==
    {r \in [size : 0 .. MaxBody, declared : {Unknown} \cup 0 .. MaxBody, encoded : BOOLEAN,
            bodyless : BOOLEAN, redirects : BOOLEAN, failed : BOOLEAN] :
        /\ r.bodyless => r.size = 0
        /\ r.bodyless \/ r.encoded \/ r.declared \in {Unknown, r.size}
        /\ r.redirects => ~r.failed}

NoResponse ==
    [size |-> 0, declared |-> Unknown, encoded |-> FALSE,
     bodyless |-> TRUE, redirects |-> FALSE, failed |-> FALSE]

Init ==
    /\ mode \in Modes
    /\ pc = "resolving"
    /\ closed = FALSE
    /\ rounds = 0 /\ hops = 0 /\ sent = 0
    /\ response = NoResponse
    /\ read = 0 /\ buffered = FALSE
    /\ open = {}
    /\ outcome = "none"

End(o) ==
    /\ pc' = "done"
    /\ outcome' = o
    /\ UNCHANGED <<mode, closed, rounds, hops, sent, response, read, buffered>>

Goto(place) ==
    /\ pc' = place
    /\ UNCHANGED <<mode, closed, sent, outcome>>

(* httpx2's timeouts and network errors (RemoteProtocolError is one), and  *)
(* any other error of its own.                                             *)
Mapped ==
    [TimeoutException |-> "TimeoutError",
     NetworkError     |-> "NetworkError",
     HTTPError        |-> "TransportError"]

Errors == DOMAIN Mapped \cup {"RuntimeError", "other"}

(* A RuntimeError is mapped only when the client is closed, cancellation   *)
(* and the caller's own errors never.                                      *)
Reported(e) ==
    IF e \in DOMAIN Mapped THEN Mapped[e]
    ELSE IF e = "RuntimeError" /\ closed THEN "TransportError" ELSE e

Raise == \E e \in Errors : End(Reported(e))

-----------------------------------------------------------------------------
(* The decoder for the response_model is found before anything is sent.    *)
Resolve ==
    /\ pc = "resolving"
    /\ Goto("sending")
    /\ UNCHANGED <<rounds, hops, response, read, buffered, open>>

MissingDecoder ==
    /\ pc = "resolving"
    /\ mode.decodes
    /\ End("MissingDecoderError")
    /\ UNCHANGED open

(* Faulty variant: one redirect too many.                                  *)
TooManyRedirects_OffByOne == hops > MaxRedirects + 1

TooManyRedirects == hops > MaxRedirects

(* Client.send(stream=True) returns a response: to be followed, to be read *)
(* for the auth or to be shown to it as it is.                             *)
Receive(r) ==
    /\ pc = "sending"
    /\ ~TooManyRedirects /\ ~closed
    /\ sent' = sent + 1
    /\ response' = r
    /\ open' = open \cup {sent'}
    /\ pc' = IF mode.follows /\ r.redirects THEN "following"
             ELSE IF mode.authReads THEN "buffering" ELSE "asking"
    /\ UNCHANGED <<mode, closed, rounds, hops, read, buffered, outcome>>

(* It raises, as it does on a closed client.                               *)
SendFails ==
    /\ pc = "sending"
    /\ IF TooManyRedirects THEN End(Reported("HTTPError"))
       ELSE IF closed THEN End(Reported("RuntimeError")) ELSE Raise
    /\ UNCHANGED open

-----------------------------------------------------------------------------
(* Faulty variant: a response to HEAD is taken at its declared length.     *)
HasBody_Always(r) == TRUE

HasBody(r) == ~r.bodyless

DeclaredTooLarge(r) == HasBody(r) /\ r.declared > Cap

(* Faulty variant: one byte too many.                                      *)
Overflows_OffByOne(r) == HasBody(r) /\ read > Cap + 1

Overflows(r) == HasBody(r) /\ read > Cap

(* A chunk of the body, of which only decoding tells the length.           *)
ReadChunk ==
    /\ pc \in {"following", "answering", "buffering", "reading"}
    /\ ~buffered /\ ~DeclaredTooLarge(response) /\ ~Overflows(response)
    /\ \E n \in 1 .. MaxChunk : read + n <= response.size /\ read' = read + n
    /\ Goto(pc)
    /\ UNCHANGED <<rounds, hops, response, buffered, open>>

ClosesResponse == open' = open \ {sent}

(* Reading (or what it takes to close the response early) fails or is      *)
(* cancelled, for whichever purpose: the response is closed on the way out. *)
ReadFails ==
    /\ pc \in {"following", "answering", "buffering", "reading"}
    /\ ~buffered
    /\ Raise
    /\ ClosesResponse

(* Faulty variant: redirects are counted anew for each request of the auth *)
(* flow.                                                                   *)
NextRequest_CountsAnew ==
    /\ rounds' = IF pc = "answering" THEN rounds + 1 ELSE rounds
    /\ hops' = IF pc = "answering" THEN 0 ELSE hops + 1

(* The next request is the redirect's or the auth's: the hops of a request *)
(* start from the auth's history.                                          *)
NextRequest ==
    /\ rounds' = IF pc = "answering" THEN rounds + 1 ELSE rounds
    /\ hops' = IF pc = "answering" THEN rounds' ELSE hops + 1

(* The body of an intermediate response is read to its end, so that its    *)
(* connection can be used again, or as far as the cap allows.              *)
Discard ==
    /\ pc \in {"following", "answering"}
    /\ buffered \/ read = response.size
         \/ DeclaredTooLarge(response) \/ Overflows(response)
    /\ NextRequest
    /\ ClosesResponse
    /\ response' = NoResponse
    /\ read' = 0 /\ buffered' = FALSE
    /\ Goto("sending")

(* What _read_capped makes of a response: an encoded one is rebuilt.       *)
Buffered(r) ==
    IF r.encoded /\ HasBody(r)
    THEN [r EXCEPT !.encoded = FALSE, !.declared = r.size]
    ELSE r

TooLarge ==
    /\ pc \in {"buffering", "reading"}
    /\ DeclaredTooLarge(response) \/ Overflows(response)
    /\ End("ResponseTooLargeError")
    /\ ClosesResponse

(* _raise_on_status_error, without which the terminal returns.             *)
Delivered == IF response.failed THEN "StatusError" ELSE "response"

(* The whole body is there, and within the cap: the auth looks at it, or   *)
(* the caller gets it, or the error for its status.                        *)
ReadAll ==
    /\ pc \in {"buffering", "reading"}
    /\ read = response.size
    /\ ~DeclaredTooLarge(response) /\ ~Overflows(response)
    /\ response' = Buffered(response)
    /\ buffered' = TRUE
    /\ ClosesResponse
    /\ pc' = IF pc = "buffering" THEN "asking"
             ELSE IF mode.decodes /\ ~response.failed THEN "decoding" ELSE "done"
    /\ outcome' = IF pc' = "done" THEN Delivered ELSE outcome
    /\ UNCHANGED <<mode, closed, rounds, hops, sent, read>>

-----------------------------------------------------------------------------
(* The auth flow is shown the response and has another request.            *)
AskAgain ==
    /\ pc = "asking"
    /\ Goto("answering")
    /\ UNCHANGED <<rounds, hops, response, read, buffered, open>>

(* It has none: the response is the final one.  stream() reads it only if  *)
(* its status is an error.                                                 *)
Accept ==
    /\ pc = "asking"
    /\ Goto(IF mode.streams /\ ~response.failed THEN "streaming" ELSE "reading")
    /\ UNCHANGED <<rounds, hops, response, read, buffered, open>>

(* Faulty variant: only a failure to read closes the response.             *)
AuthFails_LeavesOpen ==
    /\ pc = "asking"
    /\ Raise
    /\ UNCHANGED open

(* It raises, or is cancelled.                                             *)
AuthFails ==
    /\ pc = "asking"
    /\ Raise
    /\ ClosesResponse

(* The block of stream() ends: as it should, or with an error.             *)
LeaveStream ==
    /\ pc = "streaming"
    /\ Raise \/ End("response")
    /\ ClosesResponse

(* Whatever the decoder raises becomes a DecodeError.                      *)
DecodeResults == {"response", "DecodeError"}

Decode ==
    /\ pc = "decoding"
    /\ \E o \in DecodeResults : End(o)
    /\ UNCHANGED open

(* close() of a client that owns its httpx2 client, or of that client.     *)
Close ==
    /\ ~closed
    /\ closed' = TRUE
    /\ UNCHANGED <<mode, pc, rounds, hops, sent, response, read, buffered, open, outcome>>

Finished == pc = "done" /\ UNCHANGED vars

Next ==
    \/ Resolve \/ MissingDecoder
    \/ (\E r \in Responses : Receive(r)) \/ SendFails
    \/ ReadChunk \/ ReadFails \/ Discard \/ TooLarge \/ ReadAll
    \/ AskAgain \/ Accept \/ AuthFails
    \/ LeaveStream \/ Decode
    \/ Close \/ Finished

Spec == Init /\ [][Next]_vars

-----------------------------------------------------------------------------
Places == {"resolving", "sending", "following", "answering", "buffering", "asking",
           "reading", "streaming", "decoding", "done"}

Outcomes ==
    {"none", "response", "StatusError", "DecodeError", "MissingDecoderError",
     "ResponseTooLargeError", "RuntimeError", "other"} \cup {Mapped[e] : e \in DOMAIN Mapped}

(* Redirects and requests of the auth flow share one count.                *)
TypeOK ==
    /\ mode \in Modes
    /\ pc \in Places
    /\ closed \in BOOLEAN
    /\ hops \in 0 .. MaxRedirects + 1
    /\ rounds \in 0 .. hops
    /\ sent \in Nat
    /\ response \in Responses
    /\ read \in 0 .. response.size
    /\ buffered \in BOOLEAN
    /\ open \subseteq 1 .. sent
    /\ outcome \in Outcomes

(* The call holds one connection at most: none while it asks for the next, *)
(* or a pool of one would never give it, and none once it is over, however *)
(* it ends.                                                                *)
HoldsOneConnection ==
    /\ open \subseteq {sent}
    /\ pc \in {"resolving", "sending", "decoding", "done"} => open = {}

(* Whoever is handed a body, an auth that reads it, the decoder, the       *)
(* caller, or a StatusError, has the whole of it, and it is within the cap. *)
BodiesWhole ==
    \/ pc = "asking" /\ mode.authReads
    \/ pc = "decoding"
    \/ outcome \in {"StatusError", "DecodeError"}
    \/ outcome = "response" /\ ~mode.streams
    => buffered /\ read = response.size /\ read <= Cap

(* A body is refused only if it is larger than the cap, encoded or decoded; *)
(* never for the length a response without one declares.                   *)
RefusedOnlyWhenLarge ==
    outcome = "ResponseTooLargeError" =>
        /\ ~response.bodyless
        /\ response.size > Cap \/ (response.encoded /\ response.declared > Cap)

(* However long a server redirects and an auth goes on asking, max_redirects *)
(* ends the call: each round of the auth leaves one redirect less to it.   *)
SendsBounded == 2 * sent <= (MaxRedirects + 1) * (MaxRedirects + 2)

=============================================================================
