---------------------------- MODULE CappedSendProofs ----------------------------
(***************************************************************************)
(* Theorems about a request under a body cap, for every cap, every number  *)
(* of redirects, and bodies and chunks of any size.                        *)
(***************************************************************************)
EXTENDS CappedSend, TLAPS

(* The call has its next response still to come.                           *)
Before == {"resolving", "sending"}

(* What each place says of the response in hand.                           *)
PlaceInv ==
    /\ pc # "done" => outcome = "none"
    /\ pc = "streaming" => mode.streams
    /\ pc \in Before => ~buffered /\ read = 0
    /\ buffered => read = response.size /\ read <= Cap

(* Twice the requests that the finished rounds of the auth may have sent,  *)
(* round i at most MaxRedirects + 1 - i of them, and those of this one.    *)
Allowance == rounds * (2 * MaxRedirects + 3 - rounds) + 2 * (hops - rounds)

SendInv ==
    /\ pc \in Before => 2 * sent <= Allowance
    /\ pc \notin Before \cup {"done"} => hops <= MaxRedirects /\ 2 * sent <= Allowance + 2
    /\ SendsBounded

(* The inductive invariant.                                                *)
Inv == TypeOK /\ PlaceInv /\ HoldsOneConnection /\ BodiesWhole /\ RefusedOnlyWhenLarge /\ SendInv

-----------------------------------------------------------------------------
(* Responses.                                                              *)
LEMMA ResponseFields ==
    ASSUME NEW r \in Responses
    PROVE  /\ r.size \in 0 .. MaxBody /\ r.declared \in {Unknown} \cup 0 .. MaxBody
           /\ r.encoded \in BOOLEAN /\ r.bodyless \in BOOLEAN
           /\ r.redirects \in BOOLEAN /\ r.failed \in BOOLEAN
           /\ r.bodyless => r.size = 0
           /\ r.bodyless \/ r.encoded \/ r.declared \in {Unknown, r.size}
BY DEF Responses

LEMMA NoResponseTyped ==
    NoResponse \in Responses /\ NoResponse.size = 0
BY CapAssumption DEF NoResponse, Responses, Unknown

(* Rebuilding changes what a response says of its length, not the body.    *)
LEMMA BufferedTyped ==
    ASSUME NEW r \in Responses
    PROVE  Buffered(r) \in Responses /\ Buffered(r).size = r.size
<1>1. CASE r.encoded /\ HasBody(r)
  BY <1>1 DEF Responses, Buffered
<1>2. CASE ~(r.encoded /\ HasBody(r))
  BY <1>2 DEF Buffered
<1> QED
  BY <1>1, <1>2

(* A body that is there is within the cap.                                 *)
LEMMA ReadFits ==
    ASSUME TypeOK, read = response.size, ~Overflows(response)
    PROVE  read <= Cap
BY ResponseFields, CapAssumption DEF TypeOK, Overflows, HasBody

(* A response is too large only by what it declares of its own body or by  *)
(* what has been read of it.                                               *)
LEMMA TooLargeIsLarge ==
    ASSUME TypeOK, DeclaredTooLarge(response) \/ Overflows(response)
    PROVE  /\ ~response.bodyless
           /\ response.size > Cap \/ (response.encoded /\ response.declared > Cap)
<1>1. /\ response.size \in Nat /\ read <= response.size /\ read \in Nat
      /\ ~response.bodyless
      /\ response.encoded \/ response.declared \in {-1, response.size}
  BY ResponseFields DEF TypeOK, DeclaredTooLarge, Overflows, HasBody, Unknown
<1>2. response.declared > Cap \/ read > Cap
  BY DEF DeclaredTooLarge, Overflows
<1> QED
  BY <1>1, <1>2, CapAssumption

(* What an error becomes is none of the outcomes that come with a body.    *)
LEMMA RaisedOutcome ==
    ASSUME NEW e \in Errors
    PROVE  Reported(e) \in {"TimeoutError", "NetworkError", "TransportError", "RuntimeError", "other"}
BY DEF Reported, Errors, Mapped

-----------------------------------------------------------------------------
LEMMA InitEstablishesInv ==
    ASSUME Init
    PROVE  Inv
<1>1. TypeOK
  <2>1. /\ mode \in Modes /\ pc \in Places /\ closed \in BOOLEAN /\ buffered \in BOOLEAN
        /\ hops \in 0 .. MaxRedirects + 1 /\ rounds \in 0 .. hops /\ sent \in Nat
        /\ open \subseteq 1 .. sent
    <3>1. MaxRedirects + 1 \in Nat
      BY CapAssumption
    <3>2. mode \in Modes /\ pc \in Places /\ closed \in BOOLEAN /\ buffered \in BOOLEAN
      BY Zenon DEF Init, Places
    <3>3. hops = 0 /\ rounds = 0 /\ sent = 0 /\ open = {}
      BY DEF Init
    <3> QED
      BY <3>1, <3>2, <3>3
  <2>2. response \in Responses /\ read \in 0 .. response.size
    BY NoResponseTyped DEF Init
  <2>3. outcome \in Outcomes
    BY DEF Init, Outcomes
  <2> QED
    BY <2>1, <2>2, <2>3 DEF TypeOK
<1>2. PlaceInv
  BY DEF Init, PlaceInv
<1>3. HoldsOneConnection
  BY DEF Init, HoldsOneConnection
<1>4. BodiesWhole /\ RefusedOnlyWhenLarge
  BY DEF Init, BodiesWhole, RefusedOnlyWhenLarge
<1>5. SendInv
  <2>1. MaxRedirects * MaxRedirects >= 0
    BY CapAssumption
  <2>2. (MaxRedirects + 1) * (MaxRedirects + 2) = MaxRedirects * MaxRedirects + 3 * MaxRedirects + 2
    BY CapAssumption
  <2> QED
    BY <2>1, <2>2, CapAssumption DEF Init, SendInv, SendsBounded, Allowance, Before
<1> QED
  BY <1>1, <1>2, <1>3, <1>4, <1>5 DEF Inv

(* The call is over, with an error or a result, and has not done anything  *)
(* with the response but close it.                                         *)
LEMMA EndKeepsInv ==
    ASSUME Inv, pc # "done", NEW o \in Outcomes \ {"none"}, End(o), open' = {},
           o \in {"StatusError", "DecodeError"} => buffered,
           o = "response" /\ ~mode.streams => buffered,
           o = "ResponseTooLargeError" =>
             /\ ~response.bodyless
             /\ response.size > Cap \/ (response.encoded /\ response.declared > Cap)
    PROVE  Inv'
<1>1. /\ pc' = "done" /\ outcome' = o
      /\ UNCHANGED <<mode, closed, rounds, hops, sent, response, read, buffered>>
  BY DEF End
<1>2. TypeOK'
  BY <1>1 DEF Inv, TypeOK, Places
<1>3. PlaceInv'
  BY <1>1 DEF Inv, PlaceInv, Before
<1>4. HoldsOneConnection'
  BY DEF HoldsOneConnection
<1>5. BodiesWhole'
  BY <1>1 DEF BodiesWhole, Inv, PlaceInv
<1>6. RefusedOnlyWhenLarge'
  BY <1>1 DEF RefusedOnlyWhenLarge
<1>7. SendInv'
  BY <1>1 DEF Inv, SendInv, SendsBounded, Before
<1> QED
  BY <1>2, <1>3, <1>4, <1>5, <1>6, <1>7 DEF Inv

(* An error from outside.                                                  *)
LEMMA RaiseKeepsInv ==
    ASSUME Inv, pc # "done", NEW e \in Errors, End(Reported(e)), open' = {}
    PROVE  Inv'
<1>1. Reported(e) \in {"TimeoutError", "NetworkError", "TransportError", "RuntimeError", "other"}
  BY RaisedOutcome
<1>2. {"TimeoutError", "NetworkError", "TransportError", "RuntimeError", "other"} \subseteq Outcomes
  BY DEF Outcomes, Mapped
<1> QED
  BY <1>1, <1>2, EndKeepsInv

(* The call has one connection at most, and has let go of it once the      *)
(* response is closed.                                                     *)
LEMMA ClosedIsNone ==
    ASSUME Inv, ClosesResponse
    PROVE  open' = {}
BY DEF Inv, HoldsOneConnection, ClosesResponse

(* The call goes on with the response it has.                              *)
LEMMA GotoKeepsInv ==
    ASSUME Inv, pc \notin Before \cup {"done"},
           NEW place \in Places \ (Before \cup {"done", "decoding"}),
           Goto(place), UNCHANGED <<rounds, hops, response, buffered, open>>,
           read' \in 0 .. response.size,
           buffered => read' = read,
           place = "streaming" => mode.streams,
           place = "asking" /\ mode.authReads => buffered
    PROVE  Inv'
<1>1. pc' = place /\ UNCHANGED <<mode, closed, sent, outcome>> /\ outcome = "none"
  BY DEF Goto, Inv, PlaceInv
<1>2. TypeOK'
  BY <1>1 DEF Inv, TypeOK
<1>3. PlaceInv'
  BY <1>1 DEF Inv, PlaceInv
<1>4. HoldsOneConnection'
  BY <1>1 DEF Inv, HoldsOneConnection, Before
<1>5. BodiesWhole'
  BY <1>1, <1>3 DEF BodiesWhole, PlaceInv
<1>6. RefusedOnlyWhenLarge'
  BY <1>1 DEF RefusedOnlyWhenLarge
<1>7. SendInv'
  BY <1>1 DEF Inv, SendInv, SendsBounded, Allowance
<1> QED
  BY <1>2, <1>3, <1>4, <1>5, <1>6, <1>7 DEF Inv

LEMMA ResolveKeepsInv ==
    ASSUME Inv, Resolve
    PROVE  Inv'
<1>1. /\ pc = "resolving" /\ pc' = "sending" /\ outcome = "none"
      /\ UNCHANGED <<mode, closed, sent, outcome, rounds, hops, response, read, buffered, open>>
  BY DEF Resolve, Goto, Inv, PlaceInv
<1>2. TypeOK'
  BY <1>1 DEF Inv, TypeOK, Places
<1>3. PlaceInv'
  BY <1>1 DEF Inv, PlaceInv, Before
<1>4. HoldsOneConnection'
  BY <1>1 DEF Inv, HoldsOneConnection
<1>5. BodiesWhole' /\ RefusedOnlyWhenLarge'
  BY <1>1 DEF BodiesWhole, RefusedOnlyWhenLarge
<1>6. SendInv'
  BY <1>1 DEF Inv, SendInv, SendsBounded, Allowance, Before
<1> QED
  BY <1>2, <1>3, <1>4, <1>5, <1>6 DEF Inv

(* What the rounds of the auth leave to a request is never more than the   *)
(* bound: the two differ by a product of consecutive numbers.              *)
LEMMA AllowanceBound ==
    ASSUME TypeOK, hops <= MaxRedirects
    PROVE  Allowance + 2 <= (MaxRedirects + 1) * (MaxRedirects + 2)
<1> DEFINE left == MaxRedirects - rounds
<1>1. MaxRedirects \in Nat /\ rounds \in Nat /\ hops \in Nat /\ left \in Nat
  BY CapAssumption DEF TypeOK
<1>2. left * (left + 1) >= 0
  BY <1>1
<1>3. Allowance + 2 <= rounds * (2 * MaxRedirects + 3 - rounds) + 2 * left + 2
  BY <1>1 DEF Allowance
<1>4. (MaxRedirects + 1) * (MaxRedirects + 2)
        - (rounds * (2 * MaxRedirects + 3 - rounds) + 2 * left + 2) = left * (left + 1)
  BY <1>1
<1>5. Allowance \in Int /\ rounds * (2 * MaxRedirects + 3 - rounds) \in Int
      /\ (MaxRedirects + 1) * (MaxRedirects + 2) \in Int /\ left * (left + 1) \in Int
  BY <1>1 DEF Allowance
<1> HIDE DEF left
<1> QED
  BY <1>1, <1>2, <1>3, <1>4, <1>5

LEMMA ReceiveKeepsInv ==
    ASSUME Inv, NEW r \in Responses, Receive(r)
    PROVE  Inv'
<1>1. /\ pc = "sending" /\ hops <= MaxRedirects /\ outcome = "none" /\ ~buffered /\ read = 0
      /\ sent' = sent + 1 /\ response' = r /\ open' = {sent'}
      /\ UNCHANGED <<mode, closed, rounds, hops, read, buffered, outcome>>
  <2>1. pc = "sending" /\ ~(hops > MaxRedirects) /\ open = {}
    BY DEF Receive, TooManyRedirects, Inv, HoldsOneConnection
  <2>2. hops <= MaxRedirects
    BY <2>1, CapAssumption DEF Inv, TypeOK
  <2>3. outcome = "none" /\ ~buffered /\ read = 0
    BY <2>1 DEF Inv, PlaceInv, Before
  <2> QED
    BY <2>1, <2>2, <2>3 DEF Receive
<1>2. /\ pc' = "following" \/ pc' = "buffering" \/ pc' = "asking"
      /\ mode.authReads => pc' # "asking"
  BY DEF Receive
<1>3. TypeOK'
  BY <1>1, <1>2, ResponseFields DEF Inv, TypeOK, Places
<1>4. PlaceInv'
  BY <1>1, <1>2 DEF PlaceInv, Before
<1>5. HoldsOneConnection'
  BY <1>1, <1>2 DEF HoldsOneConnection
<1>6. BodiesWhole' /\ RefusedOnlyWhenLarge'
  BY <1>1, <1>2 DEF BodiesWhole, RefusedOnlyWhenLarge
<1>7. SendInv'
  <2>1. 2 * sent <= Allowance /\ Allowance' = Allowance
    BY <1>1 DEF Inv, SendInv, Before, Allowance
  <2>2. sent \in Nat /\ Allowance \in Int /\ (MaxRedirects + 1) * (MaxRedirects + 2) \in Int
    BY CapAssumption DEF Inv, TypeOK, Allowance
  <2>3. Allowance + 2 <= (MaxRedirects + 1) * (MaxRedirects + 2)
    BY <1>1, AllowanceBound DEF Inv
  <2>4. 2 * sent' <= Allowance' + 2 /\ 2 * sent' <= (MaxRedirects + 1) * (MaxRedirects + 2)
    BY <1>1, <2>1, <2>2, <2>3
  <2> QED
    BY <1>1, <1>2, <2>4 DEF SendInv, SendsBounded, Before
<1> QED
  BY <1>3, <1>4, <1>5, <1>6, <1>7 DEF Inv

LEMMA DiscardKeepsInv ==
    ASSUME Inv, Discard
    PROVE  Inv'
<1>1. /\ pc \in {"following", "answering"} /\ pc' = "sending" /\ outcome = "none"
      /\ open' = {} /\ response' = NoResponse /\ read' = 0 /\ buffered' = FALSE
      /\ UNCHANGED <<mode, closed, sent, outcome>>
  BY ClosedIsNone DEF Discard, Goto, Inv, PlaceInv
<1>2. /\ MaxRedirects \in Nat /\ rounds \in Nat /\ hops \in Nat /\ sent \in Nat
      /\ rounds <= hops /\ hops <= MaxRedirects /\ 2 * sent <= Allowance + 2
  BY <1>1, CapAssumption DEF Inv, TypeOK, SendInv, Before
<1>3. \/ rounds' = rounds /\ hops' = hops + 1
      \/ rounds' = rounds + 1 /\ hops' = rounds + 1
  BY <1>1 DEF Discard, NextRequest
<1>4. hops' \in 0 .. MaxRedirects + 1 /\ rounds' \in 0 .. hops'
  BY <1>2, <1>3
<1>5. TypeOK'
  <2>1. response' \in Responses /\ read' \in 0 .. response'.size
    BY <1>1, NoResponseTyped
  <2>2. pc' \in Places
    BY <1>1 DEF Places
  <2> QED
    BY <1>1, <1>4, <2>1, <2>2 DEF Inv, TypeOK
<1>6. PlaceInv'
  BY <1>1 DEF PlaceInv
<1>7. HoldsOneConnection'
  BY <1>1 DEF HoldsOneConnection
<1>8. BodiesWhole' /\ RefusedOnlyWhenLarge'
  BY <1>1 DEF BodiesWhole, RefusedOnlyWhenLarge
<1>9. Allowance + 2 <= Allowance'
  <2>1. CASE rounds' = rounds /\ hops' = hops + 1
    BY <1>2, <2>1 DEF Allowance
  <2>2. CASE rounds' = rounds + 1 /\ hops' = rounds + 1
    <3>1. (rounds + 1) * (2 * MaxRedirects + 3 - (rounds + 1))
            = rounds * (2 * MaxRedirects + 3 - rounds) + 2 * (MaxRedirects - rounds) + 2
      BY <1>2
    <3>2. Allowance' = (rounds + 1) * (2 * MaxRedirects + 3 - (rounds + 1))
      BY <1>2, <2>2 DEF Allowance
    <3>3. rounds * (2 * MaxRedirects + 3 - rounds) \in Int
      BY <1>2
    <3> QED
      BY <1>2, <3>1, <3>2, <3>3 DEF Allowance
  <2> QED
    BY <1>3, <2>1, <2>2
<1>10. SendInv'
  <2>1. Allowance \in Int /\ Allowance' \in Int
    BY <1>2, <1>3 DEF Allowance
  <2>2. 2 * sent' <= Allowance'
    BY <1>1, <1>2, <1>9, <2>1
  <2> QED
    BY <1>1, <2>2 DEF Inv, SendInv, SendsBounded, Before
<1> QED
  BY <1>5, <1>6, <1>7, <1>8, <1>10 DEF Inv

LEMMA ReadAllKeepsInv ==
    ASSUME Inv, ReadAll
    PROVE  Inv'
<1>1. /\ pc \in {"buffering", "reading"} /\ outcome = "none"
      /\ read = response.size /\ response' = Buffered(response) /\ buffered' = TRUE
      /\ open' = {}
      /\ UNCHANGED <<mode, closed, rounds, hops, sent, read>>
  BY ClosedIsNone DEF ReadAll, Inv, PlaceInv
<1>2. /\ pc' \in {"asking", "decoding", "done"}
      /\ pc' # "done" => outcome' = "none"
      /\ pc' = "done" => outcome' \in {"response", "StatusError"}
  BY <1>1 DEF ReadAll, Delivered
<1>3. response' \in Responses /\ response'.size = response.size
  BY <1>1, BufferedTyped DEF Inv, TypeOK
<1>4. read' = response'.size /\ read' <= Cap
  BY <1>1, <1>3, ReadFits DEF ReadAll, Inv
<1>5. TypeOK'
  BY <1>1, <1>2, <1>3 DEF Inv, TypeOK, Places, Outcomes
<1>6. PlaceInv'
  BY <1>1, <1>2, <1>4 DEF PlaceInv, Before
<1>7. HoldsOneConnection'
  BY <1>1 DEF HoldsOneConnection
<1>8. BodiesWhole'
  BY <1>1, <1>4 DEF BodiesWhole
<1>9. RefusedOnlyWhenLarge'
  BY <1>2 DEF RefusedOnlyWhenLarge
<1>10. SendInv'
  BY <1>1, <1>2 DEF Inv, SendInv, SendsBounded, Allowance, Before
<1> QED
  BY <1>5, <1>6, <1>7, <1>8, <1>9, <1>10 DEF Inv

LEMMA StepKeepsInv ==
    ASSUME Inv, [Next]_vars
    PROVE  Inv'
<1> USE DEF Before
<1>1. CASE Resolve
  BY <1>1, ResolveKeepsInv
<1>2. CASE MissingDecoder
  <2>1. open' = {} /\ pc = "resolving" /\ End("MissingDecoderError")
    BY <1>2 DEF MissingDecoder, Inv, HoldsOneConnection
  <2>2. "MissingDecoderError" \in Outcomes \ {"none"}
    BY DEF Outcomes
  <2> QED
    BY <2>1, <2>2, EndKeepsInv
<1>3. CASE \E r \in Responses : Receive(r)
  BY <1>3, ReceiveKeepsInv
<1>4. CASE SendFails
  <2>1. open' = {} /\ pc = "sending"
    BY <1>4 DEF SendFails, Inv, HoldsOneConnection
  <2>2. \E e \in Errors : End(Reported(e))
    BY <1>4 DEF SendFails, Raise, Errors, Mapped
  <2> QED
    BY <2>1, <2>2, RaiseKeepsInv
<1>5. CASE ReadChunk
  <2>1. /\ pc \in {"following", "answering", "buffering", "reading"} /\ ~buffered /\ Goto(pc)
        /\ UNCHANGED <<rounds, hops, response, buffered, open>>
    BY <1>5 DEF ReadChunk
  <2>2. PICK n \in 1 .. MaxChunk : read + n <= response.size /\ read' = read + n
    BY <1>5 DEF ReadChunk
  <2>3. read' \in 0 .. response.size
    BY <2>2, ResponseFields, CapAssumption DEF Inv, TypeOK
  <2>4. pc \in Places
    BY <2>1 DEF Places
  <2> QED
    BY <2>1, <2>3, <2>4, GotoKeepsInv
<1>6. CASE ReadFails \/ AuthFails
  <2>1. pc # "done" /\ open' = {}
    BY <1>6, ClosedIsNone DEF ReadFails, AuthFails
  <2> QED
    BY <1>6, <2>1, RaiseKeepsInv DEF ReadFails, AuthFails, Raise
<1>7. CASE Discard
  BY <1>7, DiscardKeepsInv
<1>8. CASE TooLarge
  <2>1. open' = {} /\ pc # "done" /\ End("ResponseTooLargeError")
    BY <1>8, ClosedIsNone DEF TooLarge
  <2>2. /\ ~response.bodyless
        /\ response.size > Cap \/ (response.encoded /\ response.declared > Cap)
    BY <1>8, TooLargeIsLarge DEF TooLarge, Inv
  <2>3. "ResponseTooLargeError" \in Outcomes \ {"none"}
    BY DEF Outcomes
  <2> QED
    BY <2>1, <2>2, <2>3, EndKeepsInv
<1>9. CASE ReadAll
  BY <1>9, ReadAllKeepsInv
<1>10. CASE AskAgain \/ Accept
  <2>1. /\ pc = "asking" /\ UNCHANGED <<rounds, hops, response, read, buffered, open>>
        /\ \/ Goto("answering") \/ Goto("reading")
           \/ Goto("streaming") /\ mode.streams
    BY <1>10 DEF AskAgain, Accept
  <2>2. read' \in 0 .. response.size
    BY <2>1 DEF Inv, TypeOK
  <2>3. {"answering", "reading", "streaming"} \subseteq Places
    BY DEF Places
  <2> QED
    BY <2>1, <2>2, <2>3, GotoKeepsInv
<1>11. CASE LeaveStream
  <2>1. pc = "streaming" /\ open' = {} /\ mode.streams
    BY <1>11, ClosedIsNone DEF LeaveStream, Inv, PlaceInv
  <2>2. "response" \in Outcomes \ {"none"}
    BY DEF Outcomes
  <2> QED
    BY <1>11, <2>1, <2>2, EndKeepsInv, RaiseKeepsInv DEF LeaveStream, Raise
<1>12. CASE Decode
  <2>1. pc = "decoding" /\ open' = {} /\ buffered
    BY <1>12 DEF Decode, Inv, HoldsOneConnection, BodiesWhole
  <2>2. {"response", "DecodeError"} \subseteq Outcomes \ {"none"}
    BY DEF Outcomes
  <2>3. PICK o \in {"response", "DecodeError"} : End(o)
    BY <1>12 DEF Decode, DecodeResults
  <2> QED
    BY <2>1, <2>2, <2>3, EndKeepsInv
<1>13. CASE Close \/ UNCHANGED vars
  <2>1. /\ UNCHANGED <<mode, pc, rounds, hops, sent, response, read, buffered, open, outcome>>
        /\ closed' = TRUE \/ closed' = closed
    BY <1>13 DEF Close, vars
  <2>2. TypeOK'
    BY <2>1 DEF Inv, TypeOK
  <2> QED
    BY <2>1, <2>2 DEF Inv, PlaceInv, HoldsOneConnection, BodiesWhole, RefusedOnlyWhenLarge,
       SendInv, SendsBounded, Allowance
<1> QED
  BY <1>1, <1>2, <1>3, <1>4, <1>5, <1>6, <1>7, <1>8, <1>9, <1>10, <1>11, <1>12, <1>13
     DEF Next, Finished

LEMMA Invariance ==
    Spec => []Inv
BY InitEstablishesInv, StepKeepsInv, PTL DEF Spec

(* The state is well typed, and redirects and auth requests together never *)
(* get further than one above max_redirects.                               *)
THEOREM SendTypeCorrect ==
    Spec => []TypeOK
<1>1. Inv => TypeOK
  BY DEF Inv
<1> QED
  BY <1>1, Invariance, PTL

(* Every response is closed before the next request and before the call    *)
(* ends, whatever fails or is cancelled on the way.                        *)
THEOREM ResponsesAreClosed ==
    Spec => []HoldsOneConnection
<1>1. Inv => HoldsOneConnection
  BY DEF Inv
<1> QED
  BY <1>1, Invariance, PTL

(* Whoever is handed a body has all of it, within the cap.                 *)
THEOREM BodiesAreWhole ==
    Spec => []BodiesWhole
<1>1. Inv => BodiesWhole
  BY DEF Inv
<1> QED
  BY <1>1, Invariance, PTL

(* A body that is refused is larger than the cap.                          *)
THEOREM OnlyLargeIsRefused ==
    Spec => []RefusedOnlyWhenLarge
<1>1. Inv => RefusedOnlyWhenLarge
  BY DEF Inv
<1> QED
  BY <1>1, Invariance, PTL

(* A call ends after (n + 1)(n + 2) / 2 requests at most for max_redirects *)
(* = n, however a server redirects and an auth asks again.                 *)
THEOREM RequestsAreBounded ==
    Spec => []SendsBounded
<1>1. Inv => SendsBounded
  BY DEF Inv, SendInv
<1> QED
  BY <1>1, Invariance, PTL

=============================================================================
