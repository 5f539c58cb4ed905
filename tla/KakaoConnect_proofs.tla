------------------------ MODULE KakaoConnect_proofs ------------------------
(***************************************************************************)
(* The connect flow, for every number of logins, callbacks and faults.     *)
(***************************************************************************)
EXTENDS KakaoConnect, TLAPS

(* The server keeps no state of its own, and so the invariant is about     *)
(* what is under way: a request was made with a state whose login had been *)
(* answered, which is why no answer to a login brings its cookie back.     *)
IInv == TypeOK /\ Consumed

(* A request gets on; an answer that is delivered clears the cookie.       *)
LEMMA RequestGetsOn ==
  ASSUME IInv, NEW n \in 1..MaxRequests, NEW r \in Request,
         request[n].step # "none", r.state = request[n].state,
         r.step = "exchanging" => r.cookie = r.state,
         r.step = "over" => cookie' = NoState,
         request' = [request EXCEPT ![n] = r],
         cookie' \in {cookie, NoState},
         redeemed' \subseteq States, faults' \in 0..MaxFaults,
         UNCHANGED <<tab, expired>>
  PROVE  IInv'
<1>1. request' \in [1..MaxRequests -> Request]
  BY DEF IInv, TypeOK
<1>2. \A k \in 1..MaxRequests : request'[k] = IF k = n THEN r ELSE request[k]
  BY DEF IInv, TypeOK
<1>3. request[n].state \in States /\ tab[request[n].state] \in {"agreed", "declined"}
  BY DEF IInv, TypeOK
<1>4. ASSUME NEW k \in 1..MaxRequests
      PROVE  request'[k].step # "none" =>
               request'[k].state \in States /\ tab'[request'[k].state] \in {"agreed", "declined"}
  BY <1>2, <1>3 DEF IInv, TypeOK
<1>5. TypeOK'
  BY <1>1, <1>4 DEF IInv, TypeOK
<1>6. ASSUME NEW k \in 1..MaxRequests
      PROVE  /\ request'[k].step = "exchanging" => request'[k].cookie = request'[k].state
             /\ request'[k].step = "over" => cookie' # request'[k].state
  BY <1>2, <1>3, ConnectAssumption DEF IInv, TypeOK, Consumed
<1>7. QED
  BY <1>5, <1>6 DEF IInv, Consumed

(* An answer leaves all of the request but its step and status alone.      *)
LEMMA AnsweredRequest ==
  ASSUME NEW r \in Request, NEW s \in {200, 400, 500}
  PROVE  /\ Answered(r, s) \in Request
         /\ Answered(r, s).step = "answered" /\ Answered(r, s).state = r.state
<1> DEFINE q == [r EXCEPT !.step = "answered"]
<1>1. q \in Request /\ q.step = "answered" /\ q.state = r.state
  BY DEF Request
<1>2. Answered(r, s) = [q EXCEPT !.status = s]
  BY DEF Answered
<1> HIDE DEF q
<1>3. [q EXCEPT !.status = s] \in Request
  BY <1>1 DEF Request
<1>4. [q EXCEPT !.status = s].step = q.step /\ [q EXCEPT !.status = s].state = q.state
  BY <1>1 DEF Request
<1>5. QED
  BY <1>1, <1>2, <1>3, <1>4

(* Each step of a request keeps the invariant.                             *)
LEMMA RequestSteps ==
  ASSUME IInv, NEW n \in 1..MaxRequests, Serve(n) \/ ExchangeFails(n)
  PROVE  IInv'
<1>1. request \in [1..MaxRequests -> Request] /\ request[n] \in Request
  BY DEF IInv, TypeOK
<1>2. request[n].step # "none" => request[n].state \in States
  BY DEF IInv, TypeOK
<1>3. redeemed \subseteq States /\ faults \in 0..MaxFaults
  BY DEF IInv, TypeOK
<1>4. ASSUME NEW s \in {200, 400, 500}, Respond(n, s)
      PROVE  /\ Answered(request[n], s) \in Request
             /\ Answered(request[n], s).step = "answered"
             /\ Answered(request[n], s).state = request[n].state
             /\ request' = [request EXCEPT ![n] = Answered(request[n], s)]
  BY <1>1, <1>4, AnsweredRequest DEF Respond
<1>5. CASE Callback(n)
  <2>1. CASE request[n].code /\ HasValidConnectCheck(request[n])
    <3> DEFINE r == [request[n] EXCEPT !.step = "exchanging"]
    <3>1. r \in Request /\ r.step = "exchanging" /\ r.state = request[n].state /\ r.cookie = r.state
      BY <1>1, <2>1 DEF Request, HasValidConnectCheck
    <3>2. request' = [request EXCEPT ![n] = r] /\ request[n].step # "none"
      BY <1>5, <2>1 DEF Callback
    <3> HIDE DEF r
    <3>3. QED
      BY <1>3, <1>5, <3>1, <3>2, RequestGetsOn DEF Callback
  <2>2. CASE ~(request[n].code /\ HasValidConnectCheck(request[n]))
    <3>1. Respond(n, 400) /\ request[n].step # "none"
      BY <1>5, <2>2 DEF Callback
    <3>2. QED
      BY <1>3, <1>4, <1>5, <3>1, RequestGetsOn DEF Callback
  <2>3. QED
    BY <2>1, <2>2
<1>6. CASE Exchange(n)
  <2>1. PICK s \in {200, 400, 500} : Respond(n, s)
    BY <1>6 DEF Exchange
  <2>2. request[n].step # "none" /\ redeemed' \subseteq States
    BY <1>2, <1>3, <1>6 DEF Exchange
  <2>3. QED
    BY <1>3, <1>4, <1>6, <2>1, <2>2, RequestGetsOn DEF Exchange
<1>7. CASE Answer(n)
  <2> DEFINE r == [request[n] EXCEPT !.step = "over"]
  <2>1. r \in Request /\ r.step = "over" /\ r.state = request[n].state
    BY <1>1 DEF Request
  <2>2. request' = [request EXCEPT ![n] = r] /\ request[n].step # "none"
    BY <1>7 DEF Answer
  <2> HIDE DEF r
  <2>3. QED
    BY <1>3, <1>7, <2>1, <2>2, RequestGetsOn DEF Answer
<1>8. CASE ExchangeFails(n)
  <2>1. request[n].step # "none" /\ Respond(n, 500)
    BY <1>8 DEF ExchangeFails
  <2>2. redeemed' \subseteq States /\ faults' \in 0..MaxFaults
    BY <1>2, <1>3, <1>8, ConnectAssumption DEF ExchangeFails
  <2>3. QED
    BY <1>4, <1>8, <2>1, <2>2, RequestGetsOn DEF ExchangeFails
<1>9. QED
  BY <1>5, <1>6, <1>7, <1>8 DEF Serve

(* Steps of one tab: a cookie is set only for a state that no request has. *)
LEMMA TabSteps ==
  ASSUME IInv, NEW s \in States, User(s) \/ LoginAnswered(s)
  PROVE  IInv'
<1> USE ConnectAssumption DEF IInv, TypeOK, Consumed, Request
<1>1. CASE Login(s)
  BY <1>1 DEF Login
<1>2. CASE LoginAnswered(s)
  BY <1>2 DEF LoginAnswered
<1>3. CASE Decide(s)
  BY <1>3 DEF Decide
<1>4. CASE GoBack(s)
  BY <1>4 DEF GoBack
<1>5. QED
  BY <1>1, <1>2, <1>3, <1>4 DEF User

(* The invariant holds from the start and for good.                        *)
LEMMA Invariance == Spec => []IInv
<1>1. Init => IInv
  <2> SUFFICES ASSUME Init
               PROVE  IInv
    OBVIOUS
  <2>1. NoRequest \in Request /\ NoRequest.step = "none"
    BY DEF NoRequest, Request
  <2>2. \A n \in 1..MaxRequests : request[n] = NoRequest
    BY DEF Init
  <2>3. TypeOK
    <3>1. request \in [1..MaxRequests -> Request]
      BY <2>1 DEF Init
    <3>2. \A n \in 1..MaxRequests : request[n].step = "none"
      BY <2>1, <2>2
    <3>3. tab \in [States -> {"none", "asked", "consent", "agreed", "declined"}] /\ expired \in BOOLEAN
      BY DEF Init
    <3>4. cookie \in States \cup {NoState} /\ redeemed \subseteq States /\ faults \in 0..MaxFaults
      BY ConnectAssumption DEF Init
    <3>5. QED
      BY <3>1, <3>2, <3>3, <3>4 DEF TypeOK
  <2>4. Consumed
    BY <2>1, <2>2 DEF Consumed
  <2>5. QED
    BY <2>3, <2>4 DEF IInv
<1>2. IInv /\ [Next]_vars => IInv'
  <2> SUFFICES ASSUME IInv, [Next]_vars
               PROVE  IInv'
    OBVIOUS
  <2>1. CASE Expire
    BY <2>1, ConnectAssumption DEF Expire, IInv, TypeOK, Consumed, Request
  <2>2. CASE UNCHANGED vars
    BY <2>2 DEF vars, IInv, TypeOK, Consumed
  <2>3. QED
    BY <2>1, <2>2, RequestSteps, TabSteps DEF Next
<1>3. QED
  BY <1>1, <1>2, PTL DEF Spec

(* Every variable stays in its type, and a request that was made has a     *)
(* state that Kakao sent back.                                             *)
THEOREM TypeCorrect == Spec => []TypeOK
<1>1. IInv => TypeOK
  BY DEF IInv
<1>2. QED
  BY <1>1, Invariance, PTL

(* No code is exchanged for a callback whose cookie is of another login,   *)
(* and no callback can use a state that was answered before.               *)
THEOREM ConsumedHolds == Spec => []Consumed
<1>1. IInv => Consumed
  BY DEF IInv
<1>2. QED
  BY <1>1, Invariance, PTL

-----------------------------------------------------------------------------
(* Why nobody is left out.  A login that is disturbed by nothing keeps its *)
(* cookie and its code until some request is connected; up to then each    *)
(* of its requests carries the cookie and none has been answered.          *)

Waiting(s) ==
  /\ cookie = s /\ s \notin redeemed
  /\ \A n \in 1..MaxRequests : request[n].step # "none" =>
       request[n].step \in {"sent", "exchanging"} /\ request[n].cookie = s

Undisturbed(s) == Alone(s) /\ ~expired /\ faults = 0 /\ tab[s] \in {"consent", "agreed"}

Coming ==
  /\ \A t \in redeemed : tab[t] \in {"agreed", "declined"}
  /\ \A n \in 1..MaxRequests :
       /\ request[n].status = 200 => request[n].step \in {"answered", "over"}
       /\ request[n].step # "none" => (request[n].code <=> tab[request[n].state] = "agreed")
  /\ \A s \in States : Undisturbed(s) => Waiting(s) \/ Connected(s)

(* In an undisturbed login each request is one of its own.                 *)
LEMMA OwnRequests ==
  ASSUME TypeOK, NEW s \in States, Alone(s), NEW n \in 1..MaxRequests, request[n].step # "none"
  PROVE  request[n].state = s /\ tab[s] \in {"agreed", "declined"}
BY DEF TypeOK, Alone

(* The step of one request, which changes only its step and status.        *)
LEMMA ServedFields ==
  ASSUME TypeOK, NEW n \in 1..MaxRequests, Serve(n) \/ ExchangeFails(n)
  PROVE  /\ \A k \in 1..MaxRequests \ {n} : request'[k] = request[k]
         /\ request'[n].state = request[n].state /\ request'[n].code = request[n].code
         /\ request'[n].cookie = request[n].cookie
         /\ tab' = tab /\ expired' = expired
         /\ request[n].step \in {"sent", "exchanging", "answered"}
<1>1. request \in [1..MaxRequests -> Request] /\ request[n] \in Request
  BY DEF TypeOK
<1>2. PICK r : request' = [request EXCEPT ![n] = r]
               /\ r.state = request[n].state /\ r.code = request[n].code /\ r.cookie = request[n].cookie
  <2>1. ASSUME NEW t
        PROVE  [request[n] EXCEPT !.step = t].state = request[n].state
               /\ [request[n] EXCEPT !.step = t].code = request[n].code
               /\ [request[n] EXCEPT !.step = t].cookie = request[n].cookie
    BY <1>1 DEF Request
  <2>2. ASSUME NEW t
        PROVE  Answered(request[n], t).state = request[n].state
               /\ Answered(request[n], t).code = request[n].code
               /\ Answered(request[n], t).cookie = request[n].cookie
    BY <1>1 DEF Request, Answered
  <2>3. \/ \E t : request' = [request EXCEPT ![n] = [request[n] EXCEPT !.step = t]]
        \/ \E t : request' = [request EXCEPT ![n] = Answered(request[n], t)]
    BY DEF Serve, Callback, Exchange, ExchangeFails, Answer, Respond
  <2>. QED  BY <2>1, <2>2, <2>3
<1>3. request[n].step \in {"sent", "exchanging", "answered"} /\ tab' = tab /\ expired' = expired
  BY DEF Serve, Callback, Exchange, ExchangeFails, Answer
<1>. QED  BY <1>1, <1>2, <1>3

(* What a request comes to.                                                *)
LEMMA ServedSteps ==
  ASSUME TypeOK, NEW n \in 1..MaxRequests
  PROVE  /\ Callback(n) => request'[n].step =
              IF request[n].code /\ HasValidConnectCheck(request[n]) THEN "exchanging" ELSE "answered"
         /\ Callback(n) => request'[n].status \in {request[n].status, 400}
         /\ Exchange(n) => request'[n].step = "answered"
              /\ (request[n].state \notin redeemed => request'[n].status = 200)
         /\ ExchangeFails(n) => request'[n].step = "answered" /\ request'[n].status = 500
         /\ Answer(n) => request'[n].step = "over" /\ request'[n].status = request[n].status
<1>1. request \in [1..MaxRequests -> Request] /\ request[n] \in Request
  BY DEF TypeOK
<1>2. ASSUME NEW t
      PROVE  Answered(request[n], t).step = "answered" /\ Answered(request[n], t).status = t
  BY <1>1 DEF Request, Answered
<1>3. ASSUME NEW t
      PROVE  [request[n] EXCEPT !.step = t].step = t
             /\ [request[n] EXCEPT !.step = t].status = request[n].status
  BY <1>1 DEF Request
<1>4. ASSUME NEW t, Respond(n, t)
      PROVE  request'[n].step = "answered" /\ request'[n].status = t
  <2>1. request'[n] = Answered(request[n], t)
    BY <1>1, <1>4, Z3 DEF Respond
  <2>. QED  BY <1>2, <2>1
<1>5. ASSUME NEW t, request' = [request EXCEPT ![n].step = t]
      PROVE  request'[n].step = t /\ request'[n].status = request[n].status
  <2>1. request'[n] = [request[n] EXCEPT !.step = t]
    BY <1>1, <1>5
  <2>. QED  BY <1>3, <2>1
<1>6. ASSUME Callback(n)
      PROVE  /\ request'[n].step =
                  IF request[n].code /\ HasValidConnectCheck(request[n]) THEN "exchanging" ELSE "answered"
             /\ request'[n].status \in {request[n].status, 400}
  <2>1. CASE request[n].code /\ HasValidConnectCheck(request[n])
    <3>1. request' = [request EXCEPT ![n].step = "exchanging"]
      BY <1>6, <2>1 DEF Callback
    <3>. QED  BY <1>5, <2>1, <3>1
  <2>2. CASE ~(request[n].code /\ HasValidConnectCheck(request[n]))
    <3>1. Respond(n, 400)
      BY <1>6, <2>2 DEF Callback
    <3>. QED  BY <1>4, <2>2, <3>1
  <2>. QED  BY <2>1, <2>2
<1>7. ASSUME Exchange(n)
      PROVE  request'[n].step = "answered" /\ (request[n].state \notin redeemed => request'[n].status = 200)
  <2>1. Respond(n, IF request[n].state \in redeemed THEN 500 ELSE 200)
    BY <1>7 DEF Exchange
  <2>. QED  BY <1>4, <2>1
<1>8. ASSUME ExchangeFails(n)
      PROVE  request'[n].step = "answered" /\ request'[n].status = 500
  <2>1. Respond(n, 500)
    BY <1>8 DEF ExchangeFails
  <2>. QED  BY <1>4, <2>1
<1>9. ASSUME Answer(n)
      PROVE  request'[n].step = "over" /\ request'[n].status = request[n].status
  <2>1. request' = [request EXCEPT ![n].step = "over"]
    BY <1>9 DEF Answer
  <2>. QED  BY <1>5, <2>1
<1>. QED  BY <1>5, <1>6, <1>7, <1>8, <1>9

(* Who is connected stays so.                                              *)
LEMMA ConnectedStays ==
  ASSUME TypeOK, Coming, NEW n \in 1..MaxRequests, Serve(n) \/ ExchangeFails(n),
         NEW s, Connected(s)
  PROVE  Connected(s)'
<1>1. PICK k \in 1..MaxRequests : request[k].state = s /\ request[k].status = 200
  BY DEF Connected
<1>2. CASE k # n
  BY <1>1, <1>2, ServedFields DEF Connected
<1>3. CASE k = n
  <2>1. request[n].step \in {"answered", "over"}
    BY <1>1, <1>3 DEF Coming
  <2>2. Answer(n)
    BY <2>1 DEF Serve, Callback, Exchange, ExchangeFails
  <2>. QED  BY <1>1, <1>3, <2>2, ServedFields, ServedSteps DEF Connected
<1>. QED  BY <1>2, <1>3

LEMMA ServedComing ==
  ASSUME TypeOK, TypeOK', Coming, NEW n \in 1..MaxRequests, Serve(n) \/ ExchangeFails(n)
  PROVE  Coming'
<1>1. /\ \A k \in 1..MaxRequests \ {n} : request'[k] = request[k]
      /\ request'[n].state = request[n].state /\ request'[n].code = request[n].code
      /\ request'[n].cookie = request[n].cookie
      /\ tab' = tab /\ expired' = expired
      /\ request[n].step \in {"sent", "exchanging", "answered"}
  BY ServedFields
<1>2. \A t \in redeemed' : tab'[t] \in {"agreed", "declined"}
  <2>1. redeemed' \subseteq redeemed \cup {request[n].state}
    BY DEF Serve, Callback, Exchange, ExchangeFails, Answer
  <2>. QED  BY <1>1, <2>1 DEF Coming, TypeOK
<1>3. ASSUME NEW k \in 1..MaxRequests
      PROVE  /\ request'[k].status = 200 => request'[k].step \in {"answered", "over"}
             /\ request'[k].step # "none" => (request'[k].code <=> tab'[request'[k].state] = "agreed")
  <2>1. CASE k # n
    BY <1>1, <2>1 DEF Coming
  <2>2. CASE k = n
    <3>1. request'[n].status = 200 => request'[n].step \in {"answered", "over"}
      <4>1. CASE Callback(n)
        <5>1. request[n].status # 200
          BY <4>1 DEF Coming, Callback
        <5>. QED  BY <4>1, <5>1, ServedSteps
      <4>. QED  BY <4>1, ServedSteps DEF Serve
    <3>2. request[n].code <=> tab[request[n].state] = "agreed"
      BY <1>1 DEF Coming
    <3>. QED  BY <1>1, <2>2, <3>1, <3>2
  <2>. QED  BY <2>1, <2>2
<1>4. ASSUME NEW s \in States, Undisturbed(s)'
      PROVE  Waiting(s)' \/ Connected(s)'
  <2>1. faults = 0 /\ faults' = faults
    BY <1>4 DEF Undisturbed, Serve, Callback, Exchange, ExchangeFails, Answer, TypeOK
  <2>2. Undisturbed(s) /\ Alone(s)
    BY <1>1, <1>4, <2>1 DEF Undisturbed, Alone
  <2>3. CASE Connected(s)
    BY <2>3, ConnectedStays
  <2>4. CASE Waiting(s)
    <3>1. request[n].step \in {"sent", "exchanging"} /\ request[n].cookie = s /\ request[n].state = s
      BY <1>1, <2>2, <2>4, OwnRequests DEF Waiting
    <3>2. request[n].code /\ s \notin redeemed /\ s # NoState
      <4>1. tab[s] = "agreed"
        BY <1>1, <2>2, OwnRequests DEF Undisturbed
      <4>. QED  BY <1>1, <2>4, <3>1, <4>1, ConnectAssumption DEF Coming, Waiting
    <3>3. CASE Callback(n)
      <4>1. request'[n].step = "exchanging" /\ cookie' = cookie /\ redeemed' = redeemed
        BY <3>1, <3>2, <3>3, ServedSteps DEF HasValidConnectCheck, Callback
      <4>2. ASSUME NEW k \in 1..MaxRequests, request'[k].step # "none"
            PROVE  request'[k].step \in {"sent", "exchanging"} /\ request'[k].cookie = s
        BY <1>1, <2>4, <3>1, <4>1, <4>2 DEF Waiting
      <4>. QED  BY <2>4, <4>1, <4>2 DEF Waiting
    <3>4. CASE Exchange(n)
      BY <1>1, <3>1, <3>2, <3>4, ServedSteps DEF Connected
    <3>5. ~Answer(n) /\ ~ExchangeFails(n)
      BY <2>1, <3>1 DEF Answer, ExchangeFails, TypeOK
    <3>. QED  BY <3>3, <3>4, <3>5 DEF Serve
  <2>. QED  BY <2>2, <2>3, <2>4 DEF Coming
<1>. QED  BY <1>2, <1>3, <1>4 DEF Coming

LEMMA TabComing ==
  ASSUME TypeOK, TypeOK', Coming, NEW s \in States, User(s) \/ LoginAnswered(s)
  PROVE  Coming'
<1>1. CASE Login(s) \/ LoginAnswered(s) \/ Decide(s)
  <2>1. request' = request /\ redeemed' = redeemed /\ expired' = expired /\ faults' = faults
        /\ tab[s] \in {"none", "asked", "consent"}
        /\ \A t \in States \ {s} : tab'[t] = tab[t]
    BY <1>1 DEF Login, LoginAnswered, Decide, TypeOK
  <2>2. s \notin redeemed
    BY <2>1 DEF Coming
  <2>3. \A n \in 1..MaxRequests : request[n].step # "none" => request[n].state \in States \ {s}
    BY <2>1 DEF TypeOK
  <2>4. ASSUME NEW t \in States, Undisturbed(t)'
        PROVE  Waiting(t)' \/ Connected(t)'
    <3>1. CASE t # s
      <4>1. tab'[s] = "none"
        BY <2>4, <3>1 DEF Undisturbed, Alone
      <4>. QED  BY <1>1, <2>1, <4>1 DEF Login, LoginAnswered, Decide, TypeOK
    <3>2. CASE t = s
      <4>1. Alone(s)
        BY <2>1, <2>4, <3>2 DEF Undisturbed, Alone
      <4>2. \A n \in 1..MaxRequests : request[n].step = "none"
        BY <2>3, <4>1, OwnRequests
      <4>3. cookie' = s
        <5>1. CASE LoginAnswered(s)
          BY <5>1 DEF LoginAnswered
        <5>2. CASE Login(s)
          BY <2>4, <3>2, <5>2 DEF Login, Undisturbed, TypeOK
        <5>3. CASE Decide(s)
          <6>1. Undisturbed(s)
            BY <2>1, <2>4, <3>2, <4>1, <5>3 DEF Undisturbed, Decide
          <6>2. Waiting(s) \/ Connected(s)
            BY <6>1 DEF Coming
          <6>3. ~Connected(s)
            BY <4>2 DEF Connected, Coming
          <6>. QED  BY <5>3, <6>2, <6>3 DEF Waiting, Decide
        <5>. QED  BY <1>1, <5>1, <5>2, <5>3
      <4>. QED  BY <2>1, <2>2, <3>2, <4>2, <4>3 DEF Waiting
    <3>. QED  BY <3>1, <3>2
  <2>5. ASSUME NEW n \in 1..MaxRequests
        PROVE  /\ request[n].status = 200 => request[n].step \in {"answered", "over"}
               /\ request[n].step # "none" => (request[n].code <=> tab'[request[n].state] = "agreed")
    <3>1. request[n].step # "none" => tab'[request[n].state] = tab[request[n].state]
      BY <2>1, <2>3
    <3>. QED  BY <3>1 DEF Coming
  <2>6. \A t \in redeemed : tab'[t] \in {"agreed", "declined"}
    BY <2>1, <2>2 DEF Coming, TypeOK
  <2>. QED  BY <2>1, <2>4, <2>5, <2>6 DEF Coming
<1>2. CASE GoBack(s)
  <2>0. PICK n \in 1..MaxRequests :
          /\ \A m \in 1..MaxRequests : request[m].step = "none" <=> m >= n
          /\ request' = [request EXCEPT ![n] =
               [step |-> "sent", state |-> s, code |-> tab[s] = "agreed", cookie |-> cookie,
                status |-> 0]]
    BY <1>2 DEF GoBack
  <2>1. /\ request[n].step = "none"
        /\ request' = [request EXCEPT ![n] =
             [step |-> "sent", state |-> s, code |-> tab[s] = "agreed", cookie |-> cookie,
              status |-> 0]]
    BY <2>0, ConnectAssumption
  <2>2. /\ request'[n].step = "sent" /\ request'[n].state = s /\ request'[n].cookie = cookie
        /\ (request'[n].code <=> tab[s] = "agreed") /\ request'[n].status = 0
        /\ \A k \in 1..MaxRequests \ {n} : request'[k] = request[k]
    BY <2>1 DEF TypeOK
  <2>3. tab' = tab /\ cookie' = cookie /\ redeemed' = redeemed /\ expired' = expired /\ faults' = faults
    BY <1>2 DEF GoBack
  <2>4. ASSUME NEW t \in States, Undisturbed(t)'
        PROVE  Waiting(t)' \/ Connected(t)'
    <3>1. Undisturbed(t)
      BY <2>3, <2>4 DEF Undisturbed, Alone
    <3>2. CASE Waiting(t)
      BY <2>2, <2>3, <3>2 DEF Waiting
    <3>3. CASE Connected(t)
      <4>1. PICK k \in 1..MaxRequests : request[k].state = t /\ request[k].status = 200
        BY <3>3 DEF Connected
      <4>2. k # n
        BY <2>1, <4>1 DEF Coming
      <4>. QED  BY <2>2, <4>1, <4>2 DEF Connected
    <3>. QED  BY <3>1, <3>2, <3>3 DEF Coming
  <2>5. ASSUME NEW k \in 1..MaxRequests
        PROVE  /\ request'[k].status = 200 => request'[k].step \in {"answered", "over"}
               /\ request'[k].step # "none" => (request'[k].code <=> tab'[request'[k].state] = "agreed")
    BY <2>2, <2>3 DEF Coming
  <2>. QED  BY <2>3, <2>4, <2>5 DEF Coming
<1>. QED  BY <1>1, <1>2 DEF User

(* A user who agreed in time, opened no other login and met no failure is  *)
(* connected by the first of his requests that is answered, so that none   *)
(* of them turns him away before; this is the safety part of               *)
(* AgreedConnects, for any number of callbacks.                            *)
THEOREM NobodyIsLeftOut == Spec => []NobodyLeftOut
<1>1. Init => Coming
  <2> SUFFICES ASSUME Init PROVE Coming
    OBVIOUS
  <2>1. NoRequest.step = "none" /\ NoRequest.status = 0
    BY DEF NoRequest
  <2>. QED  BY <2>1 DEF Init, Coming, Undisturbed
<1>2. IInv /\ IInv' /\ Coming /\ [Next]_vars => Coming'
  <2> SUFFICES ASSUME IInv, IInv', Coming, [Next]_vars
               PROVE  Coming'
    OBVIOUS
  <2>1. TypeOK /\ TypeOK'
    BY DEF IInv
  <2>2. CASE Expire
    BY <2>2 DEF Expire, Coming, Undisturbed
  <2>3. CASE UNCHANGED vars
    BY <2>3 DEF vars, Coming, Undisturbed, Alone, Waiting, Connected
  <2>. QED  BY <2>1, <2>2, <2>3, ServedComing, TabComing DEF Next
<1>3. IInv /\ Coming => NobodyLeftOut
  <2> SUFFICES ASSUME IInv, Coming, NEW n \in 1..MaxRequests, request[n].code,
                      request[n].step \in {"answered", "over"},
                      Alone(request[n].state), ~expired, ~(faults > 0)
               PROVE  Connected(request[n].state)
    BY DEF NobodyLeftOut
  <2>1. request[n].state \in States /\ tab[request[n].state] = "agreed" /\ faults = 0
    BY ConnectAssumption DEF IInv, TypeOK, Coming
  <2>2. ~Waiting(request[n].state)
    BY DEF Waiting
  <2>. QED  BY <2>1, <2>2 DEF Coming, Undisturbed
<1>. QED  BY <1>1, <1>2, <1>3, Invariance, PTL DEF Spec

=============================================================================
