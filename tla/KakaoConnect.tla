---------------------------- MODULE KakaoConnect ----------------------------
(***************************************************************************)
(* Connecting a Kakao account: the login and callback routes of the HTTP   *)
(* server and the exchange of the code, with one browser that may have     *)
(* several tabs.  The server keeps nothing between requests; all there is  *)
(* is the browser's one cookie, and answers that set or clear it arrive in *)
(* any order.                                                              *)
(*                                                                         *)
(* The cookie holds an HMAC of the state under the server's secret, which  *)
(* is compared with that of the callback's state: the model has the state  *)
(* the HMAC was made of.                                                   *)
(***************************************************************************)
EXTENDS Naturals

CONSTANTS
  States,       \* the random states of logins
  NoState,
  MaxRequests,  \* bound on the callbacks that are requested
  MaxFaults     \* bound on the exchanges that fail on the way

ASSUME ConnectAssumption ==
  /\ NoState \notin States
  /\ MaxRequests \in Nat /\ MaxFaults \in Nat

VARIABLES
  tab,       \* tab[s]: how far the tab that was given state s is
  cookie,    \* the state in the browser's cookie
  request,   \* request[n]: the n-th request of the callback route
  redeemed,  \* states whose code Kakao has exchanged
  expired,   \* whether the cookie's ten minutes were ever over
  faults

vars == <<tab, cookie, request, redeemed, expired, faults>>

Request ==
  [step : {"none", "sent", "exchanging", "answered", "over"},
   state : States \cup {NoState},
   code : BOOLEAN,
   cookie : States \cup {NoState},
   status : {0, 200, 400, 500}]

NoRequest == [step |-> "none", state |-> NoState, code |-> FALSE, cookie |-> NoState, status |-> 0]

Init ==
  /\ tab = [s \in States |-> "none"]
  /\ cookie = NoState
  /\ request = [n \in 1..MaxRequests |-> NoRequest]
  /\ redeemed = {}
  /\ expired = FALSE
  /\ faults = 0

-----------------------------------------------------------------------------
(* GET /auth/kakao/login: a state that was never used, and its cookie.     *)
Login(s) ==
  /\ tab[s] = "none"
  /\ tab' = [tab EXCEPT ![s] = "asked"]
  /\ UNCHANGED <<cookie, request, redeemed, expired, faults>>

LoginAnswered(s) ==
  /\ tab[s] = "asked"
  /\ cookie' = s
  /\ tab' = [tab EXCEPT ![s] = "consent"]
  /\ UNCHANGED <<request, redeemed, expired, faults>>

(* The user agrees or declines, and Kakao sends the browser back.          *)
Decide(s) ==
  /\ tab[s] = "consent"
  /\ \E decision \in {"agreed", "declined"} : tab' = [tab EXCEPT ![s] = decision]
  /\ UNCHANGED <<cookie, request, redeemed, expired, faults>>

(* Mutant of GoBack: SameSite=Strict, which Kakao's redirect does not get. *)
GoBackStrict(s) ==
  /\ tab[s] \in {"agreed", "declined"}
  /\ \E n \in 1..MaxRequests :
       /\ \A m \in 1..MaxRequests : request[m].step = "none" <=> m >= n
       /\ request' = [request EXCEPT ![n] =
            [step |-> "sent", state |-> s, code |-> tab[s] = "agreed", cookie |-> NoState,
             status |-> 0]]
  /\ UNCHANGED <<tab, cookie, redeemed, expired, faults>>

(* The browser requests the callback, for the first time or again.         *)
GoBack(s) ==
  /\ tab[s] \in {"agreed", "declined"}
  /\ \E n \in 1..MaxRequests :
       /\ \A m \in 1..MaxRequests : request[m].step = "none" <=> m >= n
       /\ request' = [request EXCEPT ![n] =
            [step |-> "sent", state |-> s, code |-> tab[s] = "agreed", cookie |-> cookie,
             status |-> 0]]
  /\ UNCHANGED <<tab, cookie, redeemed, expired, faults>>

HasValidConnectCheck(r) == r.cookie # NoState /\ r.cookie = r.state

Answered(r, status) == [r EXCEPT !.step = "answered", !.status = status]

Respond(n, status) == request' = [request EXCEPT ![n] = Answered(request[n], status)]

(* GET /auth/kakao/callback, up to its await.                              *)
Callback(n) ==
  /\ request[n].step = "sent"
  /\ IF request[n].code /\ HasValidConnectCheck(request[n])
     THEN request' = [request EXCEPT ![n].step = "exchanging"]
     ELSE Respond(n, 400)
  /\ UNCHANGED <<tab, cookie, redeemed, expired, faults>>

(* Mutant of Exchange: the code is sent twice, and the second answer told. *)
ExchangeTwice(n) ==
  /\ request[n].step = "exchanging"
  /\ redeemed' = redeemed \cup {request[n].state}
  /\ Respond(n, 500)
  /\ UNCHANGED <<tab, cookie, expired, faults>>

(* Kakao exchanges a code once.                                            *)
Exchange(n) ==
  /\ request[n].step = "exchanging"
  /\ redeemed' = redeemed \cup {request[n].state}
  /\ Respond(n, IF request[n].state \in redeemed THEN 500 ELSE 200)
  /\ UNCHANGED <<tab, cookie, expired, faults>>

(* The five seconds are over, the network fails or the answer is not a     *)
(* token; Kakao may have exchanged the code.                               *)
ExchangeFails(n) ==
  /\ request[n].step = "exchanging"
  /\ faults < MaxFaults /\ faults' = faults + 1
  /\ redeemed' \in {redeemed, redeemed \cup {request[n].state}}
  /\ Respond(n, 500)
  /\ UNCHANGED <<tab, cookie, expired>>

(* Mutant of Answer: a refusal leaves the cookie.                          *)
AnswerClearingOnSuccess(n) ==
  /\ request[n].step = "answered"
  /\ request' = [request EXCEPT ![n].step = "over"]
  /\ cookie' = IF request[n].status = 200 THEN NoState ELSE cookie
  /\ UNCHANGED <<tab, redeemed, expired, faults>>

(* The browser gets the answer, which clears the cookie whatever it is.    *)
Answer(n) ==
  /\ request[n].step = "answered"
  /\ request' = [request EXCEPT ![n].step = "over"]
  /\ cookie' = NoState
  /\ UNCHANGED <<tab, redeemed, expired, faults>>

(* Max-Age.                                                                *)
Expire ==
  /\ cookie # NoState
  /\ cookie' = NoState
  /\ expired' = TRUE
  /\ UNCHANGED <<tab, request, redeemed, faults>>

User(s) == Login(s) \/ Decide(s) \/ GoBack(s)

Serve(n) == Callback(n) \/ Exchange(n) \/ Answer(n)

Next ==
  \/ \E s \in States : User(s) \/ LoginAnswered(s)
  \/ \E n \in 1..MaxRequests : Serve(n) \/ ExchangeFails(n)
  \/ Expire

Spec == Init /\ [][Next]_vars

(* Requests are served and answered; a browser that is sent back goes      *)
(* back.  The user need not do anything.                                   *)
FairSpec ==
  /\ Spec
  /\ \A n \in 1..MaxRequests : WF_vars(Serve(n))
  /\ \A s \in States :
       WF_vars(GoBack(s) /\ \A n \in 1..MaxRequests : request[n].state # s)

-----------------------------------------------------------------------------
(* Every variable stays in its type, and a request that was made has a     *)
(* state that Kakao sent back.                                             *)
TypeOK ==
  /\ tab \in [States -> {"none", "asked", "consent", "agreed", "declined"}]
  /\ cookie \in States \cup {NoState}
  /\ request \in [1..MaxRequests -> Request]
  /\ redeemed \subseteq States
  /\ expired \in BOOLEAN
  /\ faults \in 0..MaxFaults
  /\ \A n \in 1..MaxRequests :
       request[n].step # "none" =>
         request[n].state \in States /\ tab[request[n].state] \in {"agreed", "declined"}

(* A code is exchanged only with the cookie of its own login, and a state  *)
(* is consumed by the first answer to its callback: the browser does not   *)
(* have it any more, so that no later callback can use it.                 *)
Consumed ==
  \A n \in 1..MaxRequests :
    /\ request[n].step = "exchanging" => request[n].cookie = request[n].state
    /\ request[n].step = "over" => cookie # request[n].state

Alone(s) == \A t \in States \ {s} : tab[t] = "none"

Connected(s) ==
  \E n \in 1..MaxRequests : request[n].state = s /\ request[n].status = 200

(* No answer turns away a user who agreed in time, has opened no other     *)
(* login and met no failure, unless another answer has connected him:      *)
(* however often the callback is requested, one of the requests connects.  *)
NobodyLeftOut ==
  \A n \in 1..MaxRequests :
    request[n].code /\ request[n].step \in {"answered", "over"} =>
      \/ Connected(request[n].state)
      \/ ~Alone(request[n].state) \/ expired \/ faults > 0

(* A user who agrees in time, and has opened no other login, is connected  *)
(* by one of the answers, even if the callback is requested several times  *)
(* at once.                                                                *)
AgreedConnects ==
  \A s \in States :
    (tab[s] = "agreed") ~> (Connected(s) \/ ~Alone(s) \/ expired \/ faults > 0)

=============================================================================
