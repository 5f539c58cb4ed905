---------------------------- MODULE BookingLedger ----------------------------
(***************************************************************************)
(* What the pipeline promises, seen from outside: a ledger of what became  *)
(* of each event, with no leases, workers, retries or faults.  An event is *)
(* attributed to one customer for good; the CRM hears of that customer     *)
(* before there is a lead, Sheets of the lead only when it is stored, and  *)
(* an event is closed once, when all it needs has been done.               *)
(* KakaoPipeline implements it (the property Ledger there).                *)
(***************************************************************************)
EXTENDS Integers

CONSTANTS Events, Customers, NoCustomer, Bookable

VARIABLES
  told,      \* told[e]: the customers the CRM was told of for e
  booked,    \* booked[e]: the customer of e's lead
  listed,    \* listed[e]: the number of rows Sheets has for e
  closed     \* the events that are done with

ledger == <<told, booked, listed, closed>>

LedgerInit ==
  /\ told = [e \in Events |-> {}]
  /\ booked = [e \in Events |-> NoCustomer]
  /\ listed = [e \in Events |-> 0]
  /\ closed = {}

(* The CRM is told, once or again, of the event's one customer.            *)
Tell(e, c) ==
  /\ told[e] \subseteq {c}
  /\ told' = [told EXCEPT ![e] = {c}]
  /\ UNCHANGED <<booked, listed, closed>>

(* The lead is stored, once.                                               *)
Book(e) ==
  /\ e \in Bookable
  /\ booked[e] = NoCustomer
  /\ \E c \in told[e] : booked' = [booked EXCEPT ![e] = c]
  /\ UNCHANGED <<told, listed, closed>>

(* Sheets gets a row; nothing here rules out one more of the same.         *)
List(e) ==
  /\ booked[e] # NoCustomer
  /\ listed' = [listed EXCEPT ![e] = @ + 1]
  /\ UNCHANGED <<told, booked, closed>>

Close(e) ==
  /\ e \notin closed
  /\ told[e] # {}
  /\ e \in Bookable => booked[e] # NoCustomer /\ listed[e] > 0
  /\ closed' = closed \cup {e}
  /\ UNCHANGED <<told, booked, listed>>

LedgerNext ==
  \E e \in Events :
    \/ \E c \in Customers : Tell(e, c)
    \/ Book(e) \/ List(e) \/ Close(e)

LedgerSpec == LedgerInit /\ [][LedgerNext]_ledger
=============================================================================
