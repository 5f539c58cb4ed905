---------------------------- MODULE AtomicUpsert ----------------------------
(***************************************************************************)
(* What callers of upsertByIdentities may rely on: however many calls are  *)
(* under way, each takes effect at one instant between its start and its   *)
(* end, and what it answers is what the directory held at that instant.    *)
(* CustomerUpsert implements it (ImplementsAtomicUpsert there), and        *)
(* KakaoPipeline builds on it: UpsertCustomer, UpsertConflict and          *)
(* UpsertError are Succeed, Refuse and Fail.                               *)
(***************************************************************************)
EXTENDS CustomerDirectory

CONSTANTS Calls, Requests

VARIABLES
  asked,      \* asked[t]: the identities of the call under way, or {}
  result      \* result[t]: how the call ended, and with which customer

service == <<owner, asked, result>>

NoResult == [how |-> "none", customer |-> NoCustomer]

ServiceInit ==
  /\ DirectoryInit
  /\ asked = [t \in Calls |-> {}]
  /\ result = [t \in Calls |-> NoResult]

Ask(t) ==
  /\ asked[t] = {}
  /\ \E request \in Requests : asked' = [asked EXCEPT ![t] = request]
  /\ result' = [result EXCEPT ![t] = NoResult]
  /\ UNCHANGED owner

End(t, how, c) ==
  /\ asked[t] # {}
  /\ asked' = [asked EXCEPT ![t] = {}]
  /\ result' = [result EXCEPT ![t] = [how |-> how, customer |-> c]]

Succeed(t) ==
  \E c \in Customers : Upsert(asked[t], c) /\ End(t, "customer", c)

(* A conflict is reported only if there is one, and nothing is written.    *)
Refuse(t) ==
  /\ Conflicting(asked[t])
  /\ End(t, "conflict", NoCustomer)
  /\ UNCHANGED owner

(* An error means that the upsert took effect as a whole or not at all.    *)
Fail(t) ==
  /\ UNCHANGED owner \/ \E c \in Customers : Upsert(asked[t], c)
  /\ End(t, "error", NoCustomer)

ServiceNext == \E t \in Calls : Ask(t) \/ Succeed(t) \/ Refuse(t) \/ Fail(t)

ServiceSpec == ServiceInit /\ [][ServiceNext]_service
=============================================================================
