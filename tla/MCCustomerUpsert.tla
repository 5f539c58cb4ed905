-------------------------- MODULE MCCustomerUpsert --------------------------
(***************************************************************************)
(* Small instances of CustomerUpsert for TLC.                              *)
(***************************************************************************)
EXTENDS CustomerUpsert, TLC

CONSTANTS chat1, chat2, phone, c1, c2, c3, t1, t2, t3, l1, l2, l3

(* Two senders who share a phone, one of them also without a phone.        *)
MCRequests == {{chat1, phone}, {chat2, phone}, {chat1, chat2}, {chat2}}

(* Two requests that lock in opposite orders when the outer keys collide.  *)
ContendedRequests == {{chat2, phone}, {chat1, chat2}}

MCKeyRank == chat1 :> 1 @@ chat2 :> 2 @@ phone :> 3

DistinctLocks == chat1 :> l1 @@ chat2 :> l2 @@ phone :> l3

(* The hashes of the first and the last lock key collide.                  *)
CollidingLocks == chat1 :> l1 @@ chat2 :> l2 @@ phone :> l1

Symmetry == Permutations(Calls) \cup Permutations(Customers)
=============================================================================
