-------------------------- MODULE CustomerDirectory --------------------------
(***************************************************************************)
(* What PostgresCustomerRepository.upsertByIdentities promises: one step   *)
(* that finds the customer behind a set of identities, or makes one, and   *)
(* leaves every one of the identities with that customer.  CustomerUpsert  *)
(* is the transaction that implements it, statement by statement.          *)
(*                                                                         *)
(* owner[i] is the customer_id of the customer_identities row of identity  *)
(* i.  A customer's name and tags are overwritten by every upsert and no   *)
(* property is about them, so a customer is only its id.                   *)
(***************************************************************************)
EXTENDS FiniteSets, Integers

CONSTANTS
  Identities,    \* the triples (identity_type, provider, identity_value)
  Customers,     \* the UUIDs of customers
  NoCustomer     \* the owner of an identity that has no row

ASSUME NoCustomerAssumption == NoCustomer \notin Customers

VARIABLE owner

Directory == [Identities -> Customers \cup {NoCustomer}]

(* The database may already hold the customers of earlier traffic.         *)
DirectoryInit == owner \in Directory

Owners(ids) == {owner[i] : i \in ids} \ {NoCustomer}

(* findOwnerIds found more than one owner: CustomerIdentityConflictError.  *)
Conflicting(ids) == \E i, j \in ids :
  owner[i] # NoCustomer /\ owner[j] # NoCustomer /\ owner[i] # owner[j]

(* The id a fresh customers row may get: a UUID that nobody has.           *)
Unused == {c \in Customers : \A i \in Identities : owner[i] # c}

(* The customer an upsert of ids ends with.                                *)
Candidates(ids) == IF Owners(ids) = {} THEN Unused ELSE Owners(ids)

(* Mutant of Upsert: the first owner wins, conflicts are not looked for.   *)
UpsertUnchecked(ids, c) ==
  /\ c \in Candidates(ids)
  /\ owner' = [i \in Identities |->
                 IF i \in ids /\ owner[i] = NoCustomer THEN c ELSE owner[i]]

(* Mutant of Upsert: ON CONFLICT DO UPDATE, which merges the owners.       *)
UpsertMerging(ids, c) ==
  /\ c \in Candidates(ids)
  /\ owner' = [i \in Identities |-> IF i \in ids THEN c ELSE owner[i]]

(* A committed upsert of ids with customer c: identities that already have *)
(* an owner keep it (ON CONFLICT DO NOTHING).                              *)
Upsert(ids, c) ==
  /\ ~Conflicting(ids)
  /\ c \in Candidates(ids)
  /\ owner' = [i \in Identities |->
                 IF i \in ids /\ owner[i] = NoCustomer THEN c ELSE owner[i]]

(* The directory by itself.                                                *)
DirectoryNext == \E ids \in SUBSET Identities, c \in Customers : Upsert(ids, c)

DirectorySpec == DirectoryInit /\ [][DirectoryNext]_owner

=============================================================================
