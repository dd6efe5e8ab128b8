------------------------------- MODULE BlobKeys -------------------------------
(***************************************************************************)
(* How a blob is addressed (internal/blobstore/blobstore.go) and the       *)
(* bounds the handlers put on an address before a store sees it.           *)
(*                                                                         *)
(* A blob key names an account (the pseudonym, always the authenticated    *)
(* caller), one of its devices, a generation and a sequence number.  The   *)
(* first three name a stream: the log that a restore replays.              *)
(***************************************************************************)
EXTENDS Integers, FiniteSetsExt

CONSTANTS
  Pseudonym,        \* accounts
  Device,           \* device ids
  MaxGeneration,    \* upper bound of the generation parameter (2^30 in the code)
  MaxSeq,           \* upper bound of the seq parameter (2^30 in the code)
  DefaultIndexLimit \* most entries that one index request returns

ASSUME BoundsAssumption ==
  /\ MaxGeneration \in Nat
  /\ MaxSeq \in Nat
  /\ DefaultIndexLimit \in Nat \ {0}

(* positiveIntParam and parsePathInt let through 1..bound and nothing else. *)
Generation == 1..MaxGeneration
SeqNo == 1..MaxSeq

(* BlobKey: p is Pseudonym, d is DeviceID, g is Generation, s is Seq. *)
Key == [p : Pseudonym, d : Device, g : Generation, s : SeqNo]

(* A stream is one (pseudonym, device, generation). *)
Stream == [p : Pseudonym, d : Device, g : Generation]
StreamOf(k) == [p |-> k.p, d |-> k.d, g |-> k.g]

(* How many generations survive pruning, counted down from the newest. *)
RetainedGenerations == 2

(* Whether DeleteGeneration refuses g when the newest generation it found   *)
(* is newest; newest = 0 stands for "the device holds nothing", for which   *)
(* the guard does not apply.                                                *)
InRetainedWindow(g, newest) == newest > 0 /\ g > newest - RetainedGenerations

(* The largest element of a set of positive integers, 0 for the empty set:  *)
(* what MAX() of SQL (NULL read as 0) and the scan over the map compute.    *)
MaxOrZero(S) == Max(S \cup {0})

(* The page size that the index handler asks a store for. *)
PageLimit(limit) == IF limit \in 1..DefaultIndexLimit THEN limit ELSE DefaultIndexLimit

(* Some sequence numbers in increasing order, and no more than limit; the   *)
(* handler's limit is positive, for which the two stores agree.             *)
FirstNumbers(S, limit) ==
  LET nth(i) == CHOOSE n \in S : Cardinality({m \in S : m <= n}) = i
  IN  [i \in 1..Min({limit, Cardinality(S)}) |-> nth(i)]
===============================================================================
