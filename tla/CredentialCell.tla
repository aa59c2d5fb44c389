----------------------------- MODULE CredentialCell -----------------------------
(* What TokenManager promises of an account's credential (ADR-0004 "Atomic        *)
(* persistence"): there is one in use and one that a crash leaves. A new one is   *)
(* made durable first and used afterwards; until it is used there is no other.    *)
EXTENDS Naturals

CONSTANT First                 \* the credential of the first grant

VARIABLES used, durable

NotOlder(s, t) == s.at >= t.at /\ s.rt >= t.rt

Init == used = First /\ durable = First

(* A refresh reaches the disk. *)
Replace == used = durable /\ NotOlder(durable', used) /\ UNCHANGED used

(* It is put to use, by the process that fetched it or by the next one. *)
Adopt == used' = durable /\ UNCHANGED durable

Next == Replace \/ Adopt

Spec == Init /\ [][Next]_<<used, durable>>
=================================================================================
