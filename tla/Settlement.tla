----------------------------- MODULE Settlement -----------------------------
(***************************************************************************)
(* What the platform promises about money that moves, without any of the   *)
(* machinery: once the provider has settled a transfer (a payment that was *)
(* collected, a payout that was made), the merchant's ledger may get an    *)
(* entry for it, at most one, and in the step that writes the entry an     *)
(* event telling exactly that entry is queued for the merchant.  Nothing   *)
(* else ever happens to the entries or to these events.  Payment and       *)
(* Disbursement both implement this specification.                         *)
(***************************************************************************)

CONSTANTS Transfers,    \* payments or disbursements
          Ids,          \* row ids of the ledger and of the outbox
          Charges       \* fees an entry may carry

VARIABLES settled,      \* transfers whose money has moved at the provider
          entries,      \* ledger entries
          notices       \* queued events about ledger entries

vars == <<settled, entries, notices>>

Entry == [id : Ids, ref : Transfers, fee : Charges]

Init == settled = {} /\ entries = {} /\ notices = {}

Settle(t) ==
    /\ t \in Transfers \ settled
    /\ settled' = settled \cup {t}
    /\ UNCHANGED <<entries, notices>>

(* The entry and its notice appear together, for a settled transfer that   *)
(* has no entry yet.                                                       *)
Book(e) ==
    /\ e \in Entry
    /\ e.ref \in settled
    /\ \A f \in entries : f.ref # e.ref
    /\ entries' = entries \cup {e}
    /\ notices' = notices \cup {e}
    /\ UNCHANGED settled

Next ==
    \/ \E t \in Transfers : Settle(t)
    \/ \E e \in Entry : Book(e)

Spec == Init /\ [][Next]_vars
=============================================================================
