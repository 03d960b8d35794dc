------------------------------ MODULE MailSpool ------------------------------
(* What the mailbox promises a producer, whatever crashes and however often  *)
(* it retries: an id is one message.  It is queued by an accept, leaves the  *)
(* queue once, and the guest's hook is given it at most once.                *)
EXTENDS Naturals

CONSTANT Mail       \* producer ids

VARIABLES
    status,         \* id -> "none", "queued" or "settled" (a tombstone answers for it)
    handed          \* id -> how often the guest's disk says its hook was run

spoolVars == <<status, handed>>

SpoolInit == status = [m \in Mail |-> "none"] /\ handed = [m \in Mail |-> 0]

Queue(m) == /\ status[m] = "none"
            /\ status' = [status EXCEPT ![m] = "queued"]
            /\ UNCHANGED handed

Settle(m) == /\ status[m] = "queued"
             /\ status' = [status EXCEPT ![m] = "settled"]
             /\ UNCHANGED handed

\* Tombstones that were kept long enough, or that could not be written.
Forget(ids) == /\ status' = [m \in Mail |-> IF m \in ids THEN "none" ELSE status[m]]
               /\ UNCHANGED handed

\* A guest may still hold mail the host has given up on.
HandOver(m) == /\ handed[m] = 0
               /\ handed' = [handed EXCEPT ![m] = 1]
               /\ UNCHANGED status

\* The disk of a dormant VM is that of its snapshot.
RollBack(ids) == /\ handed' = [m \in Mail |-> IF m \in ids THEN 0 ELSE handed[m]]
                 /\ UNCHANGED status

SpoolNext == \/ \E m \in Mail : Queue(m) \/ Settle(m) \/ HandOver(m)
             \/ \E ids \in SUBSET Mail : Forget(ids) \/ RollBack(ids)

SpoolSpec == SpoolInit /\ [][SpoolNext]_spoolVars
=============================================================================
