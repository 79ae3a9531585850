------------------------------ MODULE Delivery ------------------------------
(***************************************************************************)
(* What the outbox promises, without tabs, locks or storage                *)
(* (docs/adr-pq-mutation-lifecycle.md, sections 7.3 and 8): an issued write *)
(* is kept until the server holds it, refused it, or its author gave it up; *)
(* and it is delivered only after the writes it waits for.                 *)
(***************************************************************************)
CONSTANT Entry

VARIABLES
    kept,       \* the issued writes whose signed mutations are still stored
    dropped,    \* the issued writes whose mutations are not
    waits,      \* Entry -> SUBSET Entry: the writes it is to be delivered after
    delivered,  \* the writes the server holds
    cancelled   \* the writes their author gave up

vars == <<kept, dropped, waits, delivered, cancelled>>
issued == kept \union dropped

Init ==
    /\ kept = {}
    /\ dropped = {}
    /\ waits = [e \in Entry |-> {}]
    /\ delivered = {}
    /\ cancelled = {}

\* A write is issued after some of the writes issued before it.
Issue(e) ==
    /\ e \notin issued
    /\ kept' = kept \union {e}
    /\ \E w \in SUBSET issued : waits' = [waits EXCEPT ![e] = w]
    /\ UNCHANGED <<dropped, delivered, cancelled>>

\* A prerequisite that is delivered or cancelled need not be waited for.
Waive(e) ==
    /\ e \in kept
    /\ \E w \in SUBSET (waits[e] \intersect (delivered \union cancelled)) :
          waits' = [waits EXCEPT ![e] = @ \ w]
    /\ UNCHANGED <<kept, dropped, delivered, cancelled>>

Deliver(e) ==
    /\ e \in issued
    /\ waits[e] \subseteq delivered
    /\ delivered' = delivered \union {e}
    /\ UNCHANGED <<kept, dropped, waits, cancelled>>

Cancel(e) ==
    /\ e \in issued
    /\ cancelled' = cancelled \union {e}
    /\ UNCHANGED <<kept, dropped, waits, delivered>>

\* The only two reasons to let the mutations go.
Drop(e) ==
    /\ e \in kept
    /\ e \in delivered \union cancelled
    /\ kept' = kept \ {e}
    /\ dropped' = dropped \union {e}
    /\ waits' = [waits EXCEPT ![e] = {}]
    /\ UNCHANGED <<delivered, cancelled>>

\* A write stored from an older read brings the mutations back: a write may then
\* go out again, but still not before the writes it waited for.
Restore(e) ==
    /\ e \in dropped
    /\ dropped' = dropped \ {e}
    /\ kept' = kept \union {e}
    /\ \E w \in SUBSET issued : waits' = [waits EXCEPT ![e] = w]
    /\ UNCHANGED <<delivered, cancelled>>

Next == \E e \in Entry : \/ Issue(e) \/ Waive(e) \/ Deliver(e)
                        \/ Cancel(e) \/ Drop(e) \/ Restore(e)

Spec == Init /\ [][Next]_vars
=============================================================================
