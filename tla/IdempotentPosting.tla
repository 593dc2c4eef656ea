-------------------------- MODULE IdempotentPosting --------------------------
(***************************************************************************)
(* What PropertyLedger promises about every accounting component it posts  *)
(* to LedgerOS, with no receipts, forms, locks or transactions in sight:   *)
(* a request is sent with the body the component has settled on, if it has *)
(* settled on one; LedgerOS books requests that were sent, once per body;  *)
(* a component settles when an attempt is committed locally, never changes *)
(* its mind afterwards, and counts as confirmed only when LedgerOS has     *)
(* booked that body.  The idempotency key of a request is a hash of its    *)
(* component and body, so a pair <<component, body>> stands for the        *)
(* request and for its key.                                                *)
(***************************************************************************)
CONSTANTS Component, Bodies, None

VARIABLES
  sent,       \* the requests that have left for LedgerOS
  booked,     \* the requests LedgerOS has posted to its journal
  settled,    \* the body each component committed locally, or None
  confirmed   \* the components whose posting is recorded as succeeded

postingVars == <<sent, booked, settled, confirmed>>

\* Components attempted by an earlier release, if any, are settled.
PostingInit ==
  LET attempted == {c \in Component : settled[c] # None} IN
  /\ settled \in [Component -> Bodies \cup {None}]
  /\ sent = {<<c, settled[c]>> : c \in attempted}
  /\ booked \subseteq sent
  /\ confirmed \subseteq {c \in attempted : <<c, settled[c]>> \in booked}

\* A component that has settled on a body never sends another one.
Send(c, b) ==
  /\ settled[c] \in {None, b}
  /\ sent' = sent \cup {<<c, b>>}
  /\ UNCHANGED <<booked, settled, confirmed>>

\* LedgerOS posts a request it received, at any time, even after its sender gave up.
Book(j) ==
  /\ j \in sent
  /\ booked' = booked \cup {j}
  /\ UNCHANGED <<sent, settled, confirmed>>

\* One local transaction commits the outcomes of the attempts on the components of cs.
Settle(cs) ==
  /\ \E choice \in [cs -> Bodies] :
       /\ \A c \in cs : settled[c] \in {None, choice[c]} /\ <<c, choice[c]>> \in sent
       /\ settled' = [c \in Component |-> IF c \in cs THEN choice[c] ELSE settled[c]]
  /\ confirmed' \subseteq confirmed \cup {c \in cs : <<c, settled'[c]>> \in booked}
  /\ confirmed \ cs \subseteq confirmed'
  /\ UNCHANGED <<sent, booked>>

PostingNext ==
  \/ \E c \in Component, b \in Bodies : Send(c, b)
  \/ \E j \in sent : Book(j)
  \/ \E cs \in SUBSET Component : Settle(cs)

PostingSpec == PostingInit /\ [][PostingNext]_postingVars

=============================================================================
