----------------------------- MODULE MessageLog -----------------------------
(***************************************************************************)
(* What the log promises of one account's messages (README.md:24, "Anti-   *)
(* delete"): every text it has kept of a message was shown by WhatsApp, is *)
(* kept for good, whatever WhatsApp does with the message later, and a     *)
(* message is flagged as deleted for good and only if it was deleted.      *)
(***************************************************************************)
EXTENDS Integers

CONSTANTS Msgs, Texts

VARIABLES
  shown,   \* the texts WhatsApp has shown of each message, first its history
  revoked, \* messages deleted for everyone
  kept,    \* the texts the log has of each message
  flagged  \* messages the log says were deleted

vars == <<shown, revoked, kept, flagged>>

Init ==
  /\ shown \in [Msgs -> SUBSET Texts] /\ revoked = {}
  /\ kept = [m \in Msgs |-> {}] /\ flagged = {}

Show(m) ==
  /\ m \notin revoked
  /\ \E t \in Texts : shown' = [shown EXCEPT ![m] = @ \cup {t}]
  /\ UNCHANGED <<revoked, kept, flagged>>

Revoke(m) ==
  /\ revoked' = revoked \cup {m}
  /\ UNCHANGED <<shown, kept, flagged>>

Keep(m) ==
  /\ \E T \in SUBSET shown[m] : kept' = [kept EXCEPT ![m] = @ \cup T]
  /\ flagged' \in {flagged, flagged \cup ({m} \cap revoked)}
  /\ UNCHANGED <<shown, revoked>>

Next == \E m \in Msgs : Show(m) \/ Revoke(m) \/ Keep(m)

Spec == Init /\ [][Next]_vars

\* Nothing is made up: only shown texts are kept, only deleted messages flagged.
Genuine == (\A m \in Msgs : kept[m] \subseteq shown[m]) /\ flagged \subseteq revoked

=============================================================================
