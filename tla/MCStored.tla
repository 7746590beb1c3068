------------------------------ MODULE MCStored ------------------------------
\* What a worker keeps, in one run: the media of messages, the keys of the data,
\* files on their way out, the pictures of chats, the tokens of other apps, and the
\* throttle in front of the secrets.  They share no state, so each behaviour follows
\* one of them while the others stay as they begin.
EXTENDS MediaQueue, DataKeys, ServedFile, Avatars, ApiTokens, Throttle, TLC

VARIABLE side

StoredInit ==
  /\ side \in {"queue", "keys", "served", "pictures", "tokens", "throttle"}
  /\ Init /\ KeysInit /\ ServedInit /\ AvatarsInit /\ TokensInit /\ ThrottleInit
  /\ side # "throttle" => lock = [r \in LockRows |-> NoLock]

StoredNext ==
  \/ side = "queue" /\ Next /\ UNCHANGED <<side, keyVars, servedVars, avatarVars, tokenVars, throttleVars>>
  \/ side = "keys" /\ KeysNext /\ UNCHANGED <<side, vars, servedVars, avatarVars, tokenVars, throttleVars>>
  \/ side = "served" /\ ServedNext /\ UNCHANGED <<side, vars, keyVars, avatarVars, tokenVars, throttleVars>>
  \/ side = "pictures" /\ AvatarsNext /\ UNCHANGED <<side, vars, keyVars, servedVars, tokenVars, throttleVars>>
  \/ side = "tokens" /\ TokensNext /\ UNCHANGED <<side, vars, keyVars, servedVars, avatarVars, throttleVars>>
  \/ side = "throttle" /\ ThrottleNext /\ UNCHANGED <<side, vars, keyVars, servedVars, avatarVars, tokenVars>>

StoredSpec ==
  StoredInit /\ [][StoredNext]_<<side, vars, keyVars, servedVars, avatarVars, tokenVars, throttleVars>>

\* No part tells its model values apart, and the parts share them.  Files are
\* interchangeable too: a file that is taken for a new one is any unused one.
Symmetry == Permutations(Slots \cup IPs \cup Passes) \cup Permutations(ChatIds \ Broadcasts)
=============================================================================
