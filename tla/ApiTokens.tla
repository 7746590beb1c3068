----------------------------- MODULE ApiTokens -----------------------------
(***************************************************************************)
(* Bearer tokens for other apps (wa/apitokens.ts, api/tokens.ts): a token  *)
(* may list the chats it was created for and send text to them.  A request *)
(* is authenticated before its body has arrived and handled afterwards,    *)
(* with the id it was given then; tokens are deleted and created, and the  *)
(* data wiped or the account reset, in between.                            *)
(*                                                                         *)
(* A secret is known by the order of its creation; hash, name, wording and *)
(* the limits on rates and lengths are left out, and so are the names of   *)
(* the chats a token lists.                                                *)
(***************************************************************************)
EXTENDS Naturals

CONSTANTS
  Chats,       \* chats that may be logged
  Channels,    \* those of them that are neither direct chats nor groups
  TokenReqs,   \* requests of apps
  NoRow,
  TOUCH_MS,
  MaxTokens,   \* tokens ever created  (bound)
  MaxClock     \* (bound)

ASSUME ApiTokensAssumption ==
  /\ {TOUCH_MS, MaxTokens, MaxClock} \subseteq Nat
  /\ Channels \subseteq Chats

VARIABLES
  clock,
  owned,
  logged,       \* table chats
  tokens,      \* table api_tokens: id -> its secret and last_used_at
  grants,      \* table api_token_chats
  sequence,    \* sqlite_sequence: the greatest id api_tokens ever had
  touched,     \* when last_used_at of an id was written, in this process
  tokenCall,
  given,       \* each secret created so far: its chats
  lastUse      \* when it was last accepted, 0 if never

tokenVars == <<clock, owned, logged, tokens, grants, sequence, touched, tokenCall, given, lastUse>>

TokenIds == 1..MaxTokens
Secrets == 1..MaxTokens
Token == [secret : Secrets, used : Nat]
ASSUME NoRowAssumption == NoRow \notin Token \cup Nat
NoTokenCall == [at |-> "none", id |-> 0, secret |-> 0, chats |-> {}]

TokensTypeOK ==
  /\ clock \in Nat /\ owned \in BOOLEAN /\ logged \subseteq Chats
  /\ tokens \in [TokenIds -> Token \cup {NoRow}]
  /\ grants \subseteq TokenIds \X Chats
  /\ sequence \in 0..MaxTokens
  /\ touched \in [TokenIds -> Nat \cup {NoRow}]
  /\ tokenCall \in [TokenReqs -> [at : {"none", "authenticated", "lists", "sends"},
                                id : 0..MaxTokens, secret : 0..MaxTokens, chats : SUBSET Chats]]
  /\ given \in [Secrets -> SUBSET Chats]
  /\ lastUse \in [Secrets -> Nat]

Handed == {s \in Secrets : given[s] # {}}
Exists(id) == tokens[id] # NoRow

TokensInit ==
  /\ clock = 1 /\ owned = FALSE /\ logged = {} /\ grants = {} /\ sequence = 0
  /\ tokens = [id \in TokenIds |-> NoRow]
  /\ touched = [id \in TokenIds |-> NoRow]
  /\ tokenCall = [q \in TokenReqs |-> NoTokenCall]
  /\ given = [s \in Secrets |-> {}]
  /\ lastUse = [s \in Secrets |-> 0]

(***************************************************************************)
(* The owner's routes.  INTEGER PRIMARY KEY AUTOINCREMENT: no id of        *)
(* api_tokens is given out twice.                                          *)
(***************************************************************************)
LeastFreeId(id) ==   \* mutant: INTEGER PRIMARY KEY, as in the other tables
  /\ \A k \in TokenIds : k >= id => ~Exists(k)
  /\ \A k \in TokenIds : k + 1 = id => Exists(k)
NextTokenId(id) == id = sequence + 1

NewSecret(s) == s \notin Handed /\ \A k \in Secrets : k < s => k \in Handed

CreateToken(S) ==
  /\ owned /\ S # {} /\ S \subseteq logged \ Channels
  /\ \E id \in TokenIds, s \in Secrets :
       /\ NextTokenId(id) /\ NewSecret(s)
       /\ tokens' = [tokens EXCEPT ![id] = [secret |-> s, used |-> 0]]
       /\ grants' = grants \cup ({id} \X S)
       /\ sequence' = IF id > sequence THEN id ELSE sequence
       /\ given' = [given EXCEPT ![s] = S]
  /\ UNCHANGED <<clock, owned, logged, touched, tokenCall, lastUse>>

\* ON DELETE CASCADE takes the token's chats with it.
DeleteToken(id) ==
  /\ owned /\ Exists(id)
  /\ tokens' = [tokens EXCEPT ![id] = NoRow]
  /\ grants' = {g \in grants : g[1] # id}
  /\ UNCHANGED <<clock, owned, logged, sequence, touched, tokenCall, given, lastUse>>

(***************************************************************************)
(* A request of an app: onRequest looks the token up; its handler runs     *)
(* when the body is there.                                                 *)
(***************************************************************************)
Touches(id) == touched[id] = NoRow \/ clock > touched[id] + TOUCH_MS

Authenticate(q, id) ==
  /\ tokenCall[q].at = "none" /\ Exists(id)
  /\ tokenCall' = [tokenCall EXCEPT ![q] =
       [at |-> "authenticated", id |-> id, secret |-> tokens[id].secret, chats |-> {}]]
  /\ lastUse' = [lastUse EXCEPT ![tokens[id].secret] = clock]
  /\ IF Touches(id)
     THEN /\ touched' = [touched EXCEPT ![id] = clock]
          /\ tokens' = [tokens EXCEPT ![id].used = clock]
     ELSE UNCHANGED <<touched, tokens>>
  /\ UNCHANGED <<clock, owned, logged, grants, sequence, given>>

Destinations(q) ==
  /\ tokenCall[q].at = "authenticated"
  /\ tokenCall' = [tokenCall EXCEPT ![q].at = "lists",
                                ![q].chats = {c \in Chats : <<tokenCall[q].id, c>> \in grants}]
  /\ UNCHANGED <<clock, owned, logged, tokens, grants, sequence, touched, given, lastUse>>

\* The chat must be the token's, and logged; else 404 for either reason.
SendText(q, c) ==
  /\ tokenCall[q].at = "authenticated"
  /\ <<tokenCall[q].id, c>> \in grants /\ c \in logged
  /\ tokenCall' = [tokenCall EXCEPT ![q].at = "sends", ![q].chats = {c}]
  /\ UNCHANGED <<clock, owned, logged, tokens, grants, sequence, touched, given, lastUse>>

\* It is answered, refused or gone.
RequestOver(q) ==
  /\ tokenCall[q].at # "none" /\ tokenCall' = [tokenCall EXCEPT ![q] = NoTokenCall]
  /\ UNCHANGED <<clock, owned, logged, tokens, grants, sequence, touched, given, lastUse>>

(***************************************************************************)
(* What comes in between.                                                  *)
(***************************************************************************)
ChatLogged(c) ==
  /\ c \notin logged /\ logged' = logged \cup {c}
  /\ UNCHANGED <<clock, owned, tokens, grants, sequence, touched, tokenCall, given, lastUse>>

OwnerSetUp ==
  /\ ~owned /\ owned' = TRUE
  /\ UNCHANGED <<clock, logged, tokens, grants, sequence, touched, tokenCall, given, lastUse>>

\* A wipe keeps the tokens, which then have no chat.
DataWiped ==
  /\ owned /\ logged' = {} /\ grants' = {}
  /\ UNCHANGED <<clock, owned, tokens, sequence, touched, tokenCall, given, lastUse>>

AccountReset ==
  /\ owned /\ owned' = FALSE /\ logged' = {} /\ grants' = {}
  /\ tokens' = [id \in TokenIds |-> NoRow]
  /\ UNCHANGED <<clock, sequence, touched, tokenCall, given, lastUse>>

TokenProcessRestarts ==
  /\ touched' = [id \in TokenIds |-> NoRow]
  /\ tokenCall' = [q \in TokenReqs |-> NoTokenCall]
  /\ UNCHANGED <<clock, owned, logged, tokens, grants, sequence, given, lastUse>>

ClockTicks ==
  /\ clock < MaxClock /\ clock' = clock + 1
  /\ UNCHANGED <<owned, logged, tokens, grants, sequence, touched, tokenCall, given, lastUse>>

TokensNext ==
  \/ \E S \in SUBSET Chats : CreateToken(S)
  \/ \E id \in TokenIds : DeleteToken(id)
  \/ \E q \in TokenReqs : \/ \E id \in TokenIds : Authenticate(q, id)
                          \/ Destinations(q) \/ RequestOver(q)
                          \/ \E c \in Chats : SendText(q, c)
  \/ \E c \in Chats : ChatLogged(c)
  \/ OwnerSetUp \/ DataWiped \/ AccountReset \/ TokenProcessRestarts \/ ClockTicks

TokensSpec == TokensInit /\ [][TokensNext]_tokenVars

(***************************************************************************)
(* Whatever is deleted, created, wiped or reset while a request is under   *)
(* way, it lists and sends to no chat but those its own secret was created *)
(* for; and the list of the owner shows when a token was last used, never  *)
(* too late and at most TOUCH_MS too early, across restarts.               *)
(***************************************************************************)
TokensKeepToTheirChats ==
  /\ \A q \in TokenReqs : tokenCall[q].at \in {"lists", "sends"} => tokenCall[q].chats \subseteq given[tokenCall[q].secret]
  /\ \A id \in TokenIds : Exists(id) =>
       LET used == lastUse[tokens[id].secret] IN
       tokens[id].used <= used /\ used <= tokens[id].used + TOUCH_MS
=============================================================================
