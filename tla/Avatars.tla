------------------------------ MODULE Avatars ------------------------------
(***************************************************************************)
(* The pictures of chats (wa/avatars.ts).  A refresh lists the chats whose *)
(* picture is due and goes through them: it asks the page for the address, *)
(* fetches the image inside the browser (wa/browser.ts), stores it and     *)
(* deletes the one it replaces.  It works on the rows it listed while a    *)
(* second refresh may run, the data be wiped and logged again; the ids of  *)
(* table media are given out again after a wipe.                           *)
(*                                                                         *)
(* The file of a row is left out (MediaQueue has the same two steps), and  *)
(* so is the size and type of an image.                                    *)
(***************************************************************************)
EXTENDS Naturals, FiniteSets

CONSTANTS
  ChatIds,
  Broadcasts,   \* status and broadcast chats, which have no picture
  Passes,       \* refreshes that may overlap
  BATCH,
  NoMedia,
  MaxRows,      \* rows of table media at a time  (bound)
  MaxBegun      \* refreshes begun                (bound)

ASSUME AvatarsAssumption == {BATCH, MaxRows, MaxBegun} \subseteq Nat /\ Broadcasts \subseteq ChatIds

MediaIds == 1..MaxRows
ASSUME NoMediaAssumption == NoMedia \notin MediaIds \cup ChatIds

VARIABLES
  chat,       \* table chats: avatar_media_id, and whether avatar_checked_at is old
  mediaRows,  \* table media: the kind of each row
  pass,
  disturbed,  \* a refresh overlapped with another, a wipe, or the end of the process
  taken,      \* a refresh deleted a file that is not a picture
  begun       \* refreshes begun so far

avatarVars == <<chat, mediaRows, pass, disturbed, taken, begun>>

ChatRow == [logged : BOOLEAN, avatar : MediaIds \cup {NoMedia}, due : BOOLEAN]
NoChat == [logged |-> FALSE, avatar |-> NoMedia, due |-> FALSE]
NoPass == [at |-> "idle", todo |-> {}, listed |-> [c \in ChatIds |-> NoMedia],
              chat |-> NoMedia, old |-> NoMedia, new |-> NoMedia]

AvatarsTypeOK ==
  /\ chat \in [ChatIds -> ChatRow]
  /\ mediaRows \in [MediaIds -> {"avatar", "message", "none"}]
  /\ pass \in [Passes ->
       [at : {"idle", "next", "asks", "inPage", "byDevTools", "stores", "stored"}, todo : SUBSET ChatIds,
        listed : [ChatIds -> MediaIds \cup {NoMedia}], chat : ChatIds \cup {NoMedia},
        old : MediaIds \cup {NoMedia}, new : MediaIds \cup {NoMedia}]]
  /\ disturbed \in BOOLEAN /\ taken \in BOOLEAN /\ begun \in Nat

AvatarsInit ==
  /\ chat = [c \in ChatIds |-> NoChat]
  /\ mediaRows = [id \in MediaIds |-> "none"]
  /\ pass = [r \in Passes |-> NoPass]
  /\ disturbed = FALSE /\ taken = FALSE /\ begun = 0

(***************************************************************************)
(* The database: the foreign key of avatar_media_id, which is set to null  *)
(* when the row goes; a new row of media gets the id after the greatest.   *)
(***************************************************************************)
IsRow(id) == mediaRows[id] # "none"
NewRow(id) ==
  /\ \A k \in MediaIds : k >= id => ~IsRow(k)
  /\ \A k \in MediaIds : k + 1 = id => IsRow(k)
AcceptsRow(c, id) == chat[c].logged => id = NoMedia \/ IsRow(id)
SetChatAvatar(c, id) ==
  IF chat[c].logged THEN [chat EXCEPT ![c].avatar = id, ![c].due = FALSE] ELSE chat
Without(rows, id) == [c \in ChatIds |-> IF rows[c].avatar = id /\ id # NoMedia THEN [rows[c] EXCEPT !.avatar = NoMedia] ELSE rows[c]]

UnderWay == {r \in Passes : pass[r].at # "idle"}
Due == {c \in ChatIds : chat[c].logged /\ chat[c].due}

(***************************************************************************)
(* refreshAvatars()                                                        *)
(***************************************************************************)
\* From the timer, and when a client has become ready; nothing keeps two apart.
RefreshBegins(r) ==
  /\ pass[r].at = "idle" /\ begun < MaxBegun /\ begun' = begun + 1
  /\ \E S \in SUBSET Due :
       /\ S # {} /\ (Cardinality(S) = BATCH \/ (S = Due /\ Cardinality(S) < BATCH))
       /\ pass' = [pass EXCEPT ![r] =
            [NoPass EXCEPT !.at = "next", !.todo = S,
                              !.listed = [c \in ChatIds |-> IF c \in S THEN chat[c].avatar ELSE NoMedia]]]
  /\ disturbed' = (disturbed \/ UnderWay # {})
  /\ UNCHANGED <<chat, mediaRows, taken>>

NextAvatar(r, c) ==
  /\ pass[r].at = "next" /\ c \in pass[r].todo
  /\ IF c \in Broadcasts
     THEN chat' = SetChatAvatar(c, NoMedia) /\ pass' = [pass EXCEPT ![r].todo = @ \ {c}]
     ELSE /\ pass' = [pass EXCEPT ![r].at = "asks", ![r].todo = @ \ {c}, ![r].chat = c]
          /\ UNCHANGED chat
  /\ UNCHANGED <<mediaRows, disturbed, taken, begun>>

RefreshEnds(r) ==
  /\ pass[r].at = "next" /\ pass[r].todo = {}
  /\ pass' = [pass EXCEPT ![r] = NoPass]
  /\ UNCHANGED <<chat, mediaRows, disturbed, taken, begun>>

Onward(r) ==
  [pass EXCEPT ![r] = [NoPass EXCEPT !.at = "next", !.todo = pass[r].todo,
                                           !.listed = [pass[r].listed EXCEPT ![pass[r].chat] = NoMedia]]]

\* The picture the chat had when it was listed, if that row is there now.
OldRow(r) ==
  LET id == pass[r].listed[pass[r].chat] IN IF id # NoMedia /\ IsRow(id) THEN id ELSE NoMedia

NoImage(r) ==
  /\ chat' = SetChatAvatar(pass[r].chat, OldRow(r))
  /\ pass' = Onward(r) /\ UNCHANGED <<mediaRows, disturbed, taken, begun>>
GotImage(r) ==
  /\ pass' = [pass EXCEPT ![r].at = "stores", ![r].old = OldRow(r)]
  /\ UNCHANGED <<chat, mediaRows, disturbed, taken, begun>>

\* catch: what the chat had when it was listed is put back.  If the foreign key
\* refuses even that, the refresh ends.
Caught(r) ==
  /\ LET c == pass[r].chat  id == pass[r].listed[pass[r].chat] IN
     IF AcceptsRow(c, id)
     THEN chat' = SetChatAvatar(c, id) /\ pass' = Onward(r)
     ELSE pass' = [pass EXCEPT ![r] = NoPass] /\ UNCHANGED chat
  /\ UNCHANGED <<mediaRows, disturbed, taken, begun>>

\* getUrl(): null if the page cannot tell, or the address is of another host.
AvatarUrl(r) ==
  /\ pass[r].at = "asks"
  /\ \/ NoImage(r)
     \/ /\ pass' = [pass EXCEPT ![r].at = "inPage"]
        /\ UNCHANGED <<chat, mediaRows, disturbed, taken, begun>>

\* fetch() in the page; null if that fails or the image is too large.
FetchInPage(r) ==
  /\ pass[r].at = "inPage"
  /\ \/ GotImage(r)
     \/ /\ pass' = [pass EXCEPT ![r].at = "byDevTools"]
        /\ UNCHANGED <<chat, mediaRows, disturbed, taken, begun>>

\* Network.loadNetworkResource, read piece by piece: an image, none, or no session.
FetchByDevTools(r) ==
  pass[r].at = "byDevTools" /\ (GotImage(r) \/ NoImage(r) \/ Caught(r))

\* beginMediaFile() .. finishMediaFile(): the disk or the table may refuse.
StoreAvatar(r) ==
  /\ pass[r].at = "stores"
  /\ \/ Caught(r)
     \/ \E id \in MediaIds :
          /\ NewRow(id) /\ mediaRows' = [mediaRows EXCEPT ![id] = "avatar"]
          /\ pass' = [pass EXCEPT ![r].at = "stored", ![r].new = id]
          /\ UNCHANGED <<chat, disturbed, taken, begun>>

\* The row of the old picture is deleted in the step that shows the new one.
ShownOnly(r) ==   \* mutant: the old picture is not deleted
  /\ chat' = SetChatAvatar(pass[r].chat, pass[r].new)
  /\ UNCHANGED <<mediaRows, taken>>
Replaced(r) ==
  LET old == pass[r].old  rows == SetChatAvatar(pass[r].chat, pass[r].new) IN
  IF old = NoMedia THEN chat' = rows /\ UNCHANGED <<mediaRows, taken>>
  ELSE /\ chat' = Without(rows, old)
       /\ mediaRows' = [mediaRows EXCEPT ![old] = "none"]
       /\ taken' = (taken \/ mediaRows[old] = "message")

ShowAvatar(r) ==
  /\ pass[r].at = "stored"
  /\ IF AcceptsRow(pass[r].chat, pass[r].new)
     THEN Replaced(r) /\ pass' = Onward(r) /\ UNCHANGED <<disturbed, begun>>
     ELSE Caught(r)

(***************************************************************************)
(* What comes in between.                                                  *)
(***************************************************************************)
AvatarChatLogged(c) ==
  /\ ~chat[c].logged
  /\ chat' = [chat EXCEPT ![c] = [logged |-> TRUE, avatar |-> NoMedia, due |-> TRUE]]
  /\ UNCHANGED <<mediaRows, pass, disturbed, taken, begun>>

MessageMediaStored ==
  /\ \E id \in MediaIds : NewRow(id) /\ mediaRows' = [mediaRows EXCEPT ![id] = "message"]
  /\ UNCHANGED <<chat, pass, disturbed, taken, begun>>

\* REFRESH_AFTER_MS have passed.
DaysPass ==
  /\ chat' = [c \in ChatIds |-> [chat[c] EXCEPT !.due = chat[c].logged]]
  /\ UNCHANGED <<mediaRows, pass, disturbed, taken, begun>>

AvatarsWiped ==
  /\ chat' = [c \in ChatIds |-> NoChat]
  /\ mediaRows' = [id \in MediaIds |-> "none"]
  /\ disturbed' = (disturbed \/ UnderWay # {})
  /\ UNCHANGED <<pass, taken, begun>>

RefreshesKilled ==
  /\ UnderWay # {} /\ pass' = [r \in Passes |-> NoPass]
  /\ disturbed' = TRUE /\ UNCHANGED <<chat, mediaRows, taken, begun>>

AvatarsNext ==
  \/ \E r \in Passes :
       \/ RefreshBegins(r) \/ RefreshEnds(r) \/ AvatarUrl(r) \/ FetchInPage(r) \/ FetchByDevTools(r)
       \/ StoreAvatar(r) \/ ShowAvatar(r) \/ \E c \in ChatIds : NextAvatar(r, c)
  \/ \E c \in ChatIds : AvatarChatLogged(c)
  \/ MessageMediaStored \/ DaysPass \/ AvatarsWiped \/ RefreshesKilled

AvatarsSpec == AvatarsInit /\ [][AvatarsNext]_avatarVars

(***************************************************************************)
(* A picture a chat shows is always there, whatever overlaps.  As long as  *)
(* no refresh overlapped with another or with a wipe and none was killed,  *)
(* it is that chat's own, no other file was deleted for it, and no         *)
(* picture is kept that no chat shows.                                     *)
(***************************************************************************)
Shows(c, id) == chat[c].avatar = id
Pictures == {id \in MediaIds : mediaRows[id] = "avatar"}
AvatarsAreTheirs ==
  /\ \A c \in ChatIds : chat[c].avatar # NoMedia => IsRow(chat[c].avatar)
  /\ ~disturbed =>
       /\ ~taken
       /\ \A c \in ChatIds : chat[c].avatar # NoMedia =>
            chat[c].avatar \in Pictures /\ \A d \in ChatIds : Shows(d, chat[c].avatar) => d = c
       /\ \A id \in Pictures :
            (\E c \in ChatIds : Shows(c, id)) \/ \E r \in Passes : pass[r].new = id
=============================================================================
