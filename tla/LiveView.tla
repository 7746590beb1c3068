------------------------------ MODULE LiveView ------------------------------
(***************************************************************************)
(* A chat as the browser shows it (pages/ChatView.tsx): the page that is   *)
(* loaded first, the older and newer pages that scrolling adds, and the    *)
(* events that announce new and changed messages, each of which is fetched *)
(* again (api/events.ts, state/AppState.tsx and, of the server,            *)
(* api/chats.ts and the queries of db/repo.ts).  Ingest has what writes    *)
(* the log; here a message only has a place in the order of the chat and a *)
(* version.                                                                *)
(*                                                                         *)
(* A request is sent, read by the server, and answered: what it returns is *)
(* what the log was in the middle.  Requests overtake each other and are   *)
(* not cancelled, but for the load of a page the user has left.            *)
(***************************************************************************)
EXTENDS Naturals, Sequences, FiniteSets

CONSTANTS
  Places,    \* places of the chat's messages, in the order (ts, rowid)
  PAGE, HALF, \* the sizes of a page, and of each side around a message
  NoCursor,
  MaxLogged, \* messages logged or changed while the page is open (bound)
  MaxUnlogged, \* places without a message at first            (bound)
  MaxMoves,  \* jumps to another message                          (bound)
  MaxBreaks  \* connections lost and requests that fail           (bound)

ASSUME LiveViewAssumption ==
  /\ IsFiniteSet(Places) /\ Places \subseteq Nat \ {0} /\ NoCursor \notin Places
  /\ {PAGE, HALF} \subseteq Nat \ {0} /\ {MaxLogged, MaxUnlogged, MaxMoves, MaxBreaks} \subseteq Nat

VARIABLES
  log,      \* table messages: the version of each, 0 if there is none
  alive,  \* whether the session is alive
  stream, wire, \* the event stream, and the events on it
  believed, refresh, \* AppState: signed in, and its request for the state
  focus,    \* the message the page was opened at
  list,     \* the versions shown, 0 if a message is not in the list
  before, after, \* nextBefore, nextAfter
  load, older, newer, \* requests for pages
  get,      \* requests for a message
  known,    \* the messages that were logged when the page was loaded
  mixed,  \* an answer was put into another page's list
  unseen,   \* messages whose last event, or its answer, was lost
  got,      \* the newest version of each message that was ever answered
  moves, breaks

serverVars == <<log, alive>>
stateVars == <<believed, refresh>>
ghostVars == <<known, mixed, unseen, got>>
viewVars == <<serverVars, stream, wire, stateVars, focus, list, before, after, load, older, newer, get,
              ghostVars, moves, breaks>>

Gets == 1..MaxLogged
NoAsk == [at |-> "idle"]
Versions == 0..MaxLogged + 1
Cursors == Places \cup {NoCursor}
LiveViewTypeOK ==
  /\ log \in [Places -> Versions] /\ alive \in BOOLEAN /\ believed \in BOOLEAN
  /\ stream \in {"up", "down"}
  /\ refresh \in {"idle", "sent", "in", "out"}
  /\ focus \in Cursors /\ list \in [Places -> Versions] /\ before \in Cursors /\ after \in Cursors
  /\ get \in [Gets -> {NoAsk} \cup [at : {"sent", "read"}, id : Places, row : Versions]]
  /\ known \subseteq Places /\ mixed \in BOOLEAN /\ unseen \subseteq Places /\ got \in [Places -> Versions]

Logged == {m \in Places : log[m] > 0}
Only(rows) == [m \in Places |-> IF m \in rows THEN log[m] ELSE 0]
Asked(at, from) == [at |-> at, from |-> from]

LiveViewInit ==
  /\ log \in [Places -> {0, 1}] /\ Cardinality({m \in Places : log[m] = 0}) <= MaxUnlogged
  /\ alive = TRUE /\ stream = "up" /\ wire = <<>> /\ believed = TRUE /\ refresh = "idle"
  /\ focus = NoCursor /\ list = [m \in Places |-> 0] /\ before = NoCursor /\ after = NoCursor
  /\ load = Asked("sent", NoCursor) /\ older = NoAsk /\ newer = NoAsk
  /\ get = [g \in Gets |-> NoAsk]
  /\ known = {} /\ mixed = FALSE /\ unseen = {} /\ got = [m \in Places |-> 0]
  /\ moves = [logged |-> 0, jumps |-> 0] /\ breaks = 0

Break == breaks < MaxBreaks /\ breaks' = breaks + 1

(***************************************************************************)
(* The queries.                                                            *)
(***************************************************************************)
Newest(rows, n) == {m \in rows : Cardinality({k \in rows : k >= m}) <= n}
Oldest(rows, n) == {m \in rows : Cardinality({k \in rows : k <= m}) <= n}
First(rows) == CHOOSE m \in rows : \A k \in rows : m <= k
Last(rows) == CHOOSE m \in rows : \A k \in rows : k <= m
MessagesBefore(c, n) == Newest({m \in Logged : c # NoCursor => m < c}, n)
MessagesAfter(c, n) == Oldest({m \in Logged : m > c}, n)
\* One row more than the page tells whether there are more.
Page(rows, cursor) == [rows |-> Only(rows), cursor |-> cursor]
ExtraCursor(c) ==   \* mutant: the cursor is the row that only tells there are more
  LET rows == MessagesBefore(c, PAGE + 1)
      page == Newest(rows, PAGE)
  IN Page(page, IF rows # page THEN First(rows) ELSE NoCursor)
OlderPage(c) ==
  LET rows == MessagesBefore(c, PAGE + 1)
      page == Newest(rows, PAGE)
  IN Page(page, IF rows # page THEN First(page) ELSE NoCursor)
LatestPage == OlderPage(NoCursor)
EarlierPage(c) == OlderPage(c)
NewerPage(c) ==
  LET rows == MessagesAfter(c, PAGE + 1)
      page == Oldest(rows, PAGE)
  IN Page(page, IF rows # page THEN Last(page) ELSE NoCursor)
AroundPage(m) ==
  LET below == MessagesBefore(m, HALF + 1)
      above == MessagesAfter(m, HALF + 1)
      page == Newest(below, HALF) \cup {m} \cup Oldest(above, HALF)
  IN [rows |-> Only(page),
      cursor |-> IF Cardinality(below) > HALF THEN First(page) ELSE NoCursor,
      next |-> IF Cardinality(above) > HALF THEN Last(page) ELSE NoCursor]

(***************************************************************************)
(* The server.                                                             *)
(***************************************************************************)
Send(ev, m) ==
  IF stream = "up" THEN wire' = Append(wire, [type |-> ev, id |-> m]) /\ unseen' = unseen \ {m}
  ELSE wire' = wire /\ unseen' = unseen \cup {m}
MessageLogged(m) ==
  /\ moves.logged < MaxLogged /\ moves' = [moves EXCEPT !.logged = @ + 1]
  /\ log' = [log EXCEPT ![m] = @ + 1]
  /\ Send(IF log[m] = 0 THEN "message" ELSE "message_update", m)
  /\ UNCHANGED <<alive, stream, stateVars, focus, list, before, after, load, older, newer, get, known, mixed, got, breaks>>
\* The stream says so, and ends.
Revoke ==
  /\ alive /\ Break
  /\ alive' = FALSE
  /\ IF stream = "up" THEN wire' = Append(wire, [type |-> "session_revoked"]) ELSE UNCHANGED wire
  /\ UNCHANGED <<log, stream, stateVars, focus, list, before, after, load, older, newer, get, ghostVars, moves>>

(***************************************************************************)
(* The page's requests.                                                    *)
(***************************************************************************)
PageUnchanged == UNCHANGED <<serverVars, stream, wire>>
\* A request the server refuses asks for the state, unless that is under way.
Unauthorized == refresh' = IF refresh = "idle" THEN "sent" ELSE refresh
AskRefused(v) == v.at = "sent" /\ ~alive
AskFails(v) == v.at # "idle" /\ alive /\ Break
RequestEnds(v) ==
  \/ AskRefused(v) /\ Unauthorized /\ UNCHANGED <<believed, breaks>>
  \/ AskFails(v) /\ UNCHANGED stateVars

LoadRead ==
  /\ load.at = "sent" /\ alive
  /\ load' = IF load.from = NoCursor THEN [at |-> "read", page |-> LatestPage, next |-> NoCursor, known |-> Logged]
             ELSE LET p == AroundPage(load.from)
                  IN [at |-> "read", page |-> [rows |-> p.rows, cursor |-> p.cursor], next |-> p.next, known |-> Logged]
  /\ PageUnchanged
  /\ UNCHANGED <<stateVars, focus, list, before, after, older, newer, get, ghostVars, moves, breaks>>
Seen(rows) == [m \in Places |-> IF rows[m] > got[m] THEN rows[m] ELSE got[m]]
\* setMessages(page): whatever came in meanwhile goes.
LoadApplied ==
  /\ load.at = "read" /\ load' = NoAsk
  /\ list' = load.page.rows /\ before' = load.page.cursor /\ after' = load.next
  /\ known' = load.known
  /\ got' = Seen(load.page.rows)
  /\ PageUnchanged /\ UNCHANGED <<stateVars, focus, older, newer, get, mixed, unseen, moves, breaks>>
LoadEnds ==
  /\ RequestEnds(load) /\ load' = NoAsk
  /\ PageUnchanged /\ UNCHANGED <<focus, list, before, after, older, newer, get, ghostVars, moves>>

\* jump(): a message that is not in the list opens the page around it; the load
\* that is under way is cancelled, the other requests are not.
Jump(m) ==
  /\ believed /\ moves.jumps < MaxMoves /\ moves' = [moves EXCEPT !.jumps = @ + 1]
  /\ log[m] > 0 /\ list[m] = 0
  /\ focus' = m
  /\ list' = [k \in Places |-> 0] /\ before' = NoCursor /\ after' = NoCursor
  /\ load' = Asked("sent", m)
  /\ older' = IF older.at = "idle" THEN older ELSE [older EXCEPT !.of = "left"]
  /\ newer' = IF newer.at = "idle" THEN newer ELSE [newer EXCEPT !.of = "left"]
  /\ known' = {} /\ mixed' = FALSE
  /\ PageUnchanged /\ UNCHANGED <<stateVars, get, unseen, got, breaks>>

Scrolled(ask) == [at |-> "sent", from |-> ask, of |-> "this"]
LoadOlder ==
  /\ believed /\ before # NoCursor /\ older.at = "idle"
  /\ older' = Scrolled(before)
  /\ PageUnchanged /\ UNCHANGED <<stateVars, focus, list, before, after, load, newer, get, ghostVars, moves, breaks>>
OlderRead ==
  /\ older.at = "sent" /\ alive
  /\ older' = [at |-> "read", page |-> EarlierPage(older.from), of |-> older.of]
  /\ PageUnchanged /\ UNCHANGED <<stateVars, focus, list, before, after, load, newer, get, ghostVars, moves, breaks>>
Merged(rows) == [m \in Places |-> IF list[m] > 0 THEN list[m] ELSE rows[m]]
OlderApplied ==
  /\ older.at = "read" /\ older' = NoAsk
  /\ got' = Seen(older.page.rows)
  /\ list' = Merged(older.page.rows) /\ before' = older.page.cursor
  /\ mixed' = (mixed \/ older.of = "left")
  /\ PageUnchanged
  /\ UNCHANGED <<stateVars, focus, after, load, newer, get, known, unseen, moves, breaks>>
OlderEnds ==
  /\ RequestEnds(older) /\ older' = NoAsk
  /\ PageUnchanged /\ UNCHANGED <<focus, list, before, after, load, newer, get, ghostVars, moves>>

LoadNewer ==
  /\ believed /\ after # NoCursor /\ newer.at = "idle"   \* (a second one would ask for the same page)
  /\ newer' = Scrolled(after)
  /\ PageUnchanged /\ UNCHANGED <<stateVars, focus, list, before, after, load, older, get, ghostVars, moves, breaks>>
NewerRead ==
  /\ newer.at = "sent" /\ alive
  /\ newer' = [at |-> "read", page |-> NewerPage(newer.from), of |-> newer.of]
  /\ PageUnchanged /\ UNCHANGED <<stateVars, focus, list, before, after, load, older, get, ghostVars, moves, breaks>>
NewerApplied ==
  /\ newer.at = "read" /\ newer' = NoAsk
  /\ got' = Seen(newer.page.rows)
  /\ list' = Merged(newer.page.rows) /\ after' = newer.page.cursor
  /\ mixed' = (mixed \/ newer.of = "left")
  /\ PageUnchanged
  /\ UNCHANGED <<stateVars, focus, before, load, older, get, known, unseen, moves, breaks>>
NewerEnds ==
  /\ RequestEnds(newer) /\ newer' = NoAsk
  /\ PageUnchanged /\ UNCHANGED <<focus, list, before, after, load, older, get, ghostVars, moves>>

(***************************************************************************)
(* Events.                                                                 *)
(***************************************************************************)
IgnoresUpdates(ev) == ev.type \in {"message", "message_update"} /\ after # NoCursor   \* mutant
\* A new message is not fetched while there are newer pages to load.
Ignored(ev) == ev.type = "message" /\ after # NoCursor
FreeGet == CHOOSE g \in Gets : get[g] = NoAsk
EventComes ==
  /\ believed /\ wire # <<>> /\ wire' = Tail(wire)
  /\ LET ev == Head(wire)
     IN IF ev.type = "session_revoked"
        THEN Unauthorized /\ stream' = "down" /\ UNCHANGED get
        ELSE /\ get' = IF Ignored(ev) THEN get
                       ELSE [get EXCEPT ![FreeGet] = [at |-> "sent", id |-> ev.id, row |-> 0]]
             /\ UNCHANGED <<stream, refresh>>
  /\ UNCHANGED <<serverVars, believed, focus, list, before, after, load, older, newer, ghostVars, moves, breaks>>
GetRead(g) ==
  /\ get[g].at = "sent" /\ alive
  /\ get' = [get EXCEPT ![g].at = "read", ![g].row = log[get[g].id]]
  /\ PageUnchanged
  /\ UNCHANGED <<stateVars, focus, list, before, after, load, older, newer, ghostVars, moves, breaks>>
\* upsert(): in its place if it is shown, else among the others.
Upsert(g) ==
  /\ get[g].at = "read"
  /\ LET m == get[g].id
         row == get[g].row
     IN /\ list' = [list EXCEPT ![m] = row]
        /\ got' = [got EXCEPT ![m] = IF row > @ THEN row ELSE @]
  /\ get' = [get EXCEPT ![g] = NoAsk]
  /\ PageUnchanged
  /\ UNCHANGED <<stateVars, focus, before, after, load, older, newer, known, mixed, unseen, moves, breaks>>
GetEnds(g) ==
  /\ RequestEnds(get[g])
  /\ unseen' = unseen \cup {get[g].id}
  /\ get' = [get EXCEPT ![g] = NoAsk]
  /\ PageUnchanged /\ UNCHANGED <<focus, list, before, after, load, older, newer, known, mixed, got, moves>>

\* The browser connects again by itself; what was on the stream is gone, and
\* nothing is loaded again.
StreamLost ==
  /\ stream = "up" /\ Break
  /\ stream' = "down" /\ wire' = <<>>
  /\ unseen' = unseen \cup {wire[i].id : i \in {j \in 1..Len(wire) : wire[j].type # "session_revoked"}}
  /\ UNCHANGED <<serverVars, stateVars, focus, list, before, after, load, older, newer, get, known, mixed, got, moves>>
Reconnect ==
  /\ stream = "down" /\ alive /\ believed
  /\ stream' = "up"
  /\ UNCHANGED <<serverVars, wire, stateVars, focus, list, before, after, load, older, newer, get, ghostVars, moves, breaks>>

(***************************************************************************)
(* refresh(): one request at a time, whoever asks.                         *)
(***************************************************************************)
RefreshRead ==
  /\ refresh = "sent" /\ refresh' = IF alive THEN "in" ELSE "out"
  /\ PageUnchanged
  /\ UNCHANGED <<believed, focus, list, before, after, load, older, newer, get, ghostVars, moves, breaks>>
RefreshApplied ==
  /\ refresh \in {"in", "out"} /\ refresh' = "idle"
  /\ believed' = (refresh = "in")
  /\ PageUnchanged
  /\ UNCHANGED <<focus, list, before, after, load, older, newer, get, ghostVars, moves, breaks>>
\* Another part of the page asks for the state (after a sign-in, a setting).
RefreshAsked ==
  /\ believed /\ refresh = "idle" /\ Break /\ refresh' = "sent"
  /\ PageUnchanged
  /\ UNCHANGED <<believed, focus, list, before, after, load, older, newer, get, ghostVars, moves>>

LiveViewNext ==
  \/ \E m \in Places : MessageLogged(m) \/ Jump(m)
  \/ LoadRead \/ LoadApplied \/ LoadEnds
  \/ LoadOlder \/ OlderRead \/ OlderApplied \/ OlderEnds
  \/ LoadNewer \/ NewerRead \/ NewerApplied \/ NewerEnds
  \/ EventComes \/ \E g \in Gets : GetRead(g) \/ Upsert(g) \/ GetEnds(g)
  \/ Revoke \/ StreamLost \/ Reconnect
  \/ RefreshRead \/ RefreshApplied \/ RefreshAsked

LiveViewSpec == LiveViewInit /\ [][LiveViewNext]_viewVars

(***************************************************************************)
(* Properties                                                              *)
(***************************************************************************)
ViewSettled == load = NoAsk /\ older = NoAsk /\ newer = NoAsk /\ wire = <<>> /\ \A g \in Gets : get[g] = NoAsk

\* The pages join: of the messages logged when the first page was read, every
\* one between the two ends of what was loaded is in the list, however scrolling,
\* events and new messages in between were interleaved; unless an older or newer
\* page asked for before a jump was answered after it.
PagesMeet ==
  load = NoAsk /\ ~mixed =>
    \A m \in known : (before = NoCursor \/ m >= before) /\ (after = NoCursor \/ m <= after) => list[m] > 0

\* Live updates: once nothing is under way, each message in the list is shown as
\* it is logged, also in a part of the history the page jumped to, unless its
\* event was lost with the connection, or an answer with a newer version was
\* overtaken by an older one.
ShowsLatest ==
  believed /\ alive /\ ViewSettled =>
    \A m \in Places \ unseen : list[m] > 0 => list[m] = log[m] \/ list[m] < got[m]

\* The list of a chat (ChatView.tsx), no hole and nothing old: both of the above.
ChatIsShown == PagesMeet /\ ShowsLatest

(***************************************************************************)
(* Not kept.                                                               *)
(***************************************************************************)
\* A load, or a second fetch of a message, may be answered late.
NothingOvertaken == \A m \in Places : list[m] > 0 => list[m] >= got[m]
\* loadOlder() and loadNewer() are not cancelled by a jump.
PagesMeetAlways ==
  load = NoAsk => \A m \in known :
    (before = NoCursor \/ m >= before) /\ (after = NoCursor \/ m <= after) => list[m] > 0
\* "Viewing older history; will load when scrolling down" (ChatView.tsx): not if
\* the first or the last newer page was read before the message and answered after
\* its event, or after the answer to it.
LoadedBelow ==
  believed /\ alive /\ ViewSettled /\ after = NoCursor /\ breaks = 0 /\ ~mixed =>
    \A m \in Logged : (\A k \in Places : list[k] > 0 => m > k) => list[m] > 0 \/ list = [k \in Places |-> 0]
\* An update of a message that is not loaded puts it among those that are.
NothingStrange ==
  ViewSettled => \A m \in Places : list[m] > 0 =>
    (before = NoCursor \/ m >= before) /\ (after = NoCursor \/ m <= after)
\* A session that ended is noticed, without another request of the user.
NoticesTheEnd == ViewSettled /\ ~alive /\ refresh = "idle" => ~believed
=============================================================================
