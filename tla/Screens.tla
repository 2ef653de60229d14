------------------------------ MODULE Screens ------------------------------
(***************************************************************************)
(* A person at a page of the web app.  The page's queries are kept by      *)
(* React Query, each on its own, so one of them is watched: its cached     *)
(* data, whether it was invalidated, and its request in flight.  Around it *)
(* run the changes the page offers: sent, done by the server, answered;   *)
(* an answer refreshes or sets cached keys.  The server runs each read and *)
(* each change at one moment.                                              *)
(***************************************************************************)
EXTENDS WebPages, Naturals, Sequences

CONSTANTS Whos,      \* a sequence of who may be at the computer
          MaxForms   \* BOUND: changes made on a page, one after another or at once

VARIABLES who, page, watched, data, fetch, invalid, made, raced
screensVars == <<who, page, watched, data, fetch, invalid, made, raced>>

NoData == [shows |-> {}, loaded |-> FALSE]
Loaded(shown) == [shows |-> shown, loaded |-> TRUE]
Idle == [is |-> "idle", got |-> {}]
Sent == [is |-> "sent", got |-> {}]
NoQuery == Query("none", Get("none"), {})

(* What the server serves: a route for the call whose checks pass (Access models the guards' own reads). *)
Lets(w, check) ==
  CASE check.ask = "admin" -> w.session /\ w.admin
    [] check.ask \in {"user", "access"} -> w.session
    [] check.ask = "branch" -> w.session /\ (w.admin \/ w.register # "none")
    [] check.ask \in {"register", "open"} -> w.register # "none"
    [] check.ask = "drawer" -> w.register = "here"
    [] check.ask = "permission" -> w.admin \/ check.of \cap w.may # {}
    [] OTHER -> TRUE
InMode(w, marks) ==
  /\ "online" \in marks => w.mode # "offline"
  /\ "offline" \in marks => w.mode = "offline"
  /\ "managed" \in marks => w.mode = "managed"
(* The calls each is served. *)
Served ==
  [i \in DOMAIN Whos |->
     {r.call : r \in {s \in Routes : InMode(Whos[i], s.marks) /\ \A n \in DOMAIN s.checks : Lets(Whos[i], s.checks[n])}}]
IsServed(i, call) == call \in Served[i] \/ (call[1] = "IPC" /\ Whos[i].desktop)

(* The pages each may open; a page is within the layout, a dialog over it. *)
Opens(w) ==
  {[r EXCEPT !.panel = Of({@, AppLayout(w)})] : r \in {s \in routeTree(w) : s.opens}} \cup {d \in Dialogs(w) : d.opens}
Pages ==
  [i \in DOMAIN Whos |->
     LET routes == Opens(Whos[i]) IN [p \in {r.path : r \in routes} |-> (CHOOSE r \in routes : r.path = p).panel]]
PageLinks == [i \in DOMAIN Whos |-> Links(Whos[i])]

Done == {i \in DOMAIN made : made[i].is # "sent"}
Answered == {i \in DOMAIN made : made[i].is = "answered"}
Bears(c, q) == c.changes \cap q.shows # {} \/ q.key \in c.refreshes \cup c.sets

---------------------------------------------------------------------------
ScreensInit ==
  /\ who \in DOMAIN Whos /\ page = "nowhere" /\ watched = NoQuery
  /\ data = NoData /\ fetch = Idle /\ invalid = FALSE /\ made = <<>> /\ raced = {}

(* A page is opened: its queries are fetched (what was cached is fetched again). *)
Visit ==
  /\ fetch = Idle /\ Answered = DOMAIN made
  /\ \E path \in DOMAIN Pages[who] :
       /\ page' = path
       /\ watched' \in Pages[who][path].queries
  /\ fetch' = Sent
  /\ data' = NoData /\ invalid' = FALSE /\ made' = <<>> /\ raced' = {}
  /\ UNCHANGED who

(* A form is sent; one form waits for its answer before it is sent again. *)
Mutate ==
  /\ page # "nowhere" /\ Len(made) < MaxForms
  /\ \E c \in Pages[who][page].changes :
       /\ Bears(c, watched)
       /\ \A i \in DOMAIN made : made[i].what.call = c.call => made[i].is = "answered"
       /\ made' = Append(made, [what |-> c, is |-> "sent", saw |-> {}])
  /\ UNCHANGED <<who, page, watched, data, fetch, invalid, raced>>

(* The server does the change; its answer holds what it left. *)
Commit ==
  /\ \E i \in DOMAIN made :
       /\ made[i].is = "sent"
       /\ made' = [made EXCEPT ![i].is = "done", ![i].saw = Done \cup {i}]
  /\ UNCHANGED <<who, page, watched, data, fetch, invalid, raced>>

(* The server reads what the watched query asks for. *)
Serves ==
  /\ fetch.is = "sent"
  /\ fetch' = [is |-> "read", got |-> Done]
  /\ UNCHANGED <<who, page, watched, data, invalid, made, raced>>

(* Its answer arrives and becomes the cached data. *)
Arrive ==
  /\ fetch.is = "read"
  /\ data' = Loaded(fetch.got) /\ fetch' = Idle /\ invalid' = FALSE
  /\ UNCHANGED <<who, page, watched, made, raced>>

(* onSuccess: setQueryData for the keys the answer sets, then invalidateQueries: an invalidated
   query that has data is fetched anew, its request in flight dropped; one still loading for the
   first time keeps its request. *)
Answer ==
  \E i \in DOMAIN made :
    LET c == made[i].what
        sets == watched.key \in c.sets
        refreshes == watched.key \in c.refreshes
        had == data.loaded \/ sets IN
    /\ made[i].is = "done"
    /\ made' = [made EXCEPT ![i].is = "answered"]
    /\ data' = IF sets THEN Loaded(made[i].saw) ELSE data
    /\ fetch' = IF refreshes /\ (had \/ fetch = Idle) THEN Sent ELSE fetch
    /\ invalid' = (refreshes \/ (invalid /\ ~sets))
    /\ raced' = raced
         \cup (IF fetch # Idle /\ ((sets /\ ~refreshes) \/ (refreshes /\ ~had)) THEN {i} ELSE {})
         \cup (IF sets THEN data.shows \ made[i].saw ELSE {})
    /\ UNCHANGED <<who, page, watched>>

(* The window comes to the front: what isn't kept as fresh is fetched again. *)
Focus ==
  /\ page # "nowhere" /\ watched # NoQuery /\ fetch = Idle /\ (invalid \/ ~watched.kept)
  /\ fetch' = Sent
  /\ UNCHANGED <<who, page, watched, data, invalid, made, raced>>

ScreensNext == Visit \/ Mutate \/ Commit \/ Serves \/ Arrive \/ Answer \/ Focus
ScreensSpec == ScreensInit /\ [][ScreensNext]_screensVars

---------------------------------------------------------------------------
(* The one page that opens for whom it is of no use: /owner-password asks nothing of who comes, and
   in a browser an offline server has no owner accounts to reset (no link leads there). *)
Useless(w) == IF useIsOffline(w) /\ ~w.desktop THEN {"/owner-password"} ELSE {}
(* Whoever the router lets onto a page is served everything the page reads and everything it
   offers, unless it is Useless to them, and every link of the sidebar leads to its page
   (screens/route-helpers.ts, lib/session.ts `can` and AppLayout against the controllers' guards,
   requireBranch and requirePermission). *)
PagesServed ==
  page # "nowhere" =>
    /\ page \notin Useless(Whos[who]) =>
         /\ \A q \in Pages[who][page].queries : IsServed(who, q.call)
         /\ \A c \in Pages[who][page].changes : IsServed(who, c.call)
    /\ PageLinks[who] \subseteq DOMAIN Pages[who]

(* Pairs of a key and a change that leaves it stale: the code refreshes other keys only.  A wallet
   is read again when its customer is chosen, or the dialog opened, again; the variants' prices
   when the page is opened again or comes to the front. *)
LeftStale ==
  {<<"customer-wallet", Post("/sales/checkout")>>,
   <<"customer-wallet-sales", Post("/sales/:id/settle")>>,
   <<"customer-wallet-sales", Post("/sales/:id/cancel")>>,
   <<"item-groups", Patch("/items/:id")>>, <<"item-groups", Delete("/items/:id")>>}

(* When nothing is in flight, a page shows every change made on it that was answered, but for
   LeftStale, and for three races of answers: one that came while the query's first load was still
   on its way (which is not repeated), one that set the cache while an older read was on its way,
   and one whose late answer set the cache back over a newer change (two forms at once). *)
OwnChangeShown ==
  (fetch = Idle /\ data.loaded) =>
    \A i \in Answered \ raced :
      (/\ made[i].what.changes \cap watched.shows # {}
       /\ <<watched.key, made[i].what.call>> \notin LeftStale) => i \in data.shows
=============================================================================
