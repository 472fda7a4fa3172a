------------------------------- MODULE Console -------------------------------
(***************************************************************************)
(* The administrators' page of one user in the browser                     *)
(* (apps/admin/src/views/UserDetail.vue) and, on it, the link of the       *)
(* user's device grant (components/DeviceGrantLinkActions.vue).  The page  *)
(* is one program whose calls to the server overlap: it goes on to another *)
(* user, or repeats a call, while earlier answers are on the way, and has  *)
(* to leave an answer aside that comes too late.                           *)
(*                                                                         *)
(* The generations that the code counts are compared only for equality: a  *)
(* call on the way says instead whether the page was reset since it began  *)
(* (`here`) and whether a later call took its place (`latest`).  The forms *)
(* are filled and submitted in one step.                                   *)
(***************************************************************************)
EXTENDS Naturals, FiniteSets

CONSTANTS
  Users,      \* users whose pages are opened
  MaxEdits,   \* bound on the versions of a user's data
  MaxCalls    \* bound on the calls on the way at once

VARIABLES
  route,   \* the user of the route, and the one the page was last reset for
  page,    \* what the page keeps and shows
  onWay,   \* the calls that have been sent and not been answered
  remote,  \* remote[u]: the user's data on the server
  told     \* history: the newest change and link answered since the reset

consoleVars == <<route, page, onWay, remote, told>>

NoUser == "nobody"
NoLink == 0
Changing == {"password", "email", "create", "regenerate"}
Operations == Changing \cup {"load", "groups", "view"}

\* resetForUser.  `user` is the owner of the details, `secret` and `password`
\* the owners of a new link and a new password, `shown` a link of the grant,
\* `drawer` its regeneration, `busy` the calls whose buttons are disabled.
Blank == [user |-> NoUser, version |-> 0, bound |-> FALSE, loading |-> TRUE,
          failed |-> FALSE, busy |-> {}, grant |-> "CLOSED", secret |-> NoUser,
          password |-> NoUser, drawer |-> FALSE, shown |-> NoLink]

NothingTold == [change |-> 0, link |-> NoLink]

Call(op, then) ==
  [op |-> op, user |-> route.user, here |-> TRUE, latest |-> TRUE, then |-> then,
   stage |-> "SENT", version |-> 0, bound |-> FALSE]

\* next() of a lifecycle: the calls of these operations are superseded.
Superseding(ops, S) == {[c EXCEPT !.latest = c.latest /\ c.op \notin ops] : c \in S}

\* Mutant of Loading: an earlier load is not superseded.
LoadingAlso(S, then) == S \cup {Call("load", then)}

\* load: the newest one counts.  `then` is the button that is enabled after it.
Loading(S, then) == Superseding({"load"}, S) \cup {Call("load", then)}

ConsoleTypeOK ==
  /\ route \in [user: Users, watched: Users]
  /\ \A c \in onWay : /\ c.op \in Operations /\ c.user \in Users
                      /\ c.stage \in {"SENT", "ANSWERED", "FAILED"}
  /\ page.busy \subseteq Operations /\ page.grant \in {"CLOSED", "OPEN", "READY"}
  /\ \A u \in Users : remote[u].link <= remote[u].version

ConsoleInit ==
  /\ \E u \in Users : /\ route = [user |-> u, watched |-> u]
                      /\ onWay = {[Call("load", "none") EXCEPT !.user = u]}
  /\ page = Blank /\ told = NothingTold
  /\ remote = [u \in Users |-> [version |-> 1, link |-> 1, bound |-> FALSE]]

-----------------------------------------------------------------------------
(* The route.  The watcher runs before the next event; only an answer that   *)
(* has already come may be handled between the change of the route and it.   *)

Watched == route.user = route.watched

Navigate(u) ==
  /\ Watched /\ u # route.user
  /\ route' = [route EXCEPT !.user = u]
  /\ UNCHANGED <<page, onWay, remote, told>>

\* The watcher of userId.
ResetForUser ==
  /\ ~Watched
  /\ route' = [route EXCEPT !.watched = route.user]
  /\ page' = Blank /\ told' = NothingTold
  /\ onWay' = Loading({[c EXCEPT !.here = FALSE, !.latest = FALSE] : c \in onWay}, "none")
  /\ UNCHANGED remote

-----------------------------------------------------------------------------
(* Clicks.                                                                   *)

Sends(calls, shows) ==
  /\ Watched /\ Cardinality(calls) <= MaxCalls
  /\ onWay' = calls /\ page' = shows
  /\ UNCHANGED <<route, remote, told>>

Reloading(p) == [p EXCEPT !.loading = TRUE, !.failed = FALSE]

Refresh == Sends(Loading(onWay, "none"), Reloading(page))

\* submitPassword, submitEmail.
Submit(op) ==
  /\ op \notin page.busy
  /\ Sends(onWay \cup {Call(op, "none")}, [page EXCEPT !.busy = @ \cup {op}])

OpenGrant ==
  /\ page.user # NoUser /\ "create" \notin page.busy
  /\ Sends(Superseding({"groups"}, onWay) \cup {Call("groups", "none")},
           [page EXCEPT !.grant = "OPEN"])

CloseGrant ==
  /\ page.grant # "CLOSED" /\ "create" \notin page.busy
  /\ Sends(Superseding({"groups"}, onWay), [page EXCEPT !.grant = "CLOSED"])

CreateGrant ==
  /\ page.grant = "READY" /\ "create" \notin page.busy /\ page.user # NoUser
  /\ Sends(onWay \cup {Call("create", "none")},
           [page EXCEPT !.busy = @ \cup {"create"}, !.secret = NoUser])

CanViewGrantLink == page.user # NoUser /\ ~page.bound
CanRegenerateGrantLink == page.user # NoUser /\ ~page.bound

\* The drawers cover the buttons of the grant.
Uncovered == ~page.drawer /\ page.shown = NoLink

ViewConnectionUrl ==
  /\ CanViewGrantLink /\ Uncovered
  /\ page.busy \cap {"view", "regenerate"} = {}
  /\ Sends(Superseding({"view"}, onWay) \cup {Call("view", "none")},
           [page EXCEPT !.busy = @ \cup {"view"}])

OpenRegeneration ==
  /\ CanRegenerateGrantLink /\ Uncovered /\ "regenerate" \notin page.busy
  /\ Sends(Superseding({"view"}, onWay), [page EXCEPT !.drawer = TRUE, !.shown = NoLink])

CloseRegeneration ==
  /\ page.drawer /\ "regenerate" \notin page.busy
  /\ Sends(onWay, [page EXCEPT !.drawer = FALSE])

RegenerateConnectionUrl ==
  /\ CanRegenerateGrantLink /\ page.drawer /\ "regenerate" \notin page.busy
  /\ Sends(Superseding({"view"}, onWay) \cup {Call("regenerate", "none")},
           [page EXCEPT !.busy = @ \cup {"regenerate"}])

ClearConnectionUrl == page.shown # NoLink /\ Sends(onWay, [page EXCEPT !.shown = NoLink])
ClearSecret == page.secret # NoUser /\ Sends(onWay, [page EXCEPT !.secret = NoUser])
ClearPassword == page.password # NoUser /\ Sends(onWay, [page EXCEPT !.password = NoUser])

-----------------------------------------------------------------------------
(* The server.                                                               *)

\* c is answered with these data, or its answer is lost.
Answered(c, data, outcomes) ==
  /\ Watched /\ c.stage = "SENT"
  /\ \E stage \in outcomes :
       onWay' = (onWay \ {c}) \cup
         {[c EXCEPT !.stage = stage, !.bound = data.bound,
                    !.version = IF c.op = "view" THEN data.link ELSE data.version]}

ServerReads(c) ==
  /\ c.op \notin Changing
  /\ Answered(c, remote[c.user],
              {"FAILED"} \cup IF c.op = "view" /\ remote[c.user].bound THEN {} ELSE {"ANSWERED"})
  /\ UNCHANGED <<route, page, remote, told>>

Changed(u, link) ==
  [remote EXCEPT ![u].version = @ + 1, ![u].link = IF link THEN remote[u].version + 1 ELSE @]

ServerChanges(c) ==
  /\ c.op \in Changing
  /\ c.op = "regenerate" => ~remote[c.user].bound
  /\ remote[c.user].version < MaxEdits
  /\ remote' = Changed(c.user, c.op = "regenerate")
  /\ Answered(c, remote'[c.user], {"ANSWERED", "FAILED"})
  /\ UNCHANGED <<route, page, told>>

ServerRefuses(c) ==
  /\ c.op \in Changing
  /\ Answered(c, remote[c.user], {"FAILED"})
  /\ UNCHANGED <<route, page, remote, told>>

\* Elsewhere another administrator makes a new link, or a client redeems it.
ElsewhereRegenerated(u) ==
  /\ Watched /\ ~remote[u].bound /\ remote[u].version < MaxEdits
  /\ remote' = Changed(u, TRUE)
  /\ UNCHANGED <<route, page, onWay, told>>

ElsewhereRedeemed(u) ==
  /\ Watched /\ ~remote[u].bound /\ remote[u].version < MaxEdits
  /\ remote' = [Changed(u, FALSE) EXCEPT ![u].bound = TRUE]
  /\ UNCHANGED <<route, page, onWay, told>>

-----------------------------------------------------------------------------
(* Answers.                                                                  *)

IsCurrentRoute(c) == c.here /\ c.user = route.user

\* Mutant of IsCurrentView: a view that was superseded is shown.
SupersededView(c) == c.here

\* The view's gate and lifecycle.
IsCurrentView(c) == c.here /\ c.latest

Arrives(c, op) == c.op = op /\ c.stage # "SENT"

\* The call ends, the page is as given, and nothing else is sent.
Ends(c, p) ==
  /\ onWay' = onWay \ {c} /\ page' = p
  /\ UNCHANGED <<route, remote, told>>

\* The call ends, the page is as given, and its details are loaded again.
EndsAndLoads(c, p, then) ==
  /\ onWay' = Loading(onWay \ {c}, then) /\ page' = Reloading(p)
  /\ told' = [change |-> IF c.version > told.change THEN c.version ELSE told.change,
              link |-> IF c.op = "regenerate" THEN c.version ELSE told.link]
  /\ UNCHANGED <<route, remote>>

LoadReply(c) ==
  LET enabled == IF IsCurrentRoute(c) THEN [page EXCEPT !.busy = @ \ {c.then}] ELSE page IN
  /\ Arrives(c, "load")
  /\ Ends(c, IF ~(IsCurrentRoute(c) /\ c.latest) THEN enabled
             ELSE IF c.stage = "FAILED" THEN [enabled EXCEPT !.loading = FALSE, !.failed = TRUE]
             ELSE [enabled EXCEPT !.loading = FALSE, !.user = c.user,
                                  !.version = c.version, !.bound = c.bound])

SubmitReply(c, op) ==
  /\ Arrives(c, op)
  /\ IF ~IsCurrentRoute(c) THEN Ends(c, page)
     ELSE IF c.stage = "FAILED" THEN Ends(c, [page EXCEPT !.busy = @ \ {op}])
     ELSE EndsAndLoads(c, [page EXCEPT !.password = IF op = "password" THEN c.user ELSE @], op)

GroupsReply(c) ==
  /\ Arrives(c, "groups")
  /\ Ends(c, IF IsCurrentRoute(c) /\ c.latest /\ c.stage = "ANSWERED"
             THEN [page EXCEPT !.grant = "READY"] ELSE page)

\* The gate was invalidated when the page was reset.
CreateReply(c) ==
  LET enabled == IF c.here THEN [page EXCEPT !.busy = @ \ {"create"}] ELSE page IN
  /\ Arrives(c, "create")
  /\ IF ~IsCurrentRoute(c) THEN Ends(c, enabled)
     ELSE IF c.stage = "FAILED" THEN Ends(c, [enabled EXCEPT !.secret = NoUser])
     ELSE EndsAndLoads(c, [enabled EXCEPT !.secret = c.user, !.grant = "CLOSED"], "none")

ViewReply(c) ==
  LET enabled == IF c.here THEN [page EXCEPT !.busy = @ \ {"view"}] ELSE page IN
  /\ Arrives(c, "view")
  /\ Ends(c, IF IsCurrentView(c) /\ c.stage = "ANSWERED"
             THEN [enabled EXCEPT !.shown = c.version] ELSE enabled)

RegenerateReply(c) ==
  LET enabled == IF c.here THEN [page EXCEPT !.busy = @ \ {"regenerate"}] ELSE page IN
  /\ Arrives(c, "regenerate")
  /\ IF c.here /\ c.stage = "ANSWERED"
     THEN EndsAndLoads(c, [enabled EXCEPT !.drawer = FALSE, !.shown = c.version], "none")
     ELSE Ends(c, enabled)

-----------------------------------------------------------------------------
ConsoleNext ==
  \/ \E u \in Users : Navigate(u) \/ ElsewhereRegenerated(u) \/ ElsewhereRedeemed(u)
  \/ ResetForUser \/ Refresh
  \/ \E op \in {"password", "email"} : Submit(op)
  \/ OpenGrant \/ CloseGrant \/ CreateGrant
  \/ ViewConnectionUrl \/ OpenRegeneration \/ CloseRegeneration \/ RegenerateConnectionUrl
  \/ ClearConnectionUrl \/ ClearSecret \/ ClearPassword
  \/ \E c \in onWay :
       \/ ServerReads(c) \/ ServerChanges(c) \/ ServerRefuses(c)
       \/ LoadReply(c) \/ GroupsReply(c) \/ CreateReply(c)
       \/ ViewReply(c) \/ RegenerateReply(c)
       \/ \E op \in {"password", "email"} : SubmitReply(c, op)

-----------------------------------------------------------------------------
(* Properties.                                                               *)

\* No late answer is shown in the place of a newer one: the link of the grant
\* is never older than one that was regenerated here, and a new password, a
\* new link and the details belong to the user whose page is open.
LateReplyNotShown ==
  Watched => /\ page.shown = NoLink \/ page.shown >= told.link
             /\ {page.user, page.secret, page.password} \subseteq {NoUser, route.user}

\* When the page has loaded, its details include every change that the
\* administrator has made on it, whatever order the answers came in.
OwnChangesShown ==
  Watched /\ ~page.loading /\ ~page.failed =>
    page.user = route.user /\ page.version >= told.change
=============================================================================
