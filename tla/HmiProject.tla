----------------------------- MODULE HmiProject -----------------------------
(***************************************************************************)
(* The HMI project and its screens in the database, edited by several      *)
(* browsers at once under optimistic locking: a client sends back the      *)
(* revision it loaded, and a save is refused (409) when the stored one     *)
(* differs.  Every handler is one SQLite transaction on the main thread,   *)
(* so it is one step that happens entirely or not at all.                  *)
(*                                                                         *)
(* One client is watched from the moment it loads a screen or the project  *)
(* to its save; the others appear as the handlers they call.  Titles and   *)
(* the project's name are left out: they go the way of the content.        *)
(***************************************************************************)
EXTENDS Integers, Sequences, FiniteSets

CONSTANTS
    Screen,       \* screen ids
    Content,      \* what a screen may hold
    NoScreen,     \* start_screen = NULL
    maxScreens,   \* config.json: hmi.maxScreens
    Backup,       \* backup files: hmi.json with its screens in an array
    MaxRevision   \* bound: revisions and sort_order considered

ASSUME HmiAssumption ==
    /\ NoScreen \notin Screen
    /\ maxScreens \in Nat
    /\ MaxRevision \in Nat

Revision  == 0 .. MaxRevision
HmiScreen == [revision: Nat, sort_order: Nat, content: Content]

ASSUME BackupAssumption ==
    \A file \in Backup :
        /\ file.screens \in Seq([id: Screen, revision: Nat, content: Content])
        /\ file.start_screen \in Screen \cup {NoScreen}
        /\ file.revision \in Nat

VARIABLES
    screens,      \* table hmi_screens: id -> revision, sort_order, content
    start_screen, \* hmi_project.start_screen
    revision,     \* hmi_project.revision
    sview,        \* the screen the watched client has loaded
    pview,        \* the project as the watched client has loaded it
    porder        \* the screens and their order, loaded with it

vars == <<screens, start_screen, revision, sview, pview, porder>>

(***************************************************************************)
(* A view keeps what was shown and the revision to send back.  "same" says *)
(* that the rows it was read from have not been deleted or replaced by a   *)
(* restore since, even if others like them exist now.                      *)
(***************************************************************************)
ids == DOMAIN screens
Order == [s \in ids |-> screens[s].sort_order]

TypeOK ==
    /\ ids \subseteq Screen
    /\ screens \in [ids -> HmiScreen]
    /\ start_screen \in Screen \cup {NoScreen}
    /\ revision \in Nat
    /\ sview \in [id: Screen \cup {NoScreen}, revision: Nat,
                  content: Content, same: BOOLEAN]
    /\ pview \in [revision: Nat, start_screen: Screen \cup {NoScreen}, same: BOOLEAN]
    /\ DOMAIN porder \subseteq Screen
    /\ porder \in [DOMAIN porder -> Nat]

(* An empty database; nothing has been loaded. *)
Init ==
    /\ screens = [s \in {} |-> {}]
    /\ start_screen = NoScreen
    /\ revision = 0
    /\ sview \in [id: {NoScreen}, revision: {0}, content: Content, same: {FALSE}]
    /\ pview = [revision |-> 0, start_screen |-> NoScreen, same |-> FALSE]
    /\ porder = Order
-----------------------------------------------------------------------------
(* GET /api/hmi/screens/{id} and GET /api/hmi/project by the watched client. *)
LoadHmiScreen(id) ==
    /\ id \in ids
    /\ sview' = [id |-> id, revision |-> screens[id].revision,
                 content |-> screens[id].content, same |-> TRUE]
    /\ UNCHANGED <<screens, start_screen, revision, pview, porder>>

LoadHmiProject ==
    /\ pview' = [revision |-> revision, start_screen |-> start_screen, same |-> TRUE]
    /\ porder' = Order
    /\ UNCHANGED <<screens, start_screen, revision, sview>>

(* Variant: the project revision is left alone. *)
NoBump == UNCHANGED revision

bumpHmiProjectRevision ==
    /\ revision < MaxRevision
    /\ revision' = revision + 1

(* The view of a screen whose row is gone. *)
Forget(gone) == sview' = [sview EXCEPT !.same = @ /\ sview.id \notin gone]

(* Variant: the order of a new screen is the number of screens. *)
IsCountOrder(k) == k = Cardinality(ids)

(* sort_order of a new screen: one more than the largest, or 0. *)
IsNextOrder(k) ==
    /\ \A s \in ids : screens[s].sort_order < k
    /\ k = 0 \/ \E s \in ids : screens[s].sort_order = k - 1

(***************************************************************************)
(* POST /api/hmi/screens: refused when there are too many screens or the   *)
(* id is taken.  The first screen becomes the start screen.                *)
(***************************************************************************)
InsertHmiScreen(id, content, k) ==
    /\ Cardinality(ids) < maxScreens
    /\ id \notin ids
    /\ IsNextOrder(k)
    /\ screens' = [s \in ids \cup {id} |->
                      IF s = id
                      THEN [revision |-> 1, sort_order |-> k, content |-> content]
                      ELSE screens[s]]
    /\ start_screen' = IF ids = {} THEN id ELSE start_screen
    /\ bumpHmiProjectRevision
    /\ UNCHANGED <<sview, pview, porder>>

(* Variant: a save keeps the revision. *)
UpdateKeepingRevision(id, rev, content) ==
    /\ id \in ids
    /\ screens[id].revision = rev
    /\ screens' = [screens EXCEPT ![id].content = content]
    /\ UNCHANGED <<start_screen, revision, sview, pview, porder>>

(* PUT /api/hmi/screens/{id}: refused unless the revision is the stored one. *)
UpdateHmiScreen(id, rev, content) ==
    /\ id \in ids
    /\ screens[id].revision = rev
    /\ rev < MaxRevision
    /\ screens' = [screens EXCEPT ![id].revision = @ + 1, ![id].content = content]
    /\ UNCHANGED <<start_screen, revision, sview, pview, porder>>

(* Variant: the start screen stays set when the last screen goes. *)
DeleteKeepingStart(id) ==
    /\ id \in ids
    /\ start_screen = id => ids = {id}
    /\ screens' = [s \in ids \ {id} |-> screens[s]]
    /\ UNCHANGED start_screen
    /\ bumpHmiProjectRevision
    /\ Forget({id})
    /\ UNCHANGED <<pview, porder>>

(***************************************************************************)
(* DELETE /api/hmi/screens/{id} asks for no revision.  The start screen is *)
(* protected while another screen remains.                                 *)
(***************************************************************************)
DeleteHmiScreen(id) ==
    /\ id \in ids
    /\ start_screen = id => ids = {id}
    /\ screens' = [s \in ids \ {id} |-> screens[s]]
    /\ start_screen' = IF start_screen = id THEN NoScreen ELSE start_screen
    /\ bumpHmiProjectRevision
    /\ Forget({id})
    /\ UNCHANGED <<pview, porder>>

(***************************************************************************)
(* PUT /api/hmi/project, with the fields the client wants to change: the   *)
(* start screen must exist (or be null when no screen does), and the order *)
(* must name every screen once.                                            *)
(***************************************************************************)
ValidStart(s) == IF ids = {} THEN s = NoScreen ELSE s \in ids

Permutation(order) ==
    /\ order \in [ids -> 0 .. Cardinality(ids) - 1]
    /\ \A s, t \in ids : order[s] = order[t] => s = t

UpdateHmiProject(rev, start, order) ==
    /\ revision = rev
    /\ start = start_screen \/ ValidStart(start)
    /\ order = Order \/ Permutation(order)
    /\ start_screen' = start
    /\ screens' = [s \in ids |-> [screens[s] EXCEPT !.sort_order = order[s]]]
    /\ bumpHmiProjectRevision
    /\ UNCHANGED <<sview, pview, porder>>
-----------------------------------------------------------------------------
(***************************************************************************)
(* Restore of a backup: the tables are wiped and filled from the file,     *)
(* revisions included; sort_order follows the file.  An id that occurs     *)
(* twice fails the INSERT and rolls everything back.  A start screen that  *)
(* is not among the screens is replaced by the first one.  The number of   *)
(* screens is not checked.                                                 *)
(***************************************************************************)
FileIds(file) == {file.screens[n].id : n \in DOMAIN file.screens}

DistinctIds(file) ==
    \A m, n \in DOMAIN file.screens : file.screens[m].id = file.screens[n].id => m = n

(* Variant: the start screen of the file is taken as it is. *)
TrustedStart(file) == file.start_screen

RestoredStart(file) ==
    IF file.start_screen \in FileIds(file) THEN file.start_screen
    ELSE IF file.screens = <<>> THEN NoScreen
    ELSE file.screens[1].id

RestoredScreen(file, s) ==
    LET n == CHOOSE n \in DOMAIN file.screens : file.screens[n].id = s
    IN  [revision   |-> file.screens[n].revision,
         sort_order |-> n - 1,
         content    |-> file.screens[n].content]

RestoreData(file) ==
    /\ DistinctIds(file)
    /\ screens' = [s \in FileIds(file) |-> RestoredScreen(file, s)]
    /\ start_screen' = RestoredStart(file)
    /\ revision' = file.revision
    /\ Forget(Screen)
    /\ pview' = [pview EXCEPT !.same = FALSE]
    /\ UNCHANGED porder

FactoryReset ==
    /\ screens' = [s \in {} |-> {}]
    /\ start_screen' = NoScreen
    /\ revision' = 0
    /\ Forget(Screen)
    /\ pview' = [pview EXCEPT !.same = FALSE]
    /\ UNCHANGED porder
-----------------------------------------------------------------------------
(* A save with any other revision is refused and changes nothing. *)
Next ==
    \/ \E id \in Screen : LoadHmiScreen(id) \/ DeleteHmiScreen(id)
    \/ LoadHmiProject
    \/ \E id \in Screen, c \in Content, k \in Revision : InsertHmiScreen(id, c, k)
    \/ \E id \in Screen, c \in Content, rev \in Revision : UpdateHmiScreen(id, rev, c)
    \/ \E rev \in Revision, start \in Screen \cup {NoScreen} :
          \E order \in {Order} \cup [ids -> 0 .. Cardinality(ids) - 1] :
              UpdateHmiProject(rev, start, order)
    \/ \E file \in Backup : RestoreData(file)
    \/ FactoryReset

Spec == Init /\ [][Next]_vars
-----------------------------------------------------------------------------
(***************************************************************************)
(* The start screen is NULL exactly when there is no screen, and otherwise *)
(* one that exists (api-spec.md, "startScreen").                           *)
(***************************************************************************)
StartScreenRule == ValidStart(start_screen)

(* No two screens share a place in the list, so its order is well defined. *)
OrderIsTotal ==
    \A s, t \in ids : screens[s].sort_order = screens[t].sort_order => s = t

(***************************************************************************)
(* Optimistic locking of a screen: when the revision the client would send *)
(* back is the stored one, the screen still holds what the client saw, so  *)
(* a save cannot overwrite another's work, as long as the screen has not   *)
(* been deleted, restored or reset in between.                             *)
(***************************************************************************)
ScreenSaveIsSafe ==
    (sview.same /\ sview.id \in ids /\ screens[sview.id].revision = sview.revision)
        => screens[sview.id].content = sview.content

(* The same for the project: its start screen, screens and their order. *)
ProjectSaveIsSafe ==
    (pview.same /\ pview.revision = revision)
        => pview.start_screen = start_screen /\ porder = Order
=============================================================================
