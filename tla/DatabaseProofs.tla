--------------------------- MODULE DatabaseProofs ---------------------------
(***************************************************************************)
(* Proofs about what the database keeps: the HMI project for every set of  *)
(* screens, contents and backup files, and the devices, registers and tags *)
(* for every set of identifiers, configurations and addresses.             *)
(***************************************************************************)
EXTENDS HmiProject, Registry, FiniteSetTheorems, TLAPS

(* The HMI project and its screens. *)

(***************************************************************************)
(* Why a matching revision means an unchanged row: while the row lives its *)
(* revision only grows, and it grows with every change.                    *)
(***************************************************************************)
ScreenViewInv ==
    sview.same =>
        /\ sview.id \in ids
        /\ screens[sview.id].revision >= sview.revision
        /\ screens[sview.id].revision = sview.revision
              => screens[sview.id].content = sview.content

ProjectViewInv ==
    pview.same =>
        /\ revision >= pview.revision
        /\ revision = pview.revision
              => pview.start_screen = start_screen /\ porder = Order

Inv ==
    /\ TypeOK
    /\ StartScreenRule
    /\ OrderIsTotal
    /\ ScreenViewInv
    /\ ProjectViewInv

(* What the two UPDATE statements on hmi_screens do to a row. *)
LEMMA SavedRow ==
    ASSUME NEW r \in HmiScreen, NEW c \in Content
    PROVE  LET q == [r EXCEPT !.revision = @ + 1, !.content = c]
           IN  /\ q \in HmiScreen
               /\ q.revision = r.revision + 1
               /\ q.sort_order = r.sort_order
<1> DEFINE p == [r EXCEPT !.revision = r.revision + 1]
<1>1. p \in HmiScreen /\ p.revision = r.revision + 1 /\ p.sort_order = r.sort_order
      BY DEF HmiScreen
<1> HIDE DEF p
<1>2. /\ [p EXCEPT !.content = c] \in HmiScreen
      /\ [p EXCEPT !.content = c].revision = p.revision
      /\ [p EXCEPT !.content = c].sort_order = p.sort_order
      BY <1>1 DEF HmiScreen
<1>3. [r EXCEPT !.revision = @ + 1, !.content = c] = [p EXCEPT !.content = c]
      BY DEF p
<1> QED
    BY <1>1, <1>2, <1>3

LEMMA MovedRow ==
    ASSUME NEW r \in HmiScreen, NEW k \in Nat
    PROVE  LET q == [r EXCEPT !.sort_order = k]
           IN  /\ q \in HmiScreen
               /\ q.sort_order = k
               /\ q.revision = r.revision
               /\ q.content = r.content
  BY DEF HmiScreen

(* The elements of a sequence. *)
LEMMA SeqElements ==
    ASSUME NEW T, NEW q \in Seq(T)
    PROVE  /\ \A n \in DOMAIN q : n \in Nat /\ n >= 1 /\ q[n] \in T
           /\ q # <<>> => 1 \in DOMAIN q
           /\ q = <<>> => DOMAIN q = {}
  OBVIOUS

(* The empty database satisfies the invariant. *)
LEMMA InitInv == Init => Inv
<1> SUFFICES ASSUME Init PROVE Inv
    OBVIOUS
<1>1. ids = {} /\ Order = [s \in {} |-> screens[s].sort_order]
      BY DEF Init, ids, Order
<1>2. TypeOK
  <2>1. screens \in [ids -> HmiScreen] /\ ids \subseteq Screen
        BY <1>1 DEF Init
  <2>2. DOMAIN porder = {} /\ porder \in [DOMAIN porder -> Nat]
        BY <1>1 DEF Init
  <2>3. sview \in [id: Screen \cup {NoScreen}, revision: Nat,
                    content: Content, same: BOOLEAN]
    <3>1. PICK c \in Content : sview = [id |-> NoScreen, revision |-> 0,
                                        content |-> c, same |-> FALSE]
          BY DEF Init
    <3> QED
        BY <3>1
  <2>4. pview \in [revision: Nat, start_screen: Screen \cup {NoScreen}, same: BOOLEAN]
        BY DEF Init
  <2> QED
      BY <2>1, <2>2, <2>3, <2>4 DEF Init, TypeOK
<1>3. StartScreenRule /\ OrderIsTotal /\ ScreenViewInv /\ ProjectViewInv
      BY <1>1 DEF Init, StartScreenRule, ValidStart, OrderIsTotal, ScreenViewInv,
                  ProjectViewInv
<1> QED
    BY <1>2, <1>3 DEF Inv

(* Loading something makes a view of what is stored. *)
LEMMA LoadInv ==
    ASSUME Inv, LoadHmiProject \/ \E id \in Screen : LoadHmiScreen(id)
    PROVE  Inv'
<1> USE DEF Inv
<1>1. UNCHANGED <<screens, start_screen, revision>>
      BY DEF LoadHmiProject, LoadHmiScreen
<1>2. ids' = ids /\ Order' = Order
      BY <1>1 DEF ids, Order
<1>3. StartScreenRule' /\ OrderIsTotal'
      BY <1>1, <1>2 DEF StartScreenRule, ValidStart, OrderIsTotal
<1>4. CASE LoadHmiProject
  <2>1. DOMAIN Order = ids /\ Order \in [ids -> Nat]
        BY DEF Order, TypeOK, HmiScreen
  <2>2. TypeOK'
        BY <1>1, <1>2, <1>4, <2>1 DEF LoadHmiProject, TypeOK
  <2>3. ScreenViewInv' /\ ProjectViewInv'
        BY <1>1, <1>2, <1>4 DEF LoadHmiProject, ScreenViewInv, ProjectViewInv, TypeOK
  <2> QED
      BY <1>3, <2>2, <2>3
<1>5. ASSUME NEW id \in Screen, LoadHmiScreen(id) PROVE Inv'
  <2>1. screens[id] \in HmiScreen
        BY <1>5 DEF LoadHmiScreen, TypeOK
  <2>2. TypeOK'
        BY <1>1, <1>2, <1>5, <2>1 DEF LoadHmiScreen, TypeOK, HmiScreen
  <2>3. ScreenViewInv' /\ ProjectViewInv'
        BY <1>1, <1>2, <1>5, <2>1 DEF LoadHmiScreen, ScreenViewInv, ProjectViewInv, HmiScreen
  <2> QED
      BY <1>3, <2>2, <2>3
<1> QED
    BY <1>4, <1>5

(* After a change of the project its revision is ahead of every view. *)
LEMMA BumpInv ==
    ASSUME Inv, bumpHmiProjectRevision, UNCHANGED pview
    PROVE  ProjectViewInv' /\ revision' \in Nat
  BY DEF Inv, bumpHmiProjectRevision, ProjectViewInv, TypeOK, Revision

LEMMA InsertInv ==
    ASSUME Inv, NEW id \in Screen, NEW c \in Content, NEW k \in Revision,
           InsertHmiScreen(id, c, k)
    PROVE  Inv'
<1> DEFINE new == [revision |-> 1, sort_order |-> k, content |-> c]
<1>0. k \in Nat /\ new \in HmiScreen /\ new.sort_order = k
      BY HmiAssumption DEF Revision, HmiScreen
<1>1. /\ screens' = [s \in ids \cup {id} |-> IF s = id THEN new ELSE screens[s]]
      /\ id \notin ids
      /\ start_screen' = IF ids = {} THEN id ELSE start_screen
      /\ UNCHANGED <<sview, pview, porder>>
      BY DEF InsertHmiScreen
<1> HIDE DEF new
<1>2. /\ ids' = ids \cup {id}
      /\ screens'[id] = new
      /\ \A s \in ids : screens'[s] = screens[s]
      BY <1>1 DEF ids
<1>3. ProjectViewInv' /\ revision' \in Nat
      BY <1>1, BumpInv DEF InsertHmiScreen
<1>4. TypeOK'
      BY <1>0, <1>1, <1>2, <1>3 DEF Inv, TypeOK
<1>5. StartScreenRule'
      BY <1>1, <1>2 DEF Inv, StartScreenRule, ValidStart
<1>6. OrderIsTotal'
  <2>1. \A s \in ids : screens[s].sort_order < k /\ screens[s].sort_order \in Nat
        BY DEF InsertHmiScreen, IsNextOrder, Inv, TypeOK, HmiScreen
  <2> QED
      BY <1>0, <1>2, <2>1 DEF Inv, OrderIsTotal
<1>7. ScreenViewInv'
      BY <1>1, <1>2 DEF Inv, ScreenViewInv
<1> QED
    BY <1>3, <1>4, <1>5, <1>6, <1>7 DEF Inv

LEMMA UpdateInv ==
    ASSUME Inv, NEW id \in Screen, NEW c \in Content, NEW rev \in Revision,
           UpdateHmiScreen(id, rev, c)
    PROVE  Inv'
<1> USE DEF Inv
<1>1. /\ id \in ids
      /\ screens' = [screens EXCEPT ![id].revision = @ + 1, ![id].content = c]
      /\ UNCHANGED <<start_screen, revision, sview, pview, porder>>
      BY DEF UpdateHmiScreen
<1>2. screens \in [ids -> HmiScreen] /\ screens[id] \in HmiScreen
      BY <1>1 DEF TypeOK
<1>3. /\ ids' = ids
      /\ screens'[id] = [screens[id] EXCEPT !.revision = @ + 1, !.content = c]
      /\ \A s \in ids : s # id => screens'[s] = screens[s]
      BY <1>1, <1>2 DEF ids
<1>4. /\ screens'[id] \in HmiScreen
      /\ screens'[id].revision = screens[id].revision + 1
      /\ screens'[id].sort_order = screens[id].sort_order
      BY <1>2, <1>3, SavedRow
<1>5. /\ \A s \in ids : screens'[s].sort_order = screens[s].sort_order
      /\ Order' = Order
      BY <1>3, <1>4 DEF Order
<1>6. TypeOK'
  <2>1. DOMAIN screens' = ids /\ \A s \in ids : screens'[s] \in HmiScreen
        BY <1>2, <1>3, <1>4 DEF ids
  <2>2. screens' \in [ids -> HmiScreen]
        BY <1>1, <2>1
  <2> QED
      BY <1>1, <1>3, <2>2 DEF TypeOK
<1>7. StartScreenRule' /\ OrderIsTotal' /\ ProjectViewInv'
  <2>1. StartScreenRule'
        BY <1>1, <1>3 DEF StartScreenRule, ValidStart
  <2>2. OrderIsTotal'
        BY <1>3, <1>5 DEF OrderIsTotal
  <2>3. ProjectViewInv'
        BY <1>1, <1>5 DEF ProjectViewInv
  <2> QED
      BY <2>1, <2>2, <2>3
<1>8. ScreenViewInv'
      BY <1>1, <1>2, <1>3, <1>4 DEF ScreenViewInv, TypeOK, HmiScreen
<1> QED
    BY <1>6, <1>7, <1>8

LEMMA DeleteInv == ASSUME Inv, NEW id \in Screen, DeleteHmiScreen(id) PROVE Inv'
<1> USE DEF Inv
<1>1. /\ screens' = [s \in ids \ {id} |-> screens[s]]
      /\ start_screen = id => ids = {id}
      /\ start_screen' = IF start_screen = id THEN NoScreen ELSE start_screen
      /\ sview' = [sview EXCEPT !.same = sview.same /\ sview.id \notin {id}]
      /\ UNCHANGED <<pview, porder>>
      BY DEF DeleteHmiScreen, Forget
<1>2. ids' = ids \ {id} /\ \A s \in ids' : screens'[s] = screens[s]
      BY <1>1 DEF ids
<1>3. ProjectViewInv' /\ revision' \in Nat
      BY <1>1, BumpInv DEF DeleteHmiScreen
<1>4. /\ sview' \in [id: Screen \cup {NoScreen}, revision: Nat,
                      content: Content, same: BOOLEAN]
      /\ sview'.id = sview.id /\ sview'.revision = sview.revision
      /\ sview'.content = sview.content
      /\ sview'.same => sview.same /\ sview.id # id
      BY <1>1 DEF TypeOK
<1>5. TypeOK'
      BY <1>1, <1>2, <1>3, <1>4 DEF TypeOK
<1>6. StartScreenRule'
      BY <1>1, <1>2, HmiAssumption DEF StartScreenRule, ValidStart, DeleteHmiScreen
<1>7. OrderIsTotal' /\ ScreenViewInv'
      BY <1>2, <1>4 DEF OrderIsTotal, ScreenViewInv
<1> QED
    BY <1>3, <1>5, <1>6, <1>7

LEMMA UpdateProjectInv ==
    ASSUME Inv, NEW rev \in Revision, NEW start \in Screen \cup {NoScreen}, NEW order,
           UpdateHmiProject(rev, start, order)
    PROVE  Inv'
<1> USE DEF Inv
<1>1. /\ screens' = [s \in ids |-> [screens[s] EXCEPT !.sort_order = order[s]]]
      /\ start_screen' = start
      /\ UNCHANGED <<sview, pview, porder>>
      BY DEF UpdateHmiProject
<1>2. \A s \in ids : screens[s] \in HmiScreen
      BY DEF TypeOK
<1>3. /\ order \in [ids -> Nat]
      /\ \A s, t \in ids : order[s] = order[t] => s = t
  <2>1. CASE order = Order
        BY <1>2, <2>1 DEF Order, HmiScreen, OrderIsTotal
  <2>2. CASE Permutation(order)
        BY <2>2 DEF Permutation
  <2> QED
      BY <2>1, <2>2 DEF UpdateHmiProject
<1>4. /\ ids' = ids
      /\ \A s \in ids : /\ screens'[s] \in HmiScreen
                        /\ screens'[s].sort_order = order[s]
                        /\ screens'[s].revision = screens[s].revision
                        /\ screens'[s].content = screens[s].content
  <2>1. ids' = ids /\ \A s \in ids : screens'[s] = [screens[s] EXCEPT !.sort_order = order[s]]
        BY <1>1 DEF ids
  <2> SUFFICES ASSUME NEW s \in ids
               PROVE  /\ screens'[s] \in HmiScreen
                      /\ screens'[s].sort_order = order[s]
                      /\ screens'[s].revision = screens[s].revision
                      /\ screens'[s].content = screens[s].content
      BY <2>1
  <2>2. screens[s] \in HmiScreen /\ order[s] \in Nat
        BY <1>2, <1>3
  <2>3. screens'[s] = [screens[s] EXCEPT !.sort_order = order[s]]
        BY <2>1
  <2> HIDE DEF Inv
  <2> QED
      BY <2>2, <2>3, MovedRow
<1>5. ProjectViewInv' /\ revision' \in Nat
      BY <1>1, BumpInv DEF UpdateHmiProject
<1>6. TypeOK'
  <2>1. screens' \in [ids -> HmiScreen]
        BY <1>1, <1>4
  <2> QED
      BY <1>1, <1>4, <1>5, <2>1 DEF TypeOK
<1>7. StartScreenRule'
      BY <1>1, <1>4 DEF UpdateHmiProject, StartScreenRule, ValidStart
<1>8. OrderIsTotal' /\ ScreenViewInv'
  <2>1. OrderIsTotal'
        BY <1>3, <1>4 DEF OrderIsTotal
  <2>2. ScreenViewInv'
        BY <1>1, <1>4 DEF ScreenViewInv
  <2> QED
      BY <2>1, <2>2
<1> QED
    BY <1>5, <1>6, <1>7, <1>8

(* The views read before a restore or a reset are marked as such. *)
LEMMA ForgetAll ==
    ASSUME TypeOK, Forget(Screen), pview' = [pview EXCEPT !.same = FALSE]
    PROVE  /\ sview' \in [id: Screen \cup {NoScreen}, revision: Nat,
                          content: Content, same: BOOLEAN]
           /\ pview' \in [revision: Nat, start_screen: Screen \cup {NoScreen},
                          same: BOOLEAN]
           /\ ~pview'.same
           /\ sview'.same => sview'.id = NoScreen /\ sview.same /\ sview.id = sview'.id
  BY DEF TypeOK, Forget

LEMMA RestoreInv == ASSUME Inv, NEW file \in Backup, RestoreData(file) PROVE Inv'
<1> DEFINE S == FileIds(file)
<1>1. /\ file.screens \in Seq([id: Screen, revision: Nat, content: Content])
      /\ file.start_screen \in Screen \cup {NoScreen}
      /\ file.revision \in Nat
      BY BackupAssumption
<1> DEFINE q == file.screens
           T == [id: Screen, revision: Nat, content: Content]
<1>a. /\ \A n \in DOMAIN q : n \in Nat /\ n >= 1 /\ q[n] \in T
      /\ q # <<>> => 1 \in DOMAIN q
      /\ q = <<>> => DOMAIN q = {}
  <2> HIDE DEF q, T
  <2> QED
      BY <1>1, SeqElements DEF q, T
<1>2. S \subseteq Screen
      BY <1>a DEF FileIds
<1>3. \A s \in S : /\ RestoredScreen(file, s) \in HmiScreen
                   /\ RestoredScreen(file, s).sort_order + 1 \in DOMAIN file.screens
                   /\ file.screens[RestoredScreen(file, s).sort_order + 1].id = s
  <2> SUFFICES ASSUME NEW s \in S
               PROVE  /\ RestoredScreen(file, s) \in HmiScreen
                      /\ RestoredScreen(file, s).sort_order + 1 \in DOMAIN file.screens
                      /\ file.screens[RestoredScreen(file, s).sort_order + 1].id = s
      OBVIOUS
  <2> DEFINE n == CHOOSE n \in DOMAIN file.screens : file.screens[n].id = s
  <2>1. n \in DOMAIN file.screens /\ file.screens[n].id = s
        BY DEF FileIds
  <2>2. RestoredScreen(file, s) = [revision   |-> file.screens[n].revision,
                                   sort_order |-> n - 1,
                                   content    |-> file.screens[n].content]
        BY DEF RestoredScreen
  <2> HIDE DEF n
  <2>3. n \in Nat /\ n >= 1 /\ file.screens[n] \in [id: Screen, revision: Nat, content: Content]
        BY <1>a, <2>1
  <2> QED
      BY <2>1, <2>2, <2>3 DEF HmiScreen
<1>4. ids' = S /\ \A s \in S : screens'[s] = RestoredScreen(file, s)
      BY DEF RestoreData, ids
<1>5. UNCHANGED porder /\ start_screen' = RestoredStart(file) /\ revision' = file.revision
      BY DEF RestoreData
<1>6. /\ sview' \in [id: Screen \cup {NoScreen}, revision: Nat, content: Content, same: BOOLEAN]
      /\ pview' \in [revision: Nat, start_screen: Screen \cup {NoScreen}, same: BOOLEAN]
      /\ ~pview'.same
      /\ ~sview'.same
  <2>1. sview.same => sview.id \in Screen
        BY DEF Inv, ScreenViewInv, TypeOK
  <2> QED
      BY <2>1, ForgetAll, HmiAssumption DEF RestoreData, Inv
<1>7. S = {} <=> file.screens = <<>>
      BY <1>a DEF FileIds
<1>8. ValidStart(start_screen)'
  <2>1. CASE file.screens = <<>>
        BY <1>4, <1>5, <1>7, <2>1 DEF RestoredStart, ValidStart
  <2>2. CASE file.screens # <<>>
    <3>1. file.screens[1].id \in S /\ S # {}
          BY <1>a, <2>2 DEF FileIds
    <3> QED
        BY <1>4, <1>5, <2>2, <3>1 DEF RestoredStart, ValidStart
  <2> QED
      BY <2>1, <2>2
<1>9. start_screen' \in Screen \cup {NoScreen}
      BY <1>2, <1>4, <1>8 DEF ValidStart
<1>10. TypeOK'
  <2>1. screens' \in [S -> HmiScreen]
        BY <1>3 DEF RestoreData
  <2> QED
      BY <1>1, <1>2, <1>4, <1>5, <1>6, <1>9, <2>1 DEF TypeOK, Inv
<1>11. OrderIsTotal'
      BY <1>3, <1>4 DEF OrderIsTotal
<1> QED
    BY <1>6, <1>8, <1>10, <1>11 DEF Inv, StartScreenRule, ScreenViewInv, ProjectViewInv

LEMMA ResetInv == ASSUME Inv, FactoryReset PROVE Inv'
<1>1. ids' = {} /\ start_screen' = NoScreen /\ revision' = 0 /\ UNCHANGED porder
      BY DEF FactoryReset, ids
<1>2. /\ sview' \in [id: Screen \cup {NoScreen}, revision: Nat, content: Content, same: BOOLEAN]
      /\ pview' \in [revision: Nat, start_screen: Screen \cup {NoScreen}, same: BOOLEAN]
      /\ ~pview'.same
      /\ ~sview'.same
  <2>1. sview.same => sview.id \in Screen
        BY DEF Inv, ScreenViewInv, TypeOK
  <2> QED
      BY <2>1, ForgetAll, HmiAssumption DEF FactoryReset, Inv
<1>3. screens' \in [ids' -> HmiScreen]
      BY <1>1 DEF FactoryReset
<1> QED
    BY <1>1, <1>2, <1>3 DEF Inv, TypeOK, StartScreenRule, ValidStart, OrderIsTotal,
                            ScreenViewInv, ProjectViewInv

LEMMA StutterInv == Inv /\ UNCHANGED vars => Inv'
  BY DEF Inv, vars, TypeOK, ids, Order, StartScreenRule, ValidStart, OrderIsTotal,
         ScreenViewInv, ProjectViewInv

LEMMA NextInv == Inv /\ [Next]_vars => Inv'
<1> SUFFICES ASSUME Inv, [Next]_vars PROVE Inv'
    OBVIOUS
<1> QED
    BY LoadInv, InsertInv, UpdateInv, DeleteInv, UpdateProjectInv, RestoreInv, ResetInv,
       StutterInv DEF Next
-----------------------------------------------------------------------------
(* The inductive invariant holds in every reachable state. *)
THEOREM Invariant == Spec => []Inv
  BY InitInv, NextInv, PTL DEF Spec

(* The start screen is NULL exactly when there is no screen. *)
THEOREM StartScreenAlwaysValid == Spec => []StartScreenRule
<1>1. Inv => StartScreenRule
      BY DEF Inv
<1> QED
    BY <1>1, Invariant, PTL

(* No insertion, deletion, reordering or restore makes two screens tie. *)
THEOREM ScreenOrderIsTotal == Spec => []OrderIsTotal
<1>1. Inv => OrderIsTotal
      BY DEF Inv
<1> QED
    BY <1>1, Invariant, PTL

(* A save of a screen that lives on overwrites only what its author saw. *)
THEOREM NoLostScreenUpdate == Spec => []ScreenSaveIsSafe
<1>1. Inv => ScreenSaveIsSafe
      BY DEF Inv, ScreenViewInv, ScreenSaveIsSafe
<1> QED
    BY <1>1, Invariant, PTL

(* A save of the project overwrites only what its author saw. *)
THEOREM NoLostProjectUpdate == Spec => []ProjectSaveIsSafe
<1>1. Inv => ProjectSaveIsSafe
      BY DEF Inv, ProjectViewInv, ProjectSaveIsSafe
<1> QED
    BY <1>1, Invariant, PTL

-----------------------------------------------------------------------------
(* Devices, registers and tags: the tables, the list in memory, a backup. *)

(* The unique index on unified addresses, of the table and of a backup. *)
UniqueAddresses(regs) ==
    \A r, q \in DOMAIN regs :
        regs[r].unifiedAddress = regs[q].unifiedAddress /\ regs[r].unifiedAddress # NoAddr
            => r = q

(* The rows of a backup file fit together as those of the tables do. *)
BackupInv ==
    /\ backup.devices \subseteq DeviceId
    /\ backup.registers \in [DOMAIN backup.registers -> RegisterConfig]
    /\ DOMAIN backup.registers \subseteq RegisterId
    /\ \A r \in DOMAIN backup.registers : backup.registers[r].deviceId \in backup.devices
    /\ UniqueAddresses(backup.registers)
    /\ backup.tags \in [DOMAIN backup.tags -> {NoAddr} \cup (1 .. MaxUnified)]
    /\ DOMAIN backup.tags \subseteq Tag

(* Every device of the list has its two parts. *)
ListShape ==
    \A d \in DOMAIN list :
        list[d] = [pollMode |-> list[d].pollMode, registers |-> list[d].registers]

RegistryInv ==
    /\ RegistryTypeOK
    /\ UniqueAddresses(registers)
    /\ BackupInv
    /\ ListShape
    /\ ListMatchesDb
-----------------------------------------------------------------------------
LEMMA RegistryBounds ==
    /\ kManualUnifiedIdMin \in Nat /\ kManualUnifiedIdMin > 0
    /\ MaxUnified \in Nat /\ MaxUnified >= kManualUnifiedIdMin - 1
    /\ MaxDeviceId \in Nat /\ MaxRegisterId \in Nat /\ MaxRequests \in Nat
  BY RegistryAssumption

(* A set of natural numbers that is not empty has a least element. *)
LEMMA LeastNumber ==
    ASSUME NEW T \in SUBSET Nat, T # {}
    PROVE  \E x \in T : \A y \in T : x <= y
<1> DEFINE R == OpToRel(<, Nat)
<1>1. PICK x \in T : \A y \in T : ~ (<<y, x>> \in R)
  <2>1. IsWellFoundedOn(R, Nat)  BY NatLessThanWellFounded
  <2> HIDE DEF R
  <2>2. QED  BY <2>1, WFMin
<1>2. \A y \in T : ~ (y < x)  BY <1>1 DEF OpToRel
<1>3. QED  BY <1>2

(* The maximum of a bounded set of numbers. *)
LEMMA MaxOfBounded ==
    ASSUME NEW S \in SUBSET Nat, S # {}, NEW b \in Nat, \A x \in S : x <= b
    PROVE  Max(S) \in S /\ \A x \in S : x <= Max(S)
<1> DEFINE U == {u \in Nat : \A x \in S : x <= u}
<1>1. PICK u \in U : \A v \in U : u <= v
  <2>1. U \in SUBSET Nat /\ b \in U  OBVIOUS
  <2> HIDE DEF U
  <2>2. QED  BY <2>1, LeastNumber
<1>2. u \in S
  <2>1. SUFFICES ASSUME u \notin S PROVE FALSE  OBVIOUS
  <2>2. PICK s \in S : TRUE  OBVIOUS
  <2>3. s <= u /\ s # u  BY <1>1, <2>1, <2>2
  <2>4. u \in Nat /\ u - 1 \in Nat  BY <2>3, <1>1
  <2>5. \A x \in S : x <= u - 1  BY <1>1, <2>1, <2>4
  <2>6. u <= u - 1  BY <1>1, <2>4, <2>5
  <2>7. QED  BY <2>4, <2>6
<1>3. \A x \in S : u >= x  BY <1>1
<1>4. \E m \in S : \A x \in S : m >= x  BY <1>2, <1>3
<1>5. Max(S) \in S /\ \A x \in S : Max(S) >= x  BY <1>4 DEF Max
<1>6. QED  BY <1>5
-----------------------------------------------------------------------------
(* The automatic address is a new one unless the range is exhausted. *)
LEMMA NextUnifiedIsNew ==
    ASSUME RegistryTypeOK, ~Exhausted
    PROVE  NextUnified \in 1 .. MaxUnified /\ NextUnified \notin Used
<1> DEFINE S == {0} \cup {a \in Used : a < kManualUnifiedIdMin}
<1>1. Used \subseteq 1 .. MaxUnified
      BY RegistryBounds DEF Used, RegistryTypeOK, RegisterConfig, NoAddr
<1>2. S \in SUBSET Nat /\ S # {} /\ \A x \in S : x <= MaxUnified
  <2>1. \A x \in S : x \in Nat /\ x <= MaxUnified  BY <1>1, RegistryBounds
  <2>2. QED  BY <2>1
<1>3. Max(S) \in S /\ \A x \in S : x <= Max(S)
  <2> HIDE DEF S
  <2>1. QED  BY <1>2, MaxOfBounded, RegistryBounds
<1>4. Max(S) \in Nat  BY <1>2, <1>3
<1>5. NextUnified = Max(S) + 1  BY DEF NextUnified
<1>6. NextUnified < kManualUnifiedIdMin
      BY <1>4, <1>5, RegistryBounds DEF Exhausted
<1>7. NextUnified \in 1 .. MaxUnified
      BY <1>4, <1>5, <1>6, RegistryBounds
<1>8. NextUnified \notin Used
  <2>1. SUFFICES ASSUME NextUnified \in Used PROVE FALSE  OBVIOUS
  <2>2. NextUnified \in S  BY <2>1, <1>6
  <2>3. NextUnified <= Max(S)  BY <2>2, <1>3
  <2>4. QED  BY <2>3, <1>4, <1>5
<1>9. QED  BY <1>7, <1>8

(* AUTOINCREMENT numbers the rows of a file from the last id on, each      *)
(* differently.                                                            *)
LEMMA NewIds ==
    ASSUME NEW S \in SUBSET Nat, IsFiniteSet(S), NEW last \in Nat
    PROVE  /\ Cardinality(S) \in Nat
           /\ \A x \in S : NewId(last, S, x) \in (last + 1) .. (last + Cardinality(S))
           /\ \A x, y \in S : NewId(last, S, x) = NewId(last, S, y) => x = y
<1> DEFINE Upto(x) == {y \in S : y <= x}
<1>1. Cardinality(S) \in Nat  BY FS_CardinalityType
<1>2. \A x : IsFiniteSet(Upto(x)) /\ Cardinality(Upto(x)) <= Cardinality(S)
             /\ Cardinality(Upto(x)) \in Nat
  <2>1. TAKE x
  <2>2. Upto(x) \in SUBSET S  OBVIOUS
  <2> HIDE DEF Upto
  <2>3. QED  BY <2>2, FS_Subset, FS_CardinalityType
<1>3. ASSUME NEW x \in S PROVE NewId(last, S, x) \in (last + 1) .. (last + Cardinality(S))
  <2>1. x \in Upto(x)  BY x \in Nat
  <2>2. Cardinality(Upto(x)) # 0  BY <2>1, <1>2, FS_EmptySet
  <2>3. NewId(last, S, x) = last + Cardinality(Upto(x))  BY DEF NewId
  <2> HIDE DEF Upto
  <2>4. QED  BY <2>2, <2>3, <1>1, <1>2
<1>4. ASSUME NEW x \in S, NEW y \in S, x < y PROVE NewId(last, S, x) < NewId(last, S, y)
  <2>1. Upto(x) \in SUBSET Upto(y) /\ y \in Upto(y) /\ y \notin Upto(x)
    <3>1. \A z \in S : z <= x => z <= y  BY <1>4, S \subseteq Nat
    <3>2. y <= y /\ ~(y <= x)  BY <1>4, S \subseteq Nat
    <3>3. QED  BY <3>1, <3>2
  <2>2. NewId(last, S, x) = last + Cardinality(Upto(x))  BY DEF NewId
  <2>3. NewId(last, S, y) = last + Cardinality(Upto(y))  BY DEF NewId
  <2> HIDE DEF Upto
  <2>4. /\ Cardinality(Upto(x)) <= Cardinality(Upto(y))
        /\ Cardinality(Upto(y)) = Cardinality(Upto(x)) => Upto(y) = Upto(x)
        BY <2>1, <1>2, FS_Subset
  <2>5. QED  BY <2>1, <2>2, <2>3, <2>4, <1>2
<1>5. ASSUME NEW x \in S, NEW y \in S, NewId(last, S, x) = NewId(last, S, y) PROVE x = y
  <2>1. NewId(last, S, x) \in Nat /\ NewId(last, S, y) \in Nat  BY <1>3, <1>1
  <2>2. ~(x < y) /\ ~(y < x)  BY <1>4, <1>5, <2>1
  <2>3. QED  BY <2>2, x \in Nat, y \in Nat
<1>6. QED  BY <1>1, <1>3, <1>5

LEMMA FiniteIds ==
    ASSUME NEW n \in Nat, NEW S \in SUBSET (1 .. n)
    PROVE  S \in SUBSET Nat /\ IsFiniteSet(S)
<1>1. IsFiniteSet(1 .. n)  BY FS_Interval
<1>2. IsFiniteSet(S)  BY <1>1, FS_Subset
<1>3. QED  BY <1>2

(* The register a row of the file becomes. *)
Moved(c) == [c EXCEPT !.deviceId = NewId(lastDevice, backup.devices, @)]

(* restoreData() inserts each row of the file once, for the new id of its  *)
(* device.                                                                 *)
LEMMA NewRegistersRows ==
    ASSUME NEW regs, DOMAIN regs \in SUBSET Nat, IsFiniteSet(DOMAIN regs), lastRegister \in Nat
    PROVE  LET id(x) == NewId(lastRegister, DOMAIN regs, x)
           IN  /\ DOMAIN NewRegisters(regs) = {id(x) : x \in DOMAIN regs}
               /\ \A x \in DOMAIN regs : NewRegisters(regs)[id(x)] = Moved(regs[x])
               /\ NewRegisters(regs) = [n \in DOMAIN NewRegisters(regs) |-> NewRegisters(regs)[n]]
<1> DEFINE S == DOMAIN regs
           id(x) == NewId(lastRegister, S, x)
           from(n) == CHOOSE x \in S : id(x) = n
<1>1. NewRegisters(regs) = [n \in {id(x) : x \in S} |-> Moved(regs[from(n)])]
      BY DEF NewRegisters, Restored, Moved
<1>2. \A x, y \in S : id(x) = id(y) => x = y
      BY NewIds
<1>3. ASSUME NEW x \in S PROVE from(id(x)) = x
  <2> HIDE DEF id
  <2>1. QED  BY <1>2
<1> HIDE DEF id, from
<1>4. DOMAIN NewRegisters(regs) = {id(x) : x \in S}
      BY <1>1
<1>5. ASSUME NEW x \in S PROVE NewRegisters(regs)[id(x)] = Moved(regs[x])
  <2>1. NewRegisters(regs)[id(x)] = Moved(regs[from(id(x))])  BY <1>1
  <2>2. QED  BY <2>1, <1>3
<1>6. NewRegisters(regs) = [n \in DOMAIN NewRegisters(regs) |-> NewRegisters(regs)[n]]
      BY <1>1
<1>7. QED  BY <1>4, <1>5, <1>6 DEF id

(* Tags by address find a register with that address, if there is one. *)
LEMMA LinkedTags ==
    ASSUME NEW tags, NEW regs
    PROVE  LET l == Linked(tags, regs)
           IN  /\ \A t : t \in DOMAIN l <=> /\ t \in DOMAIN tags /\ tags[t] >= 0
                                           /\ \E r \in DOMAIN regs : regs[r].unifiedAddress = tags[t]
               /\ \A t \in DOMAIN l : /\ l[t] \in DOMAIN regs
                                      /\ regs[l[t]].unifiedAddress = tags[t]
               /\ l \in [DOMAIN l -> DOMAIN regs]
  BY DEF Linked
-----------------------------------------------------------------------------
LEMMA RegistryInitOk == RegistryInit => RegistryInv
<1> SUFFICES ASSUME RegistryInit PROVE RegistryInv  OBVIOUS
<1>1. DOMAIN Empty = {} /\ \A S : Empty \in [{} -> S]  BY DEF Empty
<1>2. RegistryTypeOK
  <2>1. /\ devices = Empty /\ registers = Empty /\ hmi_tags = Empty
        /\ lastDevice = 0 /\ lastRegister = 0 /\ requests = 0
        /\ up \in BOOLEAN /\ restartRequired \in BOOLEAN /\ staged \in BOOLEAN
        /\ unsynced \in BOOLEAN
        BY DEF RegistryInit
  <2>2. \A S : Empty \in [DOMAIN Empty -> S]  BY <1>1
  <2>3. 0 \in 0 .. MaxDeviceId /\ 0 \in 0 .. MaxRegisterId /\ 0 \in 0 .. MaxRequests
        BY RegistryBounds
  <2>4. QED  BY <2>1, <2>2, <2>3, <1>1 DEF RegistryTypeOK
<1>3. UniqueAddresses(registers)
      BY <1>1 DEF RegistryInit, UniqueAddresses
<1>4. BackupInv
      BY <1>1 DEF RegistryInit, NoBackup, BackupInv, UniqueAddresses
<1>5. ListShape
      BY <1>1 DEF RegistryInit, ListShape
<1>6. ListMatchesDb
      BY <1>1 DEF RegistryInit, ListMatchesDb
<1>7. QED  BY <1>2, <1>3, <1>4, <1>5, <1>6 DEF RegistryInv
-----------------------------------------------------------------------------
(* One device of the list against its rows. *)
RowsOf(regs, d) == {r \in DOMAIN regs : regs[r].deviceId = d}
Row(regs, r)    == [unifiedAddress |-> regs[r].unifiedAddress, point |-> regs[r].point]

DeviceMatches(entry, mode, regs, d) ==
    /\ entry.pollMode = mode
    /\ DOMAIN entry.registers \subseteq RowsOf(regs, d)
    /\ \A r \in RowsOf(regs, d) :
          IF r \in DOMAIN entry.registers THEN entry.registers[r] = Row(regs, r)
          ELSE regs[r].unifiedAddress = NoAddr

Matches(l, devs, regs) ==
    /\ DOMAIN l = DOMAIN devs
    /\ \A d \in DOMAIN devs : DeviceMatches(l[d], devs[d], regs, d)

LEMMA LoadedRegisters ==
    ASSUME NEW regs, NEW d
    PROVE  /\ DOMAIN loadRegisters(regs, d) = RowsOf(regs, d)
           /\ \A r \in RowsOf(regs, d) : loadRegisters(regs, d)[r] = Row(regs, r)
  BY DEF loadRegisters, RowsOf, Row

(* The list is as the handlers that succeeded have left it. *)
Fresh == ~restartRequired /\ ~unsynced

LEMMA ListMatchesDbMeans ==
    ListMatchesDb <=> (up /\ Fresh => Matches(list, devices, registers))
<1>1. ASSUME NEW d
      PROVE  DeviceMatches(list[d], devices[d], registers, d)
               <=> LET mine == loadRegisters(registers, d) IN
                   /\ list[d].pollMode = devices[d]
                   /\ \A r \in DOMAIN mine :
                         IF r \in DOMAIN list[d].registers THEN list[d].registers[r] = mine[r]
                         ELSE mine[r].unifiedAddress = NoAddr
                   /\ DOMAIN list[d].registers \subseteq DOMAIN mine
  <2>1. \A r : Row(registers, r).unifiedAddress = registers[r].unifiedAddress  BY DEF Row
  <2>2. QED  BY <2>1, LoadedRegisters DEF DeviceMatches
<1>2. QED  BY <1>1 DEF ListMatchesDb, Matches, Fresh

(* A device read from the database matches it. *)
LEMMA LoadedMatches ==
    ASSUME NEW devs, NEW regs
    PROVE  Matches(loadDevices(devs, regs), devs, regs)
<1>1. DOMAIN loadDevices(devs, regs) = DOMAIN devs  BY DEF loadDevices
<1>2. ASSUME NEW d \in DOMAIN devs
      PROVE  DeviceMatches(loadDevices(devs, regs)[d], devs[d], regs, d)
  <2>1. /\ loadDevices(devs, regs)[d].pollMode = devs[d]
        /\ loadDevices(devs, regs)[d].registers = loadRegisters(regs, d)
        BY DEF loadDevices
  <2>2. QED  BY <2>1, LoadedRegisters DEF DeviceMatches
<1>3. QED  BY <1>1, <1>2 DEF Matches

(* A device whose rows a step leaves alone still matches. *)
LEMMA SameRowsMatch ==
    ASSUME NEW entry, NEW mode, NEW regs, NEW regs2, NEW d,
           DeviceMatches(entry, mode, regs, d),
           RowsOf(regs2, d) = RowsOf(regs, d),
           \A r \in RowsOf(regs, d) : regs2[r] = regs[r]
    PROVE  DeviceMatches(entry, mode, regs2, d)
  BY DEF DeviceMatches, Row

(* One whose registers are loaded again matches, if its mode does. *)
LEMMA ReloadedMatch ==
    ASSUME NEW entry, NEW mode, NEW regs, NEW d,
           entry.pollMode = mode, entry.registers = loadRegisters(regs, d)
    PROVE  DeviceMatches(entry, mode, regs, d)
  BY LoadedRegisters DEF DeviceMatches

(* The list after the registers of d have been loaded again. *)
LoadedAgain(d) == Reloaded(d, TRUE)

LEMMA ReloadedList ==
    ASSUME ListShape, NEW d \in DOMAIN list, list' = LoadedAgain(d)
    PROVE  /\ DOMAIN list' = DOMAIN list
           /\ list'[d] = [pollMode |-> list[d].pollMode, registers |-> loadRegisters(registers', d)]
           /\ \A e \in DOMAIN list \ {d} : list'[e] = list[e]
           /\ ListShape'
<1>1. /\ DOMAIN list' = DOMAIN list
      /\ \A e \in DOMAIN list \ {d} : list'[e] = list[e]
      /\ list'[d] = [list[d] EXCEPT !.registers = loadRegisters(registers', d)]
      BY DEF LoadedAgain, Reloaded
<1>2. list[d] = [pollMode |-> list[d].pollMode, registers |-> list[d].registers]
      BY DEF ListShape
<1>3. list'[d] = [pollMode |-> list[d].pollMode, registers |-> loadRegisters(registers', d)]
  <2> DEFINE p == list[d].pollMode
             q == list[d].registers
             l == loadRegisters(registers', d)
  <2>1. list[d] = [pollMode |-> p, registers |-> q]  BY <1>2
  <2> HIDE DEF p, q, l
  <2>2. [[pollMode |-> p, registers |-> q] EXCEPT !.registers = l]
            = [pollMode |-> p, registers |-> l]
        OBVIOUS
  <2>3. list'[d] = [list[d] EXCEPT !.registers = l]  BY <1>1 DEF l
  <2>4. list'[d] = [pollMode |-> p, registers |-> l]  BY <2>1, <2>2, <2>3
  <2>5. QED  BY <2>4 DEF p, l
<1>4. \A e \in DOMAIN list' : list'[e] = [pollMode |-> list'[e].pollMode, registers |-> list'[e].registers]
  <2>1. TAKE e \in DOMAIN list'
  <2>2. CASE e = d  BY <2>2, <1>3
  <2>3. CASE e # d  BY <2>3, <1>1 DEF ListShape
  <2>4. QED  BY <2>2, <2>3
<1>5. QED  BY <1>1, <1>3, <1>4 DEF ListShape
-----------------------------------------------------------------------------
(* What RegistryTypeOK says of the tables, and of the rest. *)
TablesOk ==
    /\ devices \in [DOMAIN devices -> PollMode] /\ DOMAIN devices \subseteq 1 .. lastDevice
    /\ registers \in [DOMAIN registers -> RegisterConfig]
    /\ DOMAIN registers \subseteq 1 .. lastRegister
    /\ \A r \in DOMAIN registers : registers[r].deviceId \in DOMAIN devices
    /\ DOMAIN hmi_tags \subseteq Tag
    /\ hmi_tags \in [DOMAIN hmi_tags -> DOMAIN registers]
    /\ lastDevice \in 0 .. MaxDeviceId /\ lastRegister \in 0 .. MaxRegisterId

FlagsOk ==
    /\ up \in BOOLEAN /\ restartRequired \in BOOLEAN /\ staged \in BOOLEAN
    /\ unsynced \in BOOLEAN
    /\ requests \in 0 .. MaxRequests

LEMMA TypeParts == RegistryTypeOK <=> TablesOk /\ FlagsOk
  BY DEF RegistryTypeOK, TablesOk, FlagsOk

LEMMA InvParts ==
    ASSUME RegistryInv
    PROVE  TablesOk /\ FlagsOk /\ UniqueAddresses(registers) /\ BackupInv /\ ListShape
           /\ (up /\ Fresh => Matches(list, devices, registers))
  BY TypeParts, ListMatchesDbMeans DEF RegistryInv

LEMMA InvFromParts ==
    ASSUME TablesOk', FlagsOk', UniqueAddresses(registers)', BackupInv', ListShape',
           (up /\ Fresh => Matches(list, devices, registers))'
    PROVE  RegistryInv'
<1>1. RegistryTypeOK'  BY DEF RegistryTypeOK, TablesOk, FlagsOk
<1>2. ListMatchesDb' <=> (up /\ Fresh => Matches(list, devices, registers))'
      BY ListMatchesDbMeans, PTL
<1>3. QED  BY <1>1, <1>2 DEF RegistryInv

(* What all handlers leave alone. *)
LEMMA HandlerFrame ==
    ASSUME RegistryInv, Handler, up' \in BOOLEAN, unsynced' \in BOOLEAN
    PROVE  BackupInv' /\ FlagsOk' /\ restartRequired' = restartRequired /\ up
<1>1. BackupInv'  BY DEF RegistryInv, Handler, BackupInv, UniqueAddresses
<1>2. requests' \in 0 .. MaxRequests
      BY InvParts, RegistryBounds DEF Handler, FlagsOk
<1>3. restartRequired' \in BOOLEAN /\ staged' \in BOOLEAN
      BY InvParts DEF Handler, FlagsOk
<1>4. QED  BY <1>1, <1>2, <1>3 DEF Handler, FlagsOk

(* A handler that has loaded nothing is not excused by an older error. *)
LEMMA SyncedMeans ==
    ASSUME RegistryInv, NEW loaded \in BOOLEAN, Synced(loaded)
    PROVE  unsynced' \in BOOLEAN /\ (~unsynced' => ~unsynced /\ loaded)
<1>1. unsynced \in BOOLEAN  BY InvParts DEF FlagsOk
<1>2. QED  BY <1>1 DEF Synced

LEMMA PlusRow ==
    ASSUME NEW f, NEW x, NEW v
    PROVE  /\ DOMAIN Plus(f, x, v) = DOMAIN f \cup {x}
           /\ Plus(f, x, v)[x] = v
           /\ \A y \in DOMAIN f \ {x} : Plus(f, x, v)[y] = f[y]
           /\ \A S, T : f \in [S -> T] /\ v \in T => Plus(f, x, v) \in [S \cup {x} -> T]
<1>1. /\ DOMAIN Plus(f, x, v) = DOMAIN f \cup {x}
      /\ Plus(f, x, v)[x] = v
      /\ \A y \in DOMAIN f \ {x} : Plus(f, x, v)[y] = f[y]
      BY DEF Plus
<1>2. ASSUME NEW S, NEW T, f \in [S -> T], v \in T
      PROVE  Plus(f, x, v) \in [S \cup {x} -> T]
      BY <1>2 DEF Plus
<1>3. QED  BY <1>1, <1>2

LEMMA PostDeviceOk ==
    ASSUME RegistryInv, NEW mode \in PollMode, NEW loaded \in BOOLEAN,
           PostDevice(mode, loaded)
    PROVE  RegistryInv'
<1> USE DEF PostDevice
<1>1. BackupInv' /\ FlagsOk' /\ restartRequired' = restartRequired
      BY HandlerFrame, InvParts DEF FlagsOk
<1>2. TablesOk'
  <2>1. lastDevice' \in 0 .. MaxDeviceId /\ lastDevice \in Nat /\ lastDevice' = lastDevice + 1
        BY InvParts, RegistryBounds DEF TablesOk
  <2>2. /\ devices' \in [DOMAIN devices \cup {lastDevice + 1} -> PollMode]
        /\ DOMAIN devices' = DOMAIN devices \cup {lastDevice + 1}
        BY InvParts, PlusRow DEF TablesOk
  <2>3. DOMAIN devices \subseteq 1 .. lastDevice  BY InvParts DEF TablesOk
  <2>4. DOMAIN devices' \subseteq 1 .. lastDevice'
        BY <2>1, <2>2, <2>3
  <2>5. QED  BY <2>1, <2>2, <2>4, InvParts DEF TablesOk
<1>3. UniqueAddresses(registers)'  BY InvParts DEF UniqueAddresses
<1>4. CASE loaded
  <2>1. list' = loadDevices(devices', registers')  BY <1>4
  <2>2. ListShape'  BY <2>1 DEF ListShape, loadDevices
  <2>3. Matches(loadDevices(devices', registers'), devices', registers')  BY LoadedMatches
  <2>4. Matches(list, devices, registers)'  BY <2>1, <2>3
  <2>5. QED  BY <1>1, <1>2, <1>3, <2>2, <2>4, InvFromParts
<1>5. CASE ~loaded
  <2>1. ListShape'  BY <1>5, InvParts DEF ListShape
  <2>2. ~Fresh'  BY <1>5 DEF Fresh
  <2>3. QED  BY <1>1, <1>2, <1>3, <2>1, <2>2, InvFromParts
<1>6. QED  BY <1>4, <1>5

LEMMA PutDeviceOk ==
    ASSUME RegistryInv, NEW d \in DeviceId, NEW mode \in PollMode, PutDevice(d, mode)
    PROVE  RegistryInv'
<1> USE DEF PutDevice
<1>1. BackupInv' /\ FlagsOk' /\ restartRequired' = restartRequired /\ up
      BY HandlerFrame, InvParts DEF FlagsOk
<1>2. devices' \in [DOMAIN devices -> PollMode]
      BY InvParts DEF TablesOk
<1>3. TablesOk'  BY <1>2, InvParts DEF TablesOk
<1>4. UniqueAddresses(registers)'  BY InvParts DEF UniqueAddresses
<1>5. /\ DOMAIN list' = DOMAIN list
      /\ \A e \in DOMAIN list \ {d} : list'[e] = list[e]
      /\ list'[d] = [list[d] EXCEPT !.pollMode = mode]
      OBVIOUS
<1>6. list'[d] = [pollMode |-> mode, registers |-> list[d].registers]
  <2> DEFINE p == list[d].pollMode
             q == list[d].registers
  <2>1. list[d] = [pollMode |-> p, registers |-> q]  BY InvParts DEF ListShape
  <2> HIDE DEF p, q
  <2>2. [[pollMode |-> p, registers |-> q] EXCEPT !.pollMode = mode]
            = [pollMode |-> mode, registers |-> q]
        OBVIOUS
  <2>3. list'[d] = [pollMode |-> mode, registers |-> q]  BY <2>1, <2>2, <1>5
  <2>4. QED  BY <2>3 DEF q
<1>7. ListShape'
  <2>1. SUFFICES ASSUME NEW e \in DOMAIN list'
                 PROVE  list'[e] = [pollMode |-> list'[e].pollMode,
                                    registers |-> list'[e].registers]
        BY DEF ListShape
  <2>2. CASE e = d  BY <2>2, <1>6
  <2>3. CASE e # d  BY <2>3, <1>5, InvParts DEF ListShape
  <2>4. QED  BY <2>2, <2>3
<1>8. ASSUME Fresh' PROVE Matches(list', devices', registers')
  <2>1. Matches(list, devices, registers)  BY <1>1, <1>8, InvParts DEF Fresh
  <2>2. DOMAIN list' = DOMAIN devices'  BY <1>2, <1>5, <2>1 DEF Matches
  <2>3. ASSUME NEW e \in DOMAIN devices
        PROVE  DeviceMatches(list'[e], devices'[e], registers', e)
    <3>1. DeviceMatches(list[e], devices[e], registers, e)  BY <2>1 DEF Matches
    <3>2. CASE e = d
      <4>1. devices'[d] = mode  BY <3>2, InvParts DEF TablesOk
      <4>2. QED  BY <3>1, <3>2, <4>1, <1>6 DEF DeviceMatches
    <3>3. CASE e # d
      <4>1. devices'[e] = devices[e] /\ list'[e] = list[e]
            BY <3>3, <1>5, <2>1 DEF Matches
      <4>2. QED  BY <3>1, <4>1
    <3>4. QED  BY <3>2, <3>3
  <2>4. QED  BY <2>2, <2>3, <1>2 DEF Matches
<1>9. QED  BY <1>1, <1>3, <1>4, <1>7, <1>8, InvFromParts

(* ON DELETE CASCADE keeps the rows that are left consistent. *)
LEMMA CascadeOk ==
    ASSUME TablesOk, UniqueAddresses(registers),
           NEW S \in SUBSET DOMAIN registers,
           CascadeRegisters([r \in S |-> registers[r]]),
           DOMAIN devices' \subseteq DOMAIN devices, devices' \in [DOMAIN devices' -> PollMode],
           \A r \in S : registers[r].deviceId \in DOMAIN devices',
           UNCHANGED <<lastDevice, lastRegister>>
    PROVE  TablesOk' /\ UniqueAddresses(registers)'
<1>1. registers' = [r \in S |-> registers[r]] /\ DOMAIN registers' = S
      BY DEF CascadeRegisters
<1>2. registers' \in [DOMAIN registers' -> RegisterConfig]  BY <1>1 DEF TablesOk
<1>3. \A r \in DOMAIN registers' : registers'[r].deviceId \in DOMAIN devices'  BY <1>1
<1>4. hmi_tags' \in [DOMAIN hmi_tags' -> DOMAIN registers'] /\ DOMAIN hmi_tags' \subseteq Tag
      BY <1>1 DEF CascadeRegisters, TablesOk
<1>5. DOMAIN registers' \subseteq 1 .. lastRegister' /\ DOMAIN devices' \subseteq 1 .. lastDevice'
      BY <1>1 DEF TablesOk
<1>6. TablesOk'  BY <1>2, <1>3, <1>4, <1>5 DEF TablesOk
<1>7. UniqueAddresses(registers)'  BY <1>1 DEF UniqueAddresses
<1>8. QED  BY <1>6, <1>7

LEMMA DeleteDeviceOk ==
    ASSUME RegistryInv, NEW d \in DeviceId, DeleteDevice(d)
    PROVE  RegistryInv'
<1> DEFINE S == {q \in DOMAIN registers : registers[q].deviceId # d}
<1>1. /\ Handler /\ devices' = Without(devices, {d})
      /\ CascadeRegisters([r \in S |-> registers[r]])
      /\ up' = (d \in DOMAIN list) /\ list' = Without(list, {d})
      /\ UNCHANGED <<lastDevice, lastRegister, unsynced>>
      BY DEF DeleteDevice
<1>2. BackupInv' /\ FlagsOk' /\ restartRequired' = restartRequired /\ up
  <2>1. up' \in BOOLEAN /\ unsynced' \in BOOLEAN  BY <1>1, InvParts DEF FlagsOk
  <2>2. QED  BY <1>1, <2>1, HandlerFrame
<1>3. /\ DOMAIN devices' = DOMAIN devices \ {d}
      /\ \A e \in DOMAIN devices' : devices'[e] = devices[e]
      /\ devices' \in [DOMAIN devices' -> PollMode]
      BY <1>1, InvParts DEF Without, TablesOk
<1>4. TablesOk' /\ UniqueAddresses(registers)'
  <2>1. \A r \in S : registers[r].deviceId \in DOMAIN devices'
        BY <1>3, InvParts DEF TablesOk
  <2>2. S \in SUBSET DOMAIN registers  OBVIOUS
  <2> HIDE DEF S
  <2>3. QED  BY <1>1, <1>3, <2>1, <2>2, InvParts, CascadeOk
<1>5. /\ DOMAIN list' = DOMAIN list \ {d}
      /\ \A e \in DOMAIN list' : list'[e] = list[e]
      BY <1>1 DEF Without
<1>6. ListShape'  BY <1>5, InvParts DEF ListShape
<1>7. ASSUME Fresh' PROVE Matches(list', devices', registers')
  <2>1. Matches(list, devices, registers)  BY <1>1, <1>2, <1>7, InvParts DEF Fresh
  <2>2. DOMAIN list' = DOMAIN devices'  BY <1>3, <1>5, <2>1 DEF Matches
  <2>3. registers' = [r \in S |-> registers[r]]  BY <1>1 DEF CascadeRegisters
  <2>4. ASSUME NEW e \in DOMAIN devices'
        PROVE  DeviceMatches(list'[e], devices'[e], registers', e)
    <3>1. DeviceMatches(list[e], devices[e], registers, e) /\ e # d
          BY <2>1, <1>3 DEF Matches
    <3>2. RowsOf(registers', e) = RowsOf(registers, e)
          BY <2>3, <3>1 DEF RowsOf
    <3>3. \A r \in RowsOf(registers, e) : registers'[r] = registers[r]
          BY <2>3, <3>1 DEF RowsOf
    <3>4. DeviceMatches(list[e], devices[e], registers', e)
          BY <3>1, <3>2, <3>3, SameRowsMatch
    <3>5. QED  BY <3>4, <2>2, <1>3, <1>5
  <2>5. QED  BY <2>2, <2>4 DEF Matches
<1>8. QED  BY <1>2, <1>4, <1>6, <1>7, InvFromParts
-----------------------------------------------------------------------------
(* A row inserted with an address that is free, or without one. *)
LEMMA InsertOk ==
    ASSUME RegistryInv, NEW d, NEW addr, NEW p \in Point, d \in DOMAIN devices,
           lastRegister < MaxRegisterId, lastRegister' = lastRegister + 1,
           addr \in {NoAddr} \cup (1 .. MaxUnified), addr \notin Used,
           registers' = Inserted(d, addr, p), UNCHANGED <<devices, hmi_tags, lastDevice>>
    PROVE  /\ TablesOk' /\ UniqueAddresses(registers)'
           /\ lastRegister + 1 \notin DOMAIN registers
           /\ DOMAIN registers' = DOMAIN registers \cup {lastRegister + 1}
           /\ registers'[lastRegister + 1] = [deviceId |-> d, unifiedAddress |-> addr, point |-> p]
           /\ \A r \in DOMAIN registers : registers'[r] = registers[r]
<1> DEFINE n == lastRegister + 1
           new == [deviceId |-> d, unifiedAddress |-> addr, point |-> p]
<1>1. lastRegister \in Nat /\ n \in 1 .. MaxRegisterId /\ lastRegister' \in 0 .. MaxRegisterId
      BY InvParts, RegistryBounds DEF TablesOk
<1>2. d \in DeviceId
      BY InvParts, RegistryBounds DEF TablesOk, DeviceId
<1>3. new \in RegisterConfig  BY <1>2 DEF RegisterConfig
<1>4. DOMAIN registers \subseteq 1 .. lastRegister  BY InvParts DEF TablesOk
<1>5. n \notin DOMAIN registers  BY <1>1, <1>4
<1>6. registers' = Plus(registers, n, new)  BY DEF Inserted
<1>7. new.deviceId = d /\ new.unifiedAddress = addr  OBVIOUS
<1> HIDE DEF n, new
<1>8. /\ DOMAIN registers' = DOMAIN registers \cup {n}
      /\ registers'[n] = new
      /\ \A r \in DOMAIN registers : registers'[r] = registers[r]
  <2>1. /\ DOMAIN Plus(registers, n, new) = DOMAIN registers \cup {n}
        /\ Plus(registers, n, new)[n] = new
        /\ \A r \in DOMAIN registers \ {n} : Plus(registers, n, new)[r] = registers[r]
        BY DEF Plus
  <2>2. QED  BY <1>5, <1>6, <2>1
<1>9. registers' \in [DOMAIN registers' -> RegisterConfig]
  <2>1. registers \in [DOMAIN registers -> RegisterConfig]  BY InvParts DEF TablesOk
  <2>2. Plus(registers, n, new) \in [DOMAIN registers \cup {n} -> RegisterConfig]
        BY <1>3, <2>1, PlusRow
  <2>3. QED  BY <1>6, <1>8, <2>2
<1>10. DOMAIN registers' \subseteq 1 .. lastRegister'
       BY <1>1, <1>4, <1>8 DEF n
<1>11. \A r \in DOMAIN registers' : registers'[r].deviceId \in DOMAIN devices'
       BY <1>7, <1>8, InvParts DEF TablesOk
<1>12. hmi_tags' \in [DOMAIN hmi_tags' -> DOMAIN registers']
       BY <1>8, InvParts DEF TablesOk
<1>13. TablesOk'
       BY <1>1, <1>9, <1>10, <1>11, <1>12, InvParts DEF TablesOk
<1>14. UniqueAddresses(registers)'
  <2>1. SUFFICES ASSUME NEW r \in DOMAIN registers', NEW q \in DOMAIN registers',
                        registers'[r].unifiedAddress = registers'[q].unifiedAddress,
                        registers'[r].unifiedAddress # NoAddr
                 PROVE  r = q
        BY DEF UniqueAddresses
  <2>2. \A x \in DOMAIN registers : registers[x].unifiedAddress # NoAddr
            => registers[x].unifiedAddress \in Used
        BY DEF Used
  <2>3. CASE r \in DOMAIN registers /\ q \in DOMAIN registers
        BY <2>1, <2>3, <1>8, InvParts DEF UniqueAddresses
  <2>4. CASE r = n \/ q = n
        BY <2>1, <2>2, <2>4, <1>7, <1>8
  <2>5. QED  BY <2>3, <2>4, <1>8
<1>15. QED  BY <1>5, <1>8, <1>13, <1>14 DEF n, new

LEMMA PostRegisterOk ==
    ASSUME RegistryInv, NEW d \in DeviceId, NEW addr \in {NoAddr} \cup Manual, NEW p \in Point,
           NEW loaded \in BOOLEAN, PostRegister(d, addr, p, loaded)
    PROVE  RegistryInv'
<1> DEFINE a == IF addr = NoAddr THEN NextUnified ELSE addr
           n == lastRegister + 1
<1>1. /\ Handler /\ d \in DOMAIN devices /\ addr \notin Used
      /\ lastRegister < MaxRegisterId /\ lastRegister' = lastRegister + 1
      /\ addr = NoAddr => ~Exhausted
      /\ registers' = Inserted(d, a, p)
      /\ up' = (~loaded \/ d \in DOMAIN list)
      /\ list' = (IF d \in DOMAIN list THEN Reloaded(d, loaded) ELSE list)
      /\ Synced(loaded)
      /\ UNCHANGED <<devices, hmi_tags, lastDevice>>
      BY DEF PostRegister, CanInsert
<1>2. BackupInv' /\ FlagsOk' /\ restartRequired' = restartRequired /\ up
  <2>1. up' \in BOOLEAN /\ unsynced' \in BOOLEAN  BY <1>1, SyncedMeans
  <2>2. QED  BY <1>1, <2>1, HandlerFrame
<1>3. a \in 1 .. MaxUnified /\ a \notin Used
  <2>1. CASE addr = NoAddr  BY <1>1, <2>1, NextUnifiedIsNew DEF RegistryInv
  <2>2. CASE addr # NoAddr  BY <1>1, <2>2, RegistryBounds DEF Manual
  <2>3. QED  BY <2>1, <2>2
<1> HIDE DEF a
<1>4. /\ TablesOk' /\ UniqueAddresses(registers)' /\ n \notin DOMAIN registers
      /\ DOMAIN registers' = DOMAIN registers \cup {n}
      /\ registers'[n] = [deviceId |-> d, unifiedAddress |-> a, point |-> p]
      /\ \A r \in DOMAIN registers : registers'[r] = registers[r]
      BY <1>1, <1>3, InsertOk
<1> HIDE DEF n
<1>5. CASE d \notin DOMAIN list \/ ~loaded
  <2>1. ListShape'  BY <1>1, <1>5, InvParts DEF ListShape, Reloaded
  <2>2. ~up' \/ ~Fresh'  BY <1>1, <1>5, SyncedMeans DEF Fresh
  <2>3. QED  BY <1>2, <1>4, <2>1, <2>2, InvFromParts
<1>6. CASE d \in DOMAIN list /\ loaded
  <2>0. list' = LoadedAgain(d)  BY <1>1, <1>6 DEF LoadedAgain, Reloaded
  <2>1. /\ DOMAIN list' = DOMAIN list
        /\ list'[d] = [pollMode |-> list[d].pollMode, registers |-> loadRegisters(registers', d)]
        /\ \A e \in DOMAIN list \ {d} : list'[e] = list[e]
        /\ ListShape'
        BY <1>6, <2>0, InvParts, ReloadedList
  <2>2. ASSUME Fresh' PROVE Matches(list', devices', registers')
    <3>1. Matches(list, devices, registers)
          BY <1>1, <1>2, <2>2, InvParts, SyncedMeans DEF Fresh
    <3>2. DOMAIN list' = DOMAIN devices'  BY <1>1, <2>1, <3>1 DEF Matches
    <3>3. ASSUME NEW e \in DOMAIN devices'
          PROVE  DeviceMatches(list'[e], devices'[e], registers', e)
      <4>1. DeviceMatches(list[e], devices[e], registers, e)  BY <1>1, <3>1 DEF Matches
      <4>2. CASE e = d
        <5>1. list'[d].pollMode = devices'[d]  BY <1>1, <4>1, <4>2, <2>1 DEF DeviceMatches
        <5>2. list'[d].registers = loadRegisters(registers', d)  BY <2>1
        <5>3. QED  BY <4>2, <5>1, <5>2, ReloadedMatch
      <4>3. CASE e # d
        <5>1. RowsOf(registers', e) = RowsOf(registers, e)
              BY <4>3, <1>4 DEF RowsOf
        <5>2. \A r \in RowsOf(registers, e) : registers'[r] = registers[r]
              BY <1>4 DEF RowsOf
        <5>3. DeviceMatches(list[e], devices[e], registers', e)
              BY <4>1, <5>1, <5>2, SameRowsMatch
        <5>4. QED  BY <5>3, <4>3, <1>1, <2>1, <3>2
      <4>4. QED  BY <4>2, <4>3
    <3>4. QED  BY <3>2, <3>3 DEF Matches
  <2>3. QED  BY <1>2, <1>4, <2>1, <2>2, InvFromParts
<1>7. QED  BY <1>5, <1>6

LEMMA PostRegisterFailsOk ==
    ASSUME RegistryInv, NEW d \in DeviceId, NEW p \in Point, PostRegisterFails(d, p)
    PROVE  RegistryInv'
<1> DEFINE n == lastRegister + 1
<1>1. /\ Handler /\ d \in DOMAIN devices /\ NoAddr \notin Used
      /\ lastRegister < MaxRegisterId /\ lastRegister' = lastRegister + 1
      /\ registers' = Inserted(d, NoAddr, p)
      /\ UNCHANGED <<devices, hmi_tags, lastDevice, list, up, unsynced>>
      BY DEF PostRegisterFails, CanInsert
<1>2. BackupInv' /\ FlagsOk' /\ restartRequired' = restartRequired /\ up
  <2>1. up' \in BOOLEAN /\ unsynced' \in BOOLEAN  BY <1>1, InvParts DEF FlagsOk
  <2>2. QED  BY <1>1, <2>1, HandlerFrame
<1>3. /\ TablesOk' /\ UniqueAddresses(registers)' /\ n \notin DOMAIN registers
      /\ DOMAIN registers' = DOMAIN registers \cup {n}
      /\ registers'[n] = [deviceId |-> d, unifiedAddress |-> NoAddr, point |-> p]
      /\ \A r \in DOMAIN registers : registers'[r] = registers[r]
      BY <1>1, InsertOk
<1> HIDE DEF n
<1>4. ListShape'  BY <1>1, InvParts DEF ListShape
<1>5. ASSUME Fresh' PROVE Matches(list', devices', registers')
  <2>1. Matches(list, devices, registers)  BY <1>1, <1>2, <1>5, InvParts DEF Fresh
  <2>2. ASSUME NEW e \in DOMAIN devices
        PROVE  DeviceMatches(list[e], devices[e], registers', e)
    <3>1. DeviceMatches(list[e], devices[e], registers, e)  BY <2>1 DEF Matches
    <3>2. RowsOf(registers, e) \subseteq RowsOf(registers', e)
          BY <1>3 DEF RowsOf
    <3>3. \A r \in RowsOf(registers', e) :
             \/ r \in RowsOf(registers, e) /\ Row(registers', r) = Row(registers, r)
                /\ registers'[r].unifiedAddress = registers[r].unifiedAddress
             \/ r \notin RowsOf(registers, e) /\ registers'[r].unifiedAddress = NoAddr
          BY <1>3 DEF RowsOf, Row
    <3>4. QED  BY <3>1, <3>2, <3>3 DEF DeviceMatches
  <2>3. QED  BY <2>1, <2>2, <1>1 DEF Matches
<1>6. QED  BY <1>1, <1>2, <1>3, <1>4, <1>5, InvFromParts
-----------------------------------------------------------------------------
(* A register of the list is a row of the device it is listed under. *)
LEMMA ListedRow ==
    ASSUME NEW r \in Listed
    PROVE  /\ DeviceOf(r) \in DOMAIN list /\ r \in DOMAIN list[DeviceOf(r)].registers
           /\ Matches(list, devices, registers) =>
                r \in DOMAIN registers /\ registers[r].deviceId = DeviceOf(r)
<1>1. DeviceOf(r) \in DOMAIN list /\ r \in DOMAIN list[DeviceOf(r)].registers
  <2>1. \E d \in DOMAIN list : r \in DOMAIN list[d].registers  BY DEF Listed
  <2>2. QED  BY <2>1 DEF DeviceOf
<1>2. QED  BY <1>1 DEF Matches, DeviceMatches, RowsOf

(* After a change of register r the registers of its device are loaded     *)
(* again; no other device has r among its rows.                            *)
LEMMA ReloadAfterChange ==
    ASSUME ListShape, NEW r \in Listed, list' = LoadedAgain(DeviceOf(r)), UNCHANGED devices,
           DOMAIN registers \ {r} \subseteq DOMAIN registers',
           DOMAIN registers' \subseteq DOMAIN registers,
           \A q \in DOMAIN registers \ {r} : registers'[q] = registers[q],
           r \in DOMAIN registers' => registers'[r].deviceId = registers[r].deviceId
    PROVE  /\ ListShape'
           /\ Matches(list, devices, registers) => Matches(list', devices', registers')
<1> DEFINE d == DeviceOf(r)
<1>1. d \in DOMAIN list  BY ListedRow
<1>2. list' = LoadedAgain(d)  OBVIOUS
<1> HIDE DEF d
<1>3. /\ DOMAIN list' = DOMAIN list
      /\ list'[d] = [pollMode |-> list[d].pollMode, registers |-> loadRegisters(registers', d)]
      /\ \A e \in DOMAIN list \ {d} : list'[e] = list[e]
      /\ ListShape'
      BY <1>1, <1>2, ReloadedList
<1>4. ASSUME Matches(list, devices, registers) PROVE Matches(list', devices', registers')
  <2>1. r \in DOMAIN registers /\ registers[r].deviceId = d  BY <1>4, ListedRow DEF d
  <2>2. DOMAIN list' = DOMAIN devices'  BY <1>3, <1>4 DEF Matches
  <2>3. ASSUME NEW e \in DOMAIN devices'
        PROVE  DeviceMatches(list'[e], devices'[e], registers', e)
    <3>1. DeviceMatches(list[e], devices[e], registers, e)  BY <1>4 DEF Matches
    <3>2. CASE e = d
      <4>1. list'[d].pollMode = devices'[d]  BY <3>1, <3>2, <1>3 DEF DeviceMatches
      <4>2. list'[d].registers = loadRegisters(registers', d)  BY <1>3
      <4>3. QED  BY <3>2, <4>1, <4>2, ReloadedMatch
    <3>3. CASE e # d
      <4>1. RowsOf(registers', e) = RowsOf(registers, e)  BY <3>3, <2>1 DEF RowsOf
      <4>2. \A q \in RowsOf(registers, e) : registers'[q] = registers[q]
            BY <3>3, <2>1 DEF RowsOf
      <4>3. DeviceMatches(list[e], devices[e], registers', e)
            BY <3>1, <4>1, <4>2, SameRowsMatch
      <4>4. QED  BY <4>3, <3>3, <1>3, <2>2
    <3>4. QED  BY <3>2, <3>3
  <2>4. QED  BY <2>2, <2>3 DEF Matches
<1>5. QED  BY <1>3, <1>4

LEMMA ReloadMayFail ==
    ASSUME ListShape, NEW r \in Listed, NEW loaded \in BOOLEAN,
           list' = Reloaded(DeviceOf(r), loaded), UNCHANGED devices,
           DOMAIN registers \ {r} \subseteq DOMAIN registers',
           DOMAIN registers' \subseteq DOMAIN registers,
           \A q \in DOMAIN registers \ {r} : registers'[q] = registers[q],
           r \in DOMAIN registers' => registers'[r].deviceId = registers[r].deviceId
    PROVE  /\ ListShape'
           /\ loaded /\ Matches(list, devices, registers) => Matches(list', devices', registers')
<1>1. CASE loaded
  <2>1. list' = LoadedAgain(DeviceOf(r))  BY <1>1 DEF LoadedAgain, Reloaded
  <2>2. QED  BY <2>1, ReloadAfterChange
<1>2. CASE ~loaded
  <2>1. list' = list  BY <1>2 DEF Reloaded
  <2>2. QED  BY <1>2, <2>1 DEF ListShape
<1>3. QED  BY <1>1, <1>2

LEMMA PutRegisterOk ==
    ASSUME RegistryInv, NEW r \in RegisterId, NEW addr \in {NoAddr} \cup (1 .. MaxUnified),
           NEW p \in Point, NEW loaded \in BOOLEAN, PutRegister(r, addr, p, loaded)
    PROVE  RegistryInv'
<1> DEFINE a == IF addr = NoAddr THEN NextUnified ELSE addr
<1>1. /\ Handler /\ r \in Listed
      /\ addr = NoAddr => ~Exhausted
      /\ r \in DOMAIN registers /\ a \in Used => registers[r].unifiedAddress = a
      /\ registers' = (IF r \in DOMAIN registers
                       THEN [registers EXCEPT ![r].unifiedAddress = a, ![r].point = p]
                       ELSE registers)
      /\ list' = Reloaded(DeviceOf(r), loaded) /\ Synced(loaded)
      /\ UNCHANGED <<devices, hmi_tags, lastDevice, lastRegister, up>>
      BY DEF PutRegister
<1>2. BackupInv' /\ FlagsOk' /\ restartRequired' = restartRequired /\ up
  <2>1. up' \in BOOLEAN /\ unsynced' \in BOOLEAN  BY <1>1, InvParts, SyncedMeans DEF FlagsOk
  <2>2. QED  BY <1>1, <2>1, HandlerFrame
<1>3. a \in 1 .. MaxUnified
  <2>1. CASE addr = NoAddr  BY <1>1, <2>1, NextUnifiedIsNew DEF RegistryInv
  <2>2. CASE addr # NoAddr  BY <2>2
  <2>3. QED  BY <2>1, <2>2
<1> HIDE DEF a
<1>4. /\ DOMAIN registers' = DOMAIN registers
      /\ \A q \in DOMAIN registers \ {r} : registers'[q] = registers[q]
      /\ r \in DOMAIN registers =>
            /\ registers'[r] \in RegisterConfig
            /\ registers'[r].deviceId = registers[r].deviceId
            /\ registers'[r].unifiedAddress = a
  <2>1. CASE r \notin DOMAIN registers  BY <1>1, <2>1
  <2>2. CASE r \in DOMAIN registers
    <3>1. registers[r] \in RegisterConfig  BY <2>2, InvParts DEF TablesOk
    <3>2. registers' = [registers EXCEPT ![r] =
                            [[registers[r] EXCEPT !.unifiedAddress = a] EXCEPT !.point = p]]
          BY <1>1, <2>2
    <3>3. registers'[r] = [[registers[r] EXCEPT !.unifiedAddress = a] EXCEPT !.point = p]
          BY <2>2, <3>2
    <3>4. QED  BY <2>2, <3>1, <3>2, <3>3, <1>3 DEF RegisterConfig
  <2>3. QED  BY <2>1, <2>2
<1>5. registers' \in [DOMAIN registers' -> RegisterConfig]
  <2>1. registers \in [DOMAIN registers -> RegisterConfig]  BY InvParts DEF TablesOk
  <2>2. registers' = [q \in DOMAIN registers' |-> registers'[q]]  BY <1>1, <2>1
  <2>3. \A q \in DOMAIN registers' : registers'[q] \in RegisterConfig  BY <1>4, <2>1
  <2>4. QED  BY <2>2, <2>3
<1>6. TablesOk'
  <2>1. \A q \in DOMAIN registers' : registers'[q].deviceId \in DOMAIN devices'
        BY <1>1, <1>4, InvParts DEF TablesOk
  <2>2. hmi_tags' \in [DOMAIN hmi_tags' -> DOMAIN registers'] /\ DOMAIN hmi_tags' \subseteq Tag
        BY <1>1, <1>4, InvParts DEF TablesOk
  <2>3. QED  BY <1>1, <1>4, <1>5, <2>1, <2>2, InvParts DEF TablesOk
<1>7. UniqueAddresses(registers)'
  <2>1. SUFFICES ASSUME NEW x \in DOMAIN registers', NEW y \in DOMAIN registers',
                        registers'[x].unifiedAddress = registers'[y].unifiedAddress,
                        registers'[x].unifiedAddress # NoAddr
                 PROVE  x = y
        BY DEF UniqueAddresses
  <2>2. \A q \in DOMAIN registers : registers[q].unifiedAddress # NoAddr
            => registers[q].unifiedAddress \in Used
        BY DEF Used
  <2>3. CASE x # r /\ y # r
        BY <2>1, <2>3, <1>4, InvParts DEF UniqueAddresses
  <2>4. ASSUME x = r, y # r PROVE FALSE
    <3>1. registers[y].unifiedAddress = a /\ a # NoAddr  BY <2>1, <2>4, <1>4
    <3>2. registers[r].unifiedAddress = a  BY <2>2, <2>4, <3>1, <1>1, <1>4
    <3>3. QED  BY <2>4, <3>1, <3>2, <1>4, InvParts DEF UniqueAddresses
  <2>5. ASSUME x # r, y = r PROVE FALSE
    <3>1. registers[x].unifiedAddress = a /\ a # NoAddr  BY <2>1, <2>5, <1>4
    <3>2. registers[r].unifiedAddress = a  BY <2>2, <2>5, <3>1, <1>1, <1>4
    <3>3. QED  BY <2>5, <3>1, <3>2, <1>4, InvParts DEF UniqueAddresses
  <2>6. QED  BY <2>3, <2>4, <2>5
<1>8. /\ ListShape'
      /\ loaded /\ Matches(list, devices, registers) => Matches(list', devices', registers')
      BY <1>1, <1>4, InvParts, ReloadMayFail
<1>9. ASSUME Fresh' PROVE Matches(list', devices', registers')
      BY <1>1, <1>2, <1>8, <1>9, InvParts, SyncedMeans DEF Fresh
<1>10. QED  BY <1>1, <1>2, <1>6, <1>7, <1>8, <1>9, InvFromParts

LEMMA DeleteRegisterOk ==
    ASSUME RegistryInv, NEW r \in RegisterId, NEW loaded \in BOOLEAN,
           DeleteRegister(r, loaded)
    PROVE  RegistryInv'
<1> DEFINE S == DOMAIN registers \ {r}
<1>1. /\ Handler /\ r \in Listed
      /\ CascadeRegisters([q \in S |-> registers[q]])
      /\ list' = Reloaded(DeviceOf(r), loaded) /\ Synced(loaded)
      /\ UNCHANGED <<devices, lastDevice, lastRegister, up>>
      BY DEF DeleteRegister, Without
<1>2. BackupInv' /\ FlagsOk' /\ restartRequired' = restartRequired /\ up
  <2>1. up' \in BOOLEAN /\ unsynced' \in BOOLEAN  BY <1>1, InvParts, SyncedMeans DEF FlagsOk
  <2>2. QED  BY <1>1, <2>1, HandlerFrame
<1>3. registers' = [q \in S |-> registers[q]]  BY <1>1 DEF CascadeRegisters
<1>4. TablesOk' /\ UniqueAddresses(registers)'
  <2>1. \A q \in S : registers[q].deviceId \in DOMAIN devices'
        BY <1>1, InvParts DEF TablesOk
  <2>2. devices' \in [DOMAIN devices' -> PollMode]  BY <1>1, InvParts DEF TablesOk
  <2>3. S \in SUBSET DOMAIN registers  OBVIOUS
  <2> HIDE DEF S
  <2>4. QED  BY <1>1, <2>1, <2>2, <2>3, InvParts, CascadeOk
<1>5. /\ DOMAIN registers' = DOMAIN registers \ {r}
      /\ \A q \in DOMAIN registers \ {r} : registers'[q] = registers[q]
      BY <1>3
<1>6. /\ ListShape'
      /\ loaded /\ Matches(list, devices, registers) => Matches(list', devices', registers')
      BY <1>1, <1>5, InvParts, ReloadMayFail
<1>7. ASSUME Fresh' PROVE Matches(list', devices', registers')
      BY <1>1, <1>2, <1>6, <1>7, InvParts, SyncedMeans DEF Fresh
<1>8. QED  BY <1>1, <1>2, <1>4, <1>6, <1>7, InvFromParts

LEMMA TagsOk ==
    ASSUME RegistryInv, Handler,
           UNCHANGED <<devices, registers, lastDevice, lastRegister, list, up, unsynced>>,
           DOMAIN hmi_tags' \subseteq Tag, hmi_tags' \in [DOMAIN hmi_tags' -> DOMAIN registers]
    PROVE  RegistryInv'
<1>1. BackupInv' /\ FlagsOk' /\ restartRequired' = restartRequired
  <2>1. up' \in BOOLEAN /\ unsynced' \in BOOLEAN  BY InvParts DEF FlagsOk
  <2>2. QED  BY <2>1, HandlerFrame
<1>2. TablesOk'  BY InvParts DEF TablesOk
<1>3. UniqueAddresses(registers)' /\ ListShape'  BY InvParts DEF UniqueAddresses, ListShape
<1>4. up' /\ Fresh' => Matches(list', devices', registers')
      BY <1>1, InvParts DEF Fresh
<1>5. QED  BY <1>1, <1>2, <1>3, <1>4, InvFromParts

LEMMA LinkTagOk ==
    ASSUME RegistryInv, NEW t \in Tag, NEW r, LinkTag(t, r)
    PROVE  RegistryInv'
<1>1. DOMAIN hmi_tags \subseteq Tag /\ hmi_tags \in [DOMAIN hmi_tags -> DOMAIN registers]
      BY InvParts DEF TablesOk
<1>2. DOMAIN hmi_tags' \subseteq Tag /\ hmi_tags' \in [DOMAIN hmi_tags' -> DOMAIN registers]
      BY <1>1 DEF LinkTag, Plus
<1>3. QED  BY <1>2, TagsOk DEF LinkTag

LEMMA DeleteHmiTagOk ==
    ASSUME RegistryInv, NEW t \in Tag, DeleteHmiTag(t)
    PROVE  RegistryInv'
<1>1. DOMAIN hmi_tags \subseteq Tag /\ hmi_tags \in [DOMAIN hmi_tags -> DOMAIN registers]
      BY InvParts DEF TablesOk
<1>2. DOMAIN hmi_tags' \subseteq Tag /\ hmi_tags' \in [DOMAIN hmi_tags' -> DOMAIN registers]
      BY <1>1 DEF DeleteHmiTag, Without
<1>3. QED  BY <1>2, TagsOk DEF DeleteHmiTag
-----------------------------------------------------------------------------
LEMMA GetBackupOk ==
    ASSUME RegistryInv, GetBackup
    PROVE  RegistryInv'
<1> USE DEF GetBackup
<1>1. TablesOk' /\ FlagsOk' /\ UniqueAddresses(registers)' /\ ListShape'
      BY InvParts DEF TablesOk, FlagsOk, UniqueAddresses, ListShape, tables
<1>2. /\ backup'.devices = DOMAIN devices /\ backup'.registers = registers
      /\ backup'.tags = [t \in DOMAIN hmi_tags |-> AddressOf(t)]
      BY DEF BackupFile, buildDevices, buildRegisters, buildHmi
<1>3. DOMAIN devices \subseteq DeviceId /\ DOMAIN registers \subseteq RegisterId
      BY InvParts, RegistryBounds DEF TablesOk, DeviceId, RegisterId
<1>4. \A t \in DOMAIN hmi_tags : AddressOf(t) \in {NoAddr} \cup (1 .. MaxUnified)
      BY InvParts DEF TablesOk, AddressOf, RegisterConfig
<1>5. BackupInv'
  <2>1. backup'.tags \in [DOMAIN backup'.tags -> {NoAddr} \cup (1 .. MaxUnified)]
        BY <1>2, <1>4
  <2>2. UniqueAddresses(backup'.registers)  BY <1>2, InvParts
  <2>3. backup'.registers \in [DOMAIN backup'.registers -> RegisterConfig]
        BY <1>2, InvParts DEF TablesOk
  <2>4. \A r \in DOMAIN backup'.registers : backup'.registers[r].deviceId \in backup'.devices
        BY <1>2, InvParts DEF TablesOk
  <2>5. UniqueAddresses(backup.registers)'  BY <2>2 DEF UniqueAddresses
  <2>6. DOMAIN backup'.tags \subseteq Tag  BY <1>2, InvParts DEF TablesOk
  <2>7. QED  BY <1>2, <1>3, <2>1, <2>3, <2>4, <2>5, <2>6 DEF BackupInv
<1>6. up' /\ Fresh' => Matches(list', devices', registers')
      BY InvParts DEF tables, Fresh
<1>7. QED  BY <1>1, <1>5, <1>6, InvFromParts

(* Steps that touch neither the tables nor the list. *)
LEMMA FlagStepOk ==
    ASSUME RegistryInv, UNCHANGED <<tables, list, up, unsynced, requests, backup>>,
           staged' \in BOOLEAN, restartRequired' = restartRequired
    PROVE  RegistryInv'
<1>1. TablesOk' /\ FlagsOk' /\ UniqueAddresses(registers)' /\ ListShape' /\ BackupInv'
      BY InvParts DEF TablesOk, FlagsOk, UniqueAddresses, ListShape, BackupInv, tables
<1>2. up' /\ Fresh' => Matches(list', devices', registers')
      BY InvParts DEF tables, Fresh
<1>3. QED  BY <1>1, <1>2, InvFromParts

(* restoreData() leaves the tables consistent whatever its options are. *)
LEMMA RestoreDataRowsOk ==
    ASSUME RegistryInv, NEW withDevices \in BOOLEAN, NEW withRegisters \in BOOLEAN,
           NEW withHmi \in BOOLEAN, NEW tags, DOMAIN tags \subseteq Tag,
           RestoreDataRows(withDevices, withRegisters, withHmi, tags)
    PROVE  TablesOk' /\ UniqueAddresses(registers)'
<1> DEFINE file == IF withRegisters THEN backup.registers ELSE Empty
           kept == [t \in DOMAIN hmi_tags |-> AddressOf(t)]
           B    == backup.devices
<1>1. /\ file \in [DOMAIN file -> RegisterConfig]
      /\ DOMAIN file \subseteq RegisterId
      /\ \A r \in DOMAIN file : file[r].deviceId \in B
      /\ UniqueAddresses(file)
  <2>1. DOMAIN Empty = {} /\ Empty \in [{} -> RegisterConfig]  BY DEF Empty
  <2>2. QED  BY <2>1, InvParts DEF BackupInv, UniqueAddresses
<1>2. /\ IF withDevices
         THEN /\ lastDevice + Cardinality(B) <= MaxDeviceId
              /\ lastRegister + Cardinality(DOMAIN file) <= MaxRegisterId
              /\ devices' = [n \in {NewId(lastDevice, B, d) : d \in B} |-> "auto"]
              /\ registers' = NewRegisters(file)
              /\ lastDevice' = lastDevice + Cardinality(B)
              /\ lastRegister' = lastRegister + Cardinality(DOMAIN file)
         ELSE UNCHANGED <<devices, registers, lastDevice, lastRegister>>
      /\ hmi_tags' = (IF withHmi THEN Linked(tags, registers')
                      ELSE IF withDevices THEN Linked(kept, registers') ELSE hmi_tags)
      BY DEF RestoreDataRows
<1>3. lastDevice \in Nat /\ lastRegister \in Nat
      BY InvParts DEF TablesOk
<1>4. B \in SUBSET Nat /\ IsFiniteSet(B)
      BY InvParts, RegistryBounds, FiniteIds DEF BackupInv, DeviceId
<1>5. DOMAIN file \in SUBSET Nat /\ IsFiniteSet(DOMAIN file)
  <2>1. DOMAIN file \in SUBSET (1 .. MaxRegisterId)  BY <1>1 DEF RegisterId
  <2> HIDE DEF file
  <2>2. QED  BY <2>1, RegistryBounds, FiniteIds
<1>6. DOMAIN tags \subseteq Tag /\ DOMAIN kept \subseteq Tag
      BY InvParts DEF BackupInv, TablesOk
<1> HIDE DEF file, B, kept
<1>7. hmi_tags' \in [DOMAIN hmi_tags' -> DOMAIN registers'] /\ DOMAIN hmi_tags' \subseteq Tag
  <2>1. ASSUME NEW ts, DOMAIN ts \subseteq Tag
        PROVE  /\ Linked(ts, registers') \in [DOMAIN Linked(ts, registers') -> DOMAIN registers']
               /\ DOMAIN Linked(ts, registers') \subseteq Tag
        BY <2>1, LinkedTags
  <2>2. CASE withHmi  BY <2>1, <2>2, <1>2, <1>6
  <2>3. CASE ~withHmi /\ withDevices  BY <2>1, <2>3, <1>2, <1>6
  <2>4. CASE ~withHmi /\ ~withDevices  BY <2>4, <1>2, InvParts DEF TablesOk
  <2>5. QED  BY <2>2, <2>3, <2>4
<1>8. CASE ~withDevices
  <2>1. UNCHANGED <<devices, registers, lastDevice, lastRegister>>  BY <1>2, <1>8
  <2>2. QED  BY <2>1, <1>7, InvParts DEF TablesOk, UniqueAddresses
<1>9. CASE withDevices
  <2> DEFINE id(x) == NewId(lastRegister, DOMAIN file, x)
             dev(d) == NewId(lastDevice, B, d)
  <2>1. /\ Cardinality(B) \in Nat /\ Cardinality(DOMAIN file) \in Nat
        /\ \A d \in B : dev(d) \in (lastDevice + 1) .. (lastDevice + Cardinality(B))
        /\ \A x \in DOMAIN file :
              id(x) \in (lastRegister + 1) .. (lastRegister + Cardinality(DOMAIN file))
        BY <1>3, <1>4, <1>5, NewIds
  <2>2. /\ DOMAIN registers' = {id(x) : x \in DOMAIN file}
        /\ \A x \in DOMAIN file : registers'[id(x)] = Moved(file[x])
        /\ registers' = [n \in DOMAIN registers' |-> registers'[n]]
        BY <1>2, <1>3, <1>5, <1>9, NewRegistersRows
  <2>3. \A x \in DOMAIN file :
           /\ Moved(file[x]).deviceId = dev(file[x].deviceId)
           /\ Moved(file[x]).unifiedAddress = file[x].unifiedAddress
           /\ dev(file[x].deviceId) \in DeviceId => Moved(file[x]) \in RegisterConfig
        BY <1>1 DEF Moved, RegisterConfig, B
  <2>4. /\ devices' = [n \in {dev(d) : d \in B} |-> "auto"]
        /\ lastDevice' = lastDevice + Cardinality(B)
        /\ lastRegister' = lastRegister + Cardinality(DOMAIN file)
        /\ lastDevice' <= MaxDeviceId /\ lastRegister' <= MaxRegisterId
        BY <1>2, <1>9
  <2> HIDE DEF id, dev
  <2>5. lastDevice' \in 0 .. MaxDeviceId /\ lastRegister' \in 0 .. MaxRegisterId
        BY <1>3, <2>1, <2>4, RegistryBounds
  <2>6. \A d \in B : dev(d) \in 1 .. lastDevice' /\ dev(d) \in DeviceId
        BY <1>3, <2>1, <2>4, <2>5, RegistryBounds DEF DeviceId
  <2>7. \A x \in DOMAIN file : id(x) \in 1 .. lastRegister'
        BY <1>3, <2>1, <2>4
  <2>8. /\ DOMAIN devices' = {dev(d) : d \in B}
        /\ devices' \in [DOMAIN devices' -> PollMode]
        BY <2>4 DEF PollMode
  <2>9. DOMAIN devices' \subseteq 1 .. lastDevice' /\ DOMAIN registers' \subseteq 1 .. lastRegister'
        BY <2>2, <2>6, <2>7, <2>8
  <2>10. \A n \in DOMAIN registers' : /\ registers'[n] \in RegisterConfig
                                      /\ registers'[n].deviceId \in DOMAIN devices'
    <3>1. TAKE n \in DOMAIN registers'
    <3>2. PICK x \in DOMAIN file : n = id(x)  BY <2>2
    <3>3. file[x].deviceId \in B  BY <1>1
    <3>4. QED  BY <3>2, <3>3, <2>2, <2>3, <2>6, <2>8
  <2>11. registers' \in [DOMAIN registers' -> RegisterConfig]
    <3>1. \A n \in DOMAIN registers' : registers'[n] \in RegisterConfig  BY <2>10
    <3>2. QED  BY <3>1, <2>2
  <2>12. TablesOk'
         BY <1>7, <2>5, <2>8, <2>9, <2>10, <2>11 DEF TablesOk
  <2>13. UniqueAddresses(registers')
    <3>1. SUFFICES ASSUME NEW n \in DOMAIN registers', NEW m \in DOMAIN registers',
                          registers'[n].unifiedAddress = registers'[m].unifiedAddress,
                          registers'[n].unifiedAddress # NoAddr
                   PROVE  n = m
          BY DEF UniqueAddresses
    <3>2. PICK x \in DOMAIN file : n = id(x)  BY <2>2
    <3>3. PICK y \in DOMAIN file : m = id(y)  BY <2>2
    <3>4. file[x].unifiedAddress = file[y].unifiedAddress /\ file[x].unifiedAddress # NoAddr
          BY <3>1, <3>2, <3>3, <2>2, <2>3
    <3>5. x = y  BY <3>4, <1>1 DEF UniqueAddresses
    <3>6. QED  BY <3>2, <3>3, <3>5
  <2>14. QED  BY <2>12, <2>13
<1>10. QED  BY <1>8, <1>9

LEMMA RestoreDoneOk ==
    ASSUME RegistryInv, RestoreDone, TablesOk', UniqueAddresses(registers)'
    PROVE  RegistryInv'
<1>1. FlagsOk' /\ ListShape' /\ BackupInv'
      BY InvParts DEF RestoreDone, FlagsOk, ListShape, BackupInv, UniqueAddresses
<1>2. ~Fresh'  BY DEF RestoreDone, Fresh
<1>3. QED  BY <1>1, <1>2, InvFromParts

LEMMA RestoreApplyOk ==
    ASSUME RegistryInv, NEW withDevices \in BOOLEAN, NEW withRegisters \in BOOLEAN,
           NEW withHmi \in BOOLEAN, RestoreApply(withDevices, withRegisters, withHmi)
    PROVE  RegistryInv'
<1>1. DOMAIN backup.tags \subseteq Tag  BY InvParts DEF BackupInv
<1>2. TablesOk' /\ UniqueAddresses(registers)'  BY <1>1, RestoreDataRowsOk DEF RestoreApply
<1>3. QED  BY <1>2, RestoreDoneOk DEF RestoreApply

(* A staged file that is lost leaves the tables consistent, if emptier. *)
LEMMA RestoreWithoutTagsOk ==
    ASSUME RegistryInv, NEW withDevices \in BOOLEAN, NEW withRegisters \in BOOLEAN,
           RestoreWithoutTags(withDevices, withRegisters)
    PROVE  RegistryInv'
<1>1. DOMAIN Empty \subseteq Tag  BY DEF Empty
<1>2. TablesOk' /\ UniqueAddresses(registers)'
      BY <1>1, RestoreDataRowsOk DEF RestoreWithoutTags
<1>3. QED  BY <1>2, RestoreDoneOk DEF RestoreWithoutTags

LEMMA RestoreWithoutDevicesOk ==
    ASSUME RegistryInv, RestoreWithoutDevices
    PROVE  RegistryInv'
<1>1. DOMAIN Empty = {} /\ \A S : Empty \in [{} -> S]  BY DEF Empty
<1>2. devices' = Empty /\ registers' = Empty /\ hmi_tags' = Empty  BY DEF RestoreWithoutDevices
<1>3. TablesOk'
  <2>1. lastDevice' = lastDevice /\ lastRegister' = lastRegister  BY DEF RestoreWithoutDevices
  <2>2. \A S : Empty \in [DOMAIN Empty -> S]  BY <1>1
  <2>3. QED  BY <1>1, <1>2, <2>1, <2>2, InvParts DEF TablesOk
<1>4. UniqueAddresses(registers)'  BY <1>1, <1>2 DEF UniqueAddresses
<1>5. QED  BY <1>3, <1>4, RestoreDoneOk DEF RestoreWithoutDevices

LEMMA FactoryResetRowsOk ==
    ASSUME RegistryInv, NEW settingsReset \in BOOLEAN, FactoryResetRows(settingsReset)
    PROVE  RegistryInv'
<1>1. DOMAIN Empty = {} /\ \A S : Empty \in [{} -> S]  BY DEF Empty
<1>2. devices' = Empty /\ registers' = Empty /\ hmi_tags' = Empty  BY DEF FactoryResetRows
<1>3. TablesOk'
  <2>1. lastDevice' = lastDevice /\ lastRegister' = lastRegister  BY DEF FactoryResetRows
  <2>2. \A S : Empty \in [DOMAIN Empty -> S]  BY <1>1
  <2>3. QED  BY <1>1, <1>2, <2>1, <2>2, InvParts DEF TablesOk
<1>4. UniqueAddresses(registers)'  BY <1>1, <1>2 DEF UniqueAddresses
<1>5. FlagsOk' /\ ListShape' /\ BackupInv'
      BY InvParts DEF FactoryResetRows, Synced, FlagsOk, ListShape, BackupInv, UniqueAddresses
<1>6. ~Fresh'  BY DEF FactoryResetRows, Synced, Fresh
<1>7. QED  BY <1>3, <1>4, <1>5, <1>6, InvFromParts

LEMMA ProcessRestartOk ==
    ASSUME RegistryInv, ProcessRestart
    PROVE  RegistryInv'
<1>1. TablesOk' /\ FlagsOk' /\ UniqueAddresses(registers)' /\ BackupInv'
      BY InvParts DEF ProcessRestart, TablesOk, FlagsOk, UniqueAddresses, BackupInv, tables
<1>2. ListShape'  BY DEF ProcessRestart, ListShape, loadDevices
<1>3. Matches(list', devices', registers')
  <2>1. Matches(loadDevices(devices, registers), devices, registers)  BY LoadedMatches
  <2>2. QED  BY <2>1 DEF ProcessRestart, tables
<1>4. QED  BY <1>1, <1>2, <1>3, InvFromParts

LEMMA RegistryStep ==
    ASSUME RegistryInv, [RegistryNext]_registryVars
    PROVE  RegistryInv'
<1>1. CASE \E mode \in PollMode : \/ \E loaded \in BOOLEAN : PostDevice(mode, loaded)
                                  \/ \E d \in DeviceId : PutDevice(d, mode)
      BY <1>1, PostDeviceOk, PutDeviceOk
<1>2. CASE \E d \in DeviceId : DeleteDevice(d)
      BY <1>2, DeleteDeviceOk
<1>3. CASE \E d \in DeviceId, p \in Point : PostRegisterFails(d, p)
      BY <1>3, PostRegisterFailsOk
<1>4. CASE \E d \in DeviceId, p \in Point, addr \in {NoAddr} \cup Manual,
              loaded \in BOOLEAN : PostRegister(d, addr, p, loaded)
      BY <1>4, PostRegisterOk
<1>5. CASE \E r \in RegisterId, addr \in {NoAddr} \cup (1 .. MaxUnified), p \in Point,
              loaded \in BOOLEAN : PutRegister(r, addr, p, loaded)
      BY <1>5, PutRegisterOk
<1>6. CASE \E r \in RegisterId, loaded \in BOOLEAN : DeleteRegister(r, loaded)
      BY <1>6, DeleteRegisterOk
<1>7. CASE \E r \in RegisterId, t \in Tag : PostHmiTag(t, r) \/ PutHmiTag(t, r)
      BY <1>7, LinkTagOk DEF PostHmiTag, PutHmiTag
<1>8. CASE \E t \in Tag : DeleteHmiTag(t)
      BY <1>8, DeleteHmiTagOk
<1>9. CASE GetBackup
      BY <1>9, GetBackupOk
<1>10. CASE \E valid \in BOOLEAN : RestoreValidate(valid)
       BY <1>10, FlagStepOk DEF RestoreValidate
<1>11. CASE \E withDevices, withRegisters, withHmi \in BOOLEAN :
               RestoreApply(withDevices, withRegisters, withHmi)
       BY <1>11, RestoreApplyOk
<1>12. CASE RestoreFails
       BY <1>12, FlagStepOk DEF RestoreFails
<1>13. CASE \E settingsReset \in BOOLEAN : FactoryResetRows(settingsReset)
       BY <1>13, FactoryResetRowsOk
<1>14. CASE ProcessRestart
       BY <1>14, ProcessRestartOk
<1>15. CASE UNCHANGED registryVars
  <2>1. staged' \in BOOLEAN  BY <1>15, InvParts DEF registryVars, FlagsOk
  <2>2. QED  BY <1>15, <2>1, FlagStepOk DEF registryVars
<1>16. CASE RestoreWithoutDevices
       BY <1>16, RestoreWithoutDevicesOk
<1>17. CASE \E withDevices, withRegisters \in BOOLEAN :
               RestoreWithoutTags(withDevices, withRegisters)
       BY <1>17, RestoreWithoutTagsOk
<1>18. QED
       BY <1>1, <1>2, <1>3, <1>4, <1>5, <1>6, <1>7, <1>8, <1>9, <1>10, <1>11, <1>12, <1>13,
          <1>14, <1>15, <1>16, <1>17 DEF RegistryNext

(***************************************************************************)
(* Handlers, backups, restores, the factory reset and restarts keep the    *)
(* tables, the list in memory and the backup fitting together.             *)
(***************************************************************************)
THEOREM RegistryInvariant == RegistrySpec => []RegistryInv
<1>1. RegistryInit => RegistryInv  BY RegistryInitOk
<1>2. RegistryInv /\ [RegistryNext]_registryVars => RegistryInv'  BY RegistryStep
<1>3. QED  BY <1>1, <1>2, PTL DEF RegistrySpec

(***************************************************************************)
(* The list in memory is the database's contents for any number of         *)
(* devices, registers, tags and requests (syncAddDevice() and its like),   *)
(* but for requests answered with an error after they had changed rows.    *)
(***************************************************************************)
THEOREM ListIsDb == RegistrySpec => []ListMatchesDb
<1>1. RegistryInv => ListMatchesDb  BY DEF RegistryInv
<1>2. QED  BY <1>1, RegistryInvariant, PTL
-----------------------------------------------------------------------------
(* A tag is linked again by the address it had, whatever is restored. *)
LEMMA TagsFollow ==
    ASSUME RegistryInv, NEW withDevices \in BOOLEAN, NEW withRegisters \in BOOLEAN,
           NEW withHmi \in BOOLEAN, RestoreApply(withDevices, withRegisters, withHmi)
    PROVE  LET before == IF withHmi THEN backup.tags
                         ELSE [t \in DOMAIN hmi_tags |-> AddressOf(t)]
           IN  \A t \in DOMAIN before :
                  IF t \in DOMAIN hmi_tags'
                  THEN registers'[hmi_tags'[t]].unifiedAddress = before[t]
                  ELSE before[t] = NoAddr
                       \/ \A r \in DOMAIN registers' : registers'[r].unifiedAddress # before[t]
<1> DEFINE kept   == [t \in DOMAIN hmi_tags |-> AddressOf(t)]
           before == IF withHmi THEN backup.tags ELSE kept
<1>1. hmi_tags' = (IF withHmi THEN Linked(backup.tags, registers')
                   ELSE IF withDevices THEN Linked(kept, registers') ELSE hmi_tags)
      /\ (~withDevices => registers' = registers)
      BY DEF RestoreApply, RestoreDataRows
<1>2. \A t \in DOMAIN kept : kept[t] = AddressOf(t) /\ kept[t] \in {NoAddr} \cup (1 .. MaxUnified)
      BY InvParts DEF TablesOk, AddressOf, RegisterConfig
<1>3. \A t \in DOMAIN before : before[t] \in {NoAddr} \cup (1 .. MaxUnified)
      BY <1>2, InvParts DEF BackupInv
<1>4. DOMAIN kept = DOMAIN hmi_tags  OBVIOUS
<1> HIDE DEF kept
<1>5. CASE ~withHmi /\ ~withDevices
  <2>1. before = kept /\ hmi_tags' = hmi_tags /\ registers' = registers  BY <1>1, <1>5
  <2>2. QED  BY <2>1, <1>2, <1>4 DEF AddressOf, kept
<1>6. CASE withHmi \/ withDevices
  <2>1. hmi_tags' = Linked(before, registers')  BY <1>1, <1>6
  <2> HIDE DEF before
  <2>2. ASSUME NEW t \in DOMAIN before, t \in DOMAIN hmi_tags'
        PROVE  registers'[hmi_tags'[t]].unifiedAddress = before[t]
        BY <2>1, <2>2, LinkedTags
  <2>3. ASSUME NEW t \in DOMAIN before, t \notin DOMAIN hmi_tags'
        PROVE  \/ before[t] = NoAddr
               \/ \A r \in DOMAIN registers' : registers'[r].unifiedAddress # before[t]
    <3>1. \/ ~(before[t] >= 0)
          \/ ~ \E r \in DOMAIN registers' : registers'[r].unifiedAddress = before[t]
          BY <2>1, <2>3, LinkedTags
    <3>2. ~(before[t] >= 0) => before[t] = NoAddr  BY <1>3, RegistryBounds
    <3>3. QED  BY <3>1, <3>2
  <2>4. QED  BY <2>2, <2>3 DEF before, kept
<1>7. QED  BY <1>5, <1>6

(***************************************************************************)
(* Restoring never shows a tag another unified address than it had (or has *)
(* in the backup), and drops it only when no register has the address.     *)
(***************************************************************************)
THEOREM TagsFollowTheirAddresses == RegistrySpec => TagsFollowAddresses
<1> DEFINE Follow ==
      \A withDevices, withRegisters, withHmi \in BOOLEAN :
          RestoreApply(withDevices, withRegisters, withHmi) =>
             LET before == IF withHmi THEN backup.tags
                           ELSE [t \in DOMAIN hmi_tags |-> AddressOf(t)]
             IN  \A t \in DOMAIN before :
                    IF t \in DOMAIN hmi_tags'
                    THEN registers'[hmi_tags'[t]].unifiedAddress = before[t]
                    ELSE before[t] = NoAddr
                         \/ \A r \in DOMAIN registers' : registers'[r].unifiedAddress # before[t]
<1>1. RegistryInv /\ [RegistryNext]_registryVars => [Follow]_registryVars
      BY TagsFollow
<1>2. TagsFollowAddresses <=> [][Follow]_registryVars
      BY DEF TagsFollowAddresses
<1> HIDE DEF Follow
<1>3. QED  BY <1>1, <1>2, RegistryInvariant, PTL DEF RegistrySpec
-----------------------------------------------------------------------------
(* Numbering the rows again keeps their number. *)
LEMMA SameNumber ==
    ASSUME NEW S \in SUBSET Nat, IsFiniteSet(S), NEW last \in Nat
    PROVE  LET f == [x \in S |-> NewId(last, S, x)]
               T == {NewId(last, S, x) : x \in S}
           IN  f \in Bijections(S, T) /\ Cardinality(T) = Cardinality(S)
<1> DEFINE f == [x \in S |-> NewId(last, S, x)]
           T == {NewId(last, S, x) : x \in S}
<1>1. \A x, y \in S : f[x] = f[y] => x = y
      BY NewIds
<1>2. f \in [S -> T] /\ \A t \in T : \E x \in S : f[x] = t
      OBVIOUS
<1>3. DOMAIN f = S  OBVIOUS
<1> HIDE DEF f, T
<1>4. f \in Injection(S, T) /\ f \in Surjection(S, T)
      BY <1>1, <1>2, <1>3 DEF Injection, Surjection, IsInjective
<1>5. ExistsBijection(S, T)  BY <1>4 DEF ExistsBijection, Bijection
<1>6. Cardinality(T) = Cardinality(S)  BY <1>5, FS_Bijection
<1>7. f \in Bijections(S, T)  BY <1>1, <1>2 DEF Bijections
<1>8. QED  BY <1>6, <1>7 DEF f, T

LEMMA Reproduces ==
    ASSUME RegistryInv, RestoreApply(TRUE, TRUE, TRUE), backup = BackupFile
    PROVE  Reproduced
<1> DEFINE D == DOMAIN devices
           R == DOMAIN registers
           f == [d \in D |-> NewId(lastDevice, D, d)]
           g == [r \in R |-> NewId(lastRegister, R, r)]
           tags == [t \in DOMAIN hmi_tags |-> AddressOf(t)]
<1>1. backup.devices = D /\ backup.registers = registers /\ backup.tags = tags
      BY DEF BackupFile, buildDevices, buildRegisters, buildHmi
<1>2. /\ devices' = [n \in {NewId(lastDevice, D, d) : d \in D} |-> "auto"]
      /\ registers' = NewRegisters(registers)
      /\ hmi_tags' = Linked(tags, registers')
      BY <1>1 DEF RestoreApply, RestoreDataRows
<1>3. lastDevice \in Nat /\ lastRegister \in Nat
      BY InvParts DEF TablesOk
<1>4. D \in SUBSET Nat /\ IsFiniteSet(D) /\ R \in SUBSET Nat /\ IsFiniteSet(R)
  <2>1. D \in SUBSET (1 .. lastDevice) /\ R \in SUBSET (1 .. lastRegister)  BY InvParts DEF TablesOk
  <2> HIDE DEF D, R
  <2>2. QED  BY <2>1, <1>3, FiniteIds
<1>5. /\ f \in Bijections(D, DOMAIN devices')
      /\ Cardinality(DOMAIN devices') = Cardinality(D)
  <2>1. DOMAIN devices' = {NewId(lastDevice, D, d) : d \in D}  BY <1>2
  <2> HIDE DEF D
  <2>2. QED  BY <2>1, <1>3, <1>4, SameNumber
<1>6. /\ DOMAIN registers' = {NewId(lastRegister, R, r) : r \in R}
      /\ \A r \in R : registers'[g[r]] = Moved(registers[r])
      BY <1>2, <1>3, <1>4, NewRegistersRows
<1>7. /\ g \in Bijections(R, DOMAIN registers')
      /\ Cardinality(DOMAIN registers') = Cardinality(R)
  <2> HIDE DEF R
  <2>1. QED  BY <1>3, <1>4, <1>6, SameNumber
<1>8. \A r \in R : registers'[g[r]] = [registers[r] EXCEPT !.deviceId = f[@]]
  <2>1. TAKE r \in R
  <2>2. registers[r].deviceId \in D  BY InvParts DEF TablesOk
  <2>3. f[registers[r].deviceId] = NewId(lastDevice, backup.devices, registers[r].deviceId)
        BY <2>2, <1>1
  <2>4. QED  BY <2>3, <1>6 DEF Moved
<1>9. \A r \in R : /\ registers[r] \in RegisterConfig
                   /\ g[r] \in DOMAIN registers'
                   /\ registers'[g[r]].unifiedAddress = registers[r].unifiedAddress
  <2>1. TAKE r \in R
  <2>2. registers[r] \in RegisterConfig  BY InvParts DEF TablesOk
  <2>3. Moved(registers[r]).unifiedAddress = registers[r].unifiedAddress
        BY <2>2 DEF Moved, RegisterConfig
  <2>4. QED  BY <2>2, <2>3, <1>6
<1>10. \A n \in DOMAIN registers' : \E r \in R : n = g[r]
       BY <1>6
<1>11. ASSUME NEW t \in DOMAIN hmi_tags, AddressOf(t) # NoAddr
       PROVE  {n \in DOMAIN registers' : registers'[n].unifiedAddress = tags[t]} = {g[hmi_tags[t]]}
  <2> DEFINE r == hmi_tags[t]
  <2>1. r \in R  BY InvParts DEF TablesOk
  <2>2. tags[t] = registers[r].unifiedAddress /\ tags[t] # NoAddr  BY <1>11 DEF AddressOf
  <2> HIDE DEF r, tags
  <2>3. g[r] \in DOMAIN registers' /\ registers'[g[r]].unifiedAddress = tags[t]
        BY <2>1, <2>2, <1>9
  <2>4. ASSUME NEW n \in DOMAIN registers', registers'[n].unifiedAddress = tags[t]
        PROVE  n = g[r]
    <3>1. PICK q \in R : n = g[q]  BY <1>10
    <3>2. registers[q].unifiedAddress = tags[t]  BY <2>4, <3>1, <1>9
    <3>3. q = r  BY <2>1, <2>2, <3>2, InvParts DEF UniqueAddresses
    <3>4. QED  BY <3>1, <3>3
  <2>5. QED  BY <2>3, <2>4 DEF r
<1>12. \A t \in DOMAIN hmi_tags : /\ tags[t] = AddressOf(t)
                                  /\ tags[t] \in {NoAddr} \cup (1 .. MaxUnified)
       BY InvParts DEF TablesOk, AddressOf, RegisterConfig
<1>13. DOMAIN tags = DOMAIN hmi_tags  OBVIOUS
<1> HIDE DEF D, R, f, g, tags
<1>14. DOMAIN hmi_tags' = {t \in DOMAIN hmi_tags : AddressOf(t) # NoAddr}
  <2>1. \A t : t \in DOMAIN hmi_tags' <=>
                  /\ t \in DOMAIN hmi_tags /\ tags[t] >= 0
                  /\ \E n \in DOMAIN registers' : registers'[n].unifiedAddress = tags[t]
        BY <1>2, <1>13, LinkedTags
  <2>2. \A t \in DOMAIN hmi_tags : AddressOf(t) # NoAddr =>
           \E n \in DOMAIN registers' : registers'[n].unifiedAddress = tags[t]
        BY <1>11
  <2>3. \A t \in DOMAIN hmi_tags : tags[t] >= 0 <=> AddressOf(t) # NoAddr
        BY <1>12, RegistryBounds DEF NoAddr
  <2>4. QED  BY <2>1, <2>2, <2>3
<1>15. \A t \in DOMAIN hmi_tags' : hmi_tags'[t] = g[hmi_tags[t]]
  <2>1. TAKE t \in DOMAIN hmi_tags'
  <2>2. t \in DOMAIN hmi_tags /\ AddressOf(t) # NoAddr  BY <1>14
  <2>3. hmi_tags'[t] \in DOMAIN registers' /\ registers'[hmi_tags'[t]].unifiedAddress = tags[t]
        BY <1>2, LinkedTags
  <2>4. QED  BY <2>2, <2>3, <1>11
<1>16. QED  BY <1>5, <1>7, <1>8, <1>14, <1>15 DEF Reproduced, D, R

(***************************************************************************)
(* Restoring everything from a backup of the present configuration gives   *)
(* it back under new ids, however many devices, registers and tags it has. *)
(***************************************************************************)
THEOREM RestoreGivesBack == RegistrySpec => RestoreReproduces
<1> DEFINE Back == RestoreApply(TRUE, TRUE, TRUE) /\ backup = BackupFile => Reproduced
<1>1. RegistryInv /\ [RegistryNext]_registryVars => [Back]_registryVars
      BY Reproduces
<1>2. RestoreReproduces <=> [][Back]_registryVars
      BY DEF RestoreReproduces
<1> HIDE DEF Back
<1>3. QED  BY <1>1, <1>2, RegistryInvariant, PTL DEF RegistrySpec
=============================================================================
