------------------------- MODULE MenuSessionsProofs -------------------------
(***************************************************************************)
(* Proofs about MenuSessions: for any number of menus, failures and stops, *)
(* every menu on the screen is remembered until it is gone, the live menu  *)
(* is never one whose deletion is noted, and a press answers for the menu  *)
(* that was pressed.                                                       *)
(***************************************************************************)
EXTENDS MenuSessions, TLAPS

-----------------------------------------------------------------------------
(* Every place that remembers a menu: the rows, the live menu, the pending *)
(* deletions and the section that runs.                                    *)
Remembered(m) ==
    \/ m \in rows
    \/ m = menu /\ menu # None
    \/ \E c \in cleanup : m = [ref |-> c.ref, gen |-> c.gen]
    \/ m = op.target /\ op.target # Nothing

(* A generation names one message; that of a message of the chat is its    *)
(* number.                                                                 *)
Generated ==
    /\ \A m, n \in Menu : Remembered(m) /\ Remembered(n) /\ m.gen = n.gen => m = n
    /\ \A m \in Menu : Remembered(m) => m.gen <= last

Numbered ==
    /\ \A m \in Menu : Remembered(m) /\ m.ref \in Generations => m.gen = m.ref
    /\ \A m \in shown : m.ref \in Generations /\ m.gen # 0 => m.gen = m.ref
    /\ pressed # None /\ pressed.ref \in Generations => pressed.gen = pressed.ref

(* What holds between the calls of a section.                              *)
Sections ==
    /\ op.target = Nothing <=> op.step \in {"idle", "send", "notice"}
    /\ op.step \in {"send", "store", "draw", "notice", "noticeStore"} \/ op.then # "idle" => menu = None
    /\ op.step \in {"store", "draw"} => op.target.ref \notin RefsOf(cleanup)
    /\ op.step = "draw" => op.target \in rows
    /\ op.step = "forget" => op.target.ref \notin RefsOf(shown)
    /\ op.step \in {"renote", "noticeStore"} => op.target.ref \in RefsOf(cleanup)

(* What a process that ended leaves behind.                                *)
Stopped == up = "down" =>
    /\ menu = None /\ op = Idle
    /\ \A m \in shown : m.known # "unsaved"

MenuInv ==
    /\ TypeOK
    /\ Generated /\ Numbered /\ Sections /\ Stopped
    /\ Accounted /\ LiveMenuIsSafe /\ PressesHitTheirMenu

-----------------------------------------------------------------------------
(* Names: a step that remembers nothing new, or one new generation.        *)

LEMMA NamesKept ==
    ASSUME TypeOK, TypeOK', Generated, Numbered, last <= last',
           \A m \in Menu : Remembered(m)' => Remembered(m)
    PROVE  Generated' /\ \A m \in Menu : Remembered(m)' /\ m.ref \in Generations => m.gen = m.ref
  <1>1. last \in Nat /\ last' \in Nat /\ \A m \in Menu : m.gen \in Nat
    BY MenuAssumption DEF TypeOK, Menu, Generations
  <1> QED BY <1>1 DEF Generated, Numbered

LEMMA NewName ==
    ASSUME TypeOK, TypeOK', Generated, Numbered, NEW new \in Menu,
           new.gen = last + 1, last' = last + 1, new.ref \in Generations => new.ref = last + 1,
           \A m \in Menu : Remembered(m)' => Remembered(m) \/ m = new
    PROVE  Generated' /\ \A m \in Menu : Remembered(m)' /\ m.ref \in Generations => m.gen = m.ref
  <1>1. last \in Nat /\ last' \in Nat /\ \A m \in Menu : m.gen \in Nat
    BY MenuAssumption DEF TypeOK, Menu, Generations
  <1> QED BY <1>1 DEF Generated, Numbered

-----------------------------------------------------------------------------
(* What a call of SaveMenuCleanup does, however it ends.                   *)

Shown == [ref : Refs, gen : {0} \cup Generations, known : {"unsaved", "saved", "lost"}]

Stores(m) ==
    \/ /\ rows' = Without(rows, m.ref) \cup {m}
       /\ shown' = {IF x.ref = m.ref THEN [x EXCEPT !.known = "saved"] ELSE x : x \in shown}
    \/ UNCHANGED <<rows, shown>>

LEMMA StoresDoes ==
    ASSUME TypeOK, NEW m \in Menu, Stores(m)
    PROVE  /\ rows' \subseteq Menu /\ shown' \subseteq Shown
           /\ \A n \in rows' : n \in rows \/ n = m
           /\ \A n \in rows : n.ref # m.ref => n \in rows'
           /\ RefsOf(rows) \subseteq RefsOf(rows')
           /\ \A x \in shown' : \E y \in shown :
                  /\ x.ref = y.ref /\ x.gen = y.gen
                  /\ x.known = y.known \/ (x.known = "saved" /\ x.ref = m.ref /\ x.ref \in RefsOf(rows'))
           /\ RefsOf(shown') = RefsOf(shown)
  <1>1. CASE UNCHANGED <<rows, shown>>
    BY <1>1 DEF TypeOK, Shown, RefsOf
  <1>2. CASE /\ rows' = Without(rows, m.ref) \cup {m}
             /\ shown' = {IF x.ref = m.ref THEN [x EXCEPT !.known = "saved"] ELSE x : x \in shown}
    <2>1. /\ rows' \subseteq Menu
          /\ \A n \in rows' : n \in rows \/ n = m
          /\ \A n \in rows : n.ref # m.ref => n \in rows'
          /\ RefsOf(rows) \subseteq RefsOf(rows') /\ m.ref \in RefsOf(rows')
      BY <1>2 DEF TypeOK, Without, RefsOf
    <2> DEFINE Marked(x) == IF x.ref = m.ref THEN [x EXCEPT !.known = "saved"] ELSE x
    <2>2. \A x \in shown :
             /\ Marked(x) \in Shown /\ Marked(x).ref = x.ref /\ Marked(x).gen = x.gen
             /\ Marked(x).known = x.known \/ (Marked(x).known = "saved" /\ x.ref = m.ref)
      <3> SUFFICES ASSUME NEW x \in Shown PROVE
             /\ Marked(x) \in Shown /\ Marked(x).ref = x.ref /\ Marked(x).gen = x.gen
             /\ Marked(x).known = x.known \/ (Marked(x).known = "saved" /\ x.ref = m.ref)
        BY DEF TypeOK, Shown
      <3> QED BY DEF Shown
    <2>3. shown' = {Marked(x) : x \in shown}
      BY <1>2
    <2> HIDE DEF Marked
    <2>4. shown' \subseteq Shown
      BY <2>2, <2>3
    <2>5. \A x \in shown' : \E y \in shown :
                  /\ x.ref = y.ref /\ x.gen = y.gen
                  /\ x.known = y.known \/ (x.known = "saved" /\ x.ref = m.ref /\ x.ref \in RefsOf(rows'))
      BY <2>1, <2>2, <2>3
    <2>6. RefsOf(shown') = RefsOf(shown)
      BY <2>2, <2>3 DEF RefsOf
    <2> QED BY <2>1, <2>4, <2>5, <2>6
  <1> QED BY <1>1, <1>2 DEF Stores

-----------------------------------------------------------------------------
(* What queueMenuCleanupLocked does.                                       *)

Pending == [ref : Refs, gen : Generations, due : BOOLEAN]

LEMMA QueuedDoes ==
    ASSUME TypeOK, Generated, NEW m \in Menu, NEW due \in BOOLEAN, Remembered(m) \/ m.gen = last + 1
    PROVE  /\ Queued(m, due) \subseteq Pending
           /\ \A c \in Queued(m, due) : c \in cleanup \/ (c.ref = m.ref /\ c.gen = m.gen)
           /\ \A c \in cleanup : c.ref # m.ref => c \in Queued(m, due)
           /\ RefsOf(Queued(m, due)) = RefsOf(cleanup) \cup {m.ref}
  <1>1. \A c \in cleanup : c.gen = m.gen => c.ref = m.ref
    <2> SUFFICES ASSUME NEW c \in cleanup, c.gen = m.gen PROVE c.ref = m.ref
      OBVIOUS
    <2> DEFINE n == [ref |-> c.ref, gen |-> c.gen]
    <2>1. n \in Menu /\ Remembered(n) /\ n.gen = c.gen /\ n.ref = c.ref
      BY DEF TypeOK, Menu, Remembered
    <2>2. n.gen <= last /\ last \in Nat /\ n.gen \in Nat
      BY <2>1, MenuAssumption DEF Generated, TypeOK, Menu, Generations
    <2>3. Remembered(m)
      BY <2>1, <2>2
    <2> QED BY <2>1, <2>3 DEF Generated
  <1>2. [ref |-> m.ref, gen |-> m.gen, due |-> due] \in Pending
    BY DEF Menu, Pending
  <1> DEFINE new == [ref |-> m.ref, gen |-> m.gen, due |-> due]
  <1>3. Queued(m, due) = {c \in cleanup : c.gen # m.gen} \cup {new} /\ new.ref = m.ref /\ new.gen = m.gen
    BY DEF Queued
  <1> HIDE DEF new
  <1>4. cleanup \subseteq Pending /\ new \in Pending
    BY <1>2 DEF TypeOK, Pending, new
  <1>5. /\ Queued(m, due) \subseteq Pending
        /\ \A c \in Queued(m, due) : c \in cleanup \/ (c.ref = m.ref /\ c.gen = m.gen)
        /\ \A c \in cleanup : c.ref # m.ref => c \in Queued(m, due)
    BY <1>1, <1>3, <1>4
  <1>6. new \in Queued(m, due)
    BY <1>3
  <1>7. RefsOf(Queued(m, due)) \subseteq RefsOf(cleanup) \cup {m.ref}
    BY <1>5 DEF RefsOf
  <1>8. RefsOf(cleanup) \cup {m.ref} \subseteq RefsOf(Queued(m, due))
    BY <1>3, <1>5, <1>6 DEF RefsOf
  <1> QED BY <1>5, <1>7, <1>8

(* The end of a section.                                                   *)
LEMMA FinishDoes ==
    ASSUME TypeOK, Finish
    PROVE  /\ op'.target = Nothing /\ op'.then = "idle"
           /\ op'.step = op.then /\ op'.step \in {"idle", "send", "notice"}
           /\ op' \in [step : Steps, target : Menu \cup {Nothing}, private : BOOLEAN,
                       then : {"idle", "send", "notice"}]
  BY DEF TypeOK, Finish, Idle, Steps, Deleting

(* The identity of no menu.                                                *)
LEMMA NothingIsNone == /\ Nothing \notin Menu /\ None \notin Menu
                       /\ Nothing.ref \notin Refs /\ Nothing.gen = 0
  BY MenuAssumption DEF Nothing, Menu, Generations

-----------------------------------------------------------------------------
(* The deletion.                                                           *)

LEMMA NoteInv == ASSUME MenuInv, Note PROVE MenuInv'
  <1> USE DEF MenuInv
  <1>0. /\ op.target \in Menu /\ op.target # Nothing /\ Stores(op.target)
        /\ op' = [op EXCEPT !.step = "delete"] /\ op.step = "note"
        /\ op'.step = "delete" /\ op'.target = op.target /\ op'.then = op.then /\ op'.private = op.private
        /\ faults' \in 0..MaxFaults
        /\ UNCHANGED <<menu, expired, cleanup, pressed, last, up, stops, acted>>
    BY MenuAssumption DEF Note, Goes, Save, Stores, Sections, TypeOK, memory, Fault
  <1>S. /\ rows' \subseteq Menu /\ shown' \subseteq Shown
        /\ \A n \in rows' : n \in rows \/ n = op.target
        /\ \A n \in rows : n.ref # op.target.ref => n \in rows'
        /\ RefsOf(rows) \subseteq RefsOf(rows')
        /\ \A x \in shown' : \E y \in shown :
               /\ x.ref = y.ref /\ x.gen = y.gen
               /\ x.known = y.known \/ (x.known = "saved" /\ x.ref = op.target.ref /\ x.ref \in RefsOf(rows'))
        /\ RefsOf(shown') = RefsOf(shown)
    BY <1>0, StoresDoes
  <1>1. TypeOK'
    BY <1>0, <1>S DEF TypeOK, Shown, Steps, Deleting
  <1>2. \A m \in Menu : Remembered(m)' => Remembered(m)
    BY <1>0, <1>S DEF Remembered
  <1>3. Generated' /\ \A m \in Menu : Remembered(m)' /\ m.ref \in Generations => m.gen = m.ref
    BY <1>0, <1>1, <1>2, NamesKept DEF TypeOK
  <1>4. Numbered'
    BY <1>0, <1>S, <1>3 DEF Numbered
  <1>5. Sections'
    BY <1>0 DEF Sections
  <1>6. Stopped'
    BY <1>0 DEF Stopped, Idle
  <1>7. Accounted'
    BY <1>0, <1>1, <1>S DEF Accounted
  <1>8. LiveMenuIsSafe'
    BY <1>0, <1>S DEF LiveMenuIsSafe
  <1>9. PressesHitTheirMenu'
    BY <1>0 DEF PressesHitTheirMenu
  <1> QED BY <1>1, <1>3, <1>4, <1>5, <1>6, <1>7, <1>8, <1>9

LEMMA DeleteInv == ASSUME MenuInv, Delete PROVE MenuInv'
  <1> USE DEF MenuInv
  <1>0. /\ op.target \in Menu /\ op.target # Nothing /\ Remembered(op.target) /\ op.step = "delete"
        /\ op'.target = op.target /\ op'.then = op.then /\ op'.private = op.private
        /\ faults' \in 0..MaxFaults
        /\ UNCHANGED <<rows, menu, expired, pressed, last, up, stops, acted>>
    <2>1. op.target \in Menu /\ op.target # Nothing /\ Remembered(op.target) /\ op.step = "delete"
      BY DEF Delete, Sections, Remembered, TypeOK
    <2>2. op'.target = op.target /\ op'.then = op.then /\ op'.private = op.private
      BY DEF Delete, Retry, Goes, TypeOK
    <2>3. faults' \in 0..MaxFaults
      BY MenuAssumption DEF Delete, TypeOK, Fault
    <2> QED BY <2>1, <2>2, <2>3 DEF Delete
  <1>S. /\ shown' \subseteq shown
        /\ op'.step \in {"forget", "renote"} /\ op' \in [step : Steps, target : Menu \cup {Nothing},
                private : BOOLEAN, then : {"idle", "send", "notice"}]
        /\ op'.step = "forget" => op.target.ref \notin RefsOf(shown')
    BY DEF Delete, Retry, Goes, Without, RefsOf, TypeOK, Steps, Deleting
  <1>C. /\ cleanup' \subseteq Pending
        /\ \A c \in cleanup' : c \in cleanup \/ (c.ref = op.target.ref /\ c.gen = op.target.gen)
        /\ RefsOf(cleanup') \subseteq RefsOf(cleanup) \cup {op.target.ref}
        /\ RefsOf(cleanup) \subseteq RefsOf(cleanup')
        /\ op'.step = "renote" => op.target.ref \in RefsOf(cleanup')
    <2>1. CASE cleanup' = Queued(op.target, FALSE)
      BY <1>0, <2>1, QueuedDoes
    <2>2. CASE cleanup' = cleanup /\ op'.step = "forget"
      BY <2>2 DEF TypeOK, Pending
    <2> QED BY <2>1, <2>2 DEF Delete, Retry, Goes, TypeOK
  <1>1. TypeOK'
    BY <1>0, <1>S, <1>C DEF TypeOK, Pending
  <1>2. \A m \in Menu : Remembered(m)' => Remembered(m)
    BY <1>0, <1>C DEF Remembered, Menu
  <1>3. Generated' /\ \A m \in Menu : Remembered(m)' /\ m.ref \in Generations => m.gen = m.ref
    BY <1>0, <1>1, <1>2, NamesKept DEF TypeOK
  <1>4. Numbered'
    BY <1>0, <1>S, <1>3 DEF Numbered
  <1>5. Sections'
    BY <1>0, <1>S, <1>C DEF Sections
  <1>6. Stopped'
    BY <1>0 DEF Stopped, Idle
  <1>7. Accounted'
    BY <1>0, <1>1, <1>S, <1>C DEF Accounted
  <1>8. LiveMenuIsSafe'
    BY <1>0, <1>C DEF LiveMenuIsSafe
  <1>9. PressesHitTheirMenu'
    BY <1>0 DEF PressesHitTheirMenu
  <1> QED BY <1>1, <1>3, <1>4, <1>5, <1>6, <1>7, <1>8, <1>9

LEMMA ForgetInv == ASSUME MenuInv, Forget PROVE MenuInv'
  <1> USE DEF MenuInv
  <1>0. /\ op.target \in Menu /\ op.target # Nothing /\ Remembered(op.target) /\ op.step = "forget"
        /\ op.target.ref \notin RefsOf(shown)
        /\ faults' \in 0..MaxFaults
        /\ UNCHANGED <<shown, menu, expired, pressed, last, up, stops, acted>>
    BY MenuAssumption DEF Forget, Sections, Remembered, TypeOK, Fault
  <1>R. /\ rows' \subseteq rows
        /\ \A m \in rows : m.ref # op.target.ref => m \in rows'
    <2>1. \A m \in rows : m.gen = op.target.gen => m.ref = op.target.ref
      BY <1>0 DEF Generated, Remembered, TypeOK
    <2> QED BY <2>1 DEF Forget
  <1>C. /\ cleanup' \subseteq Pending
        /\ \A c \in cleanup' : c \in cleanup \/ (c.ref = op.target.ref /\ c.gen = op.target.gen)
        /\ \A c \in cleanup : c.ref # op.target.ref => c \in cleanup'
    <2>1. CASE cleanup' = Queued(op.target, FALSE)
      BY <1>0, <2>1, QueuedDoes
    <2>2. CASE cleanup' = {c \in cleanup : c.gen # op.target.gen}
      <3>1. \A c \in cleanup : [ref |-> c.ref, gen |-> c.gen] \in Menu /\ Remembered([ref |-> c.ref, gen |-> c.gen])
        BY DEF TypeOK, Menu, Remembered
      <3>2. \A c \in cleanup : c.gen = op.target.gen => c.ref = op.target.ref
        <4> SUFFICES ASSUME NEW c \in cleanup, c.gen = op.target.gen PROVE c.ref = op.target.ref
          OBVIOUS
        <4> DEFINE n == [ref |-> c.ref, gen |-> c.gen]
        <4>1. n \in Menu /\ Remembered(n) /\ n.gen = op.target.gen /\ n.ref = c.ref
          BY <3>1
        <4> HIDE DEF n
        <4> QED BY <1>0, <4>1 DEF Generated
      <3> QED BY <2>2, <3>2 DEF TypeOK, Pending
    <2> QED BY <2>1, <2>2 DEF Forget, Retry
  <1>F. /\ op' \in [step : Steps, target : Menu \cup {Nothing}, private : BOOLEAN,
                    then : {"idle", "send", "notice"}]
        /\ \/ /\ op'.step = "renote" /\ op'.target = op.target /\ op'.then = op.then
              /\ op.target.ref \in RefsOf(cleanup')
           \/ /\ op'.step = op.then /\ op'.target = Nothing /\ op'.then = "idle"
              /\ op'.step \in {"idle", "send", "notice"}
    <2>1. CASE Retry
      <3>1. op.target.ref \in RefsOf(cleanup')
        BY <1>0, <2>1, QueuedDoes DEF Retry
      <3> QED BY <2>1, <3>1 DEF Retry, Goes, TypeOK, Steps, Deleting
    <2>2. CASE Finish
      BY <2>2, FinishDoes
    <2> QED BY <2>1, <2>2 DEF Forget
  <1>1. TypeOK'
    BY <1>0, <1>R, <1>C, <1>F DEF TypeOK, Pending
  <1>2. \A m \in Menu : Remembered(m)' => Remembered(m)
    BY <1>0, <1>R, <1>C, <1>F DEF Remembered, Menu
  <1>3. Generated' /\ \A m \in Menu : Remembered(m)' /\ m.ref \in Generations => m.gen = m.ref
    BY <1>0, <1>1, <1>2, NamesKept DEF TypeOK
  <1>4. Numbered'
    BY <1>0, <1>3 DEF Numbered
  <1>5. Sections'
    BY <1>0, <1>F DEF Sections
  <1>6. Stopped'
    BY <1>0 DEF Stopped, Idle
  <1>7. Accounted'
    BY <1>0, <1>1, <1>R, <1>C, <1>F DEF Accounted, RefsOf
  <1>8. LiveMenuIsSafe'
    BY <1>0, <1>R, <1>C, <1>F, NothingIsNone DEF LiveMenuIsSafe, RefsOf, TypeOK, Menu
  <1>9. PressesHitTheirMenu'
    BY <1>0 DEF PressesHitTheirMenu
  <1> QED BY <1>1, <1>3, <1>4, <1>5, <1>6, <1>7, <1>8, <1>9

LEMMA RenoteInv == ASSUME MenuInv, Renote PROVE MenuInv'
  <1> USE DEF MenuInv
  <1>0. /\ op.target \in Menu /\ op.target # Nothing /\ Remembered(op.target) /\ Stores(op.target)
        /\ op.step = "renote" /\ op.target.ref \in RefsOf(cleanup)
        /\ faults' \in 0..MaxFaults
        /\ UNCHANGED <<menu, expired, cleanup, pressed, last, up, stops, acted>>
    BY MenuAssumption DEF Renote, Save, Stores, Sections, Remembered, TypeOK, memory, Fault
  <1>S. /\ rows' \subseteq Menu /\ shown' \subseteq Shown
        /\ \A n \in rows' : n \in rows \/ n = op.target
        /\ \A n \in rows : n.ref # op.target.ref => n \in rows'
        /\ RefsOf(rows) \subseteq RefsOf(rows')
        /\ \A x \in shown' : \E y \in shown :
               /\ x.ref = y.ref /\ x.gen = y.gen
               /\ x.known = y.known \/ (x.known = "saved" /\ x.ref = op.target.ref /\ x.ref \in RefsOf(rows'))
        /\ RefsOf(shown') = RefsOf(shown)
    BY <1>0, StoresDoes
  <1>F. /\ op'.target = Nothing /\ op'.then = "idle"
        /\ op'.step = op.then /\ op'.step \in {"idle", "send", "notice"}
        /\ op' \in [step : Steps, target : Menu \cup {Nothing}, private : BOOLEAN,
                    then : {"idle", "send", "notice"}]
    BY FinishDoes DEF Renote
  <1>1. TypeOK'
    BY <1>0, <1>S, <1>F DEF TypeOK, Shown
  <1>2. \A m \in Menu : Remembered(m)' => Remembered(m)
    BY <1>0, <1>S, <1>F DEF Remembered
  <1>3. Generated' /\ \A m \in Menu : Remembered(m)' /\ m.ref \in Generations => m.gen = m.ref
    BY <1>0, <1>1, <1>2, NamesKept DEF TypeOK
  <1>4. Numbered'
    BY <1>0, <1>S, <1>3 DEF Numbered
  <1>5. Sections'
    BY <1>0, <1>F DEF Sections
  <1>6. Stopped'
    BY <1>0 DEF Stopped, Idle
  <1>7. Accounted'
    BY <1>0, <1>1, <1>S, <1>F DEF Accounted
  <1>8. LiveMenuIsSafe'
    BY <1>0, <1>S, <1>F, NothingIsNone DEF LiveMenuIsSafe, TypeOK, Menu
  <1>9. PressesHitTheirMenu'
    BY <1>0 DEF PressesHitTheirMenu
  <1> QED BY <1>1, <1>3, <1>4, <1>5, <1>6, <1>7, <1>8, <1>9

-----------------------------------------------------------------------------
(* The beginning of a deletion.                                            *)

LEMMA BeginDeleteDoes ==
    ASSUME NEW m \in Menu, NEW private \in BOOLEAN, NEW then \in {"idle", "send", "notice"},
           BeginDelete(m, private, then)
    PROVE  /\ op'.step = "note" /\ op'.target = m /\ op'.then = then /\ op'.target # Nothing
           /\ op' \in [step : Steps, target : Menu \cup {Nothing}, private : BOOLEAN,
                       then : {"idle", "send", "notice"}]
  BY NothingIsNone DEF BeginDelete, Steps, Deleting

(* closeMenuLocked, for whatever reason it is called.                      *)
LEMMA CloseMenuInv ==
    ASSUME MenuInv, op = Idle, menu # None, NEW private \in BOOLEAN, NEW then \in {"idle", "send"},
           CloseMenu(private, then),
           UNCHANGED <<shown, rows, pressed, last, up, faults, stops, acted>>
    PROVE  MenuInv'
  <1> USE DEF MenuInv
  <1>0. /\ menu \in Menu /\ Remembered(menu) /\ menu' = None /\ expired' = FALSE
        /\ UNCHANGED <<shown, rows, pressed, last, up, faults, stops, acted>>
        /\ up # "down"
    BY DEF CloseMenu, TypeOK, Remembered, Stopped
  <1>F. /\ op'.step = "note" /\ op'.target = menu /\ op'.then = then /\ op'.target # Nothing
        /\ op' \in [step : Steps, target : Menu \cup {Nothing}, private : BOOLEAN,
                    then : {"idle", "send", "notice"}]
    BY <1>0, BeginDeleteDoes DEF CloseMenu
  <1>C. /\ cleanup' \subseteq Pending
        /\ \A c \in cleanup' : c \in cleanup \/ (c.ref = menu.ref /\ c.gen = menu.gen)
        /\ RefsOf(cleanup') = RefsOf(cleanup) \cup {menu.ref}
    BY <1>0, QueuedDoes DEF CloseMenu
  <1>1. TypeOK'
    BY <1>0, <1>F, <1>C DEF TypeOK, Pending
  <1>2. \A m \in Menu : Remembered(m)' => Remembered(m)
    BY <1>0, <1>F, <1>C DEF Remembered, Menu
  <1>3. Generated' /\ \A m \in Menu : Remembered(m)' /\ m.ref \in Generations => m.gen = m.ref
    BY <1>0, <1>1, <1>2, NamesKept DEF TypeOK
  <1>4. Numbered'
    BY <1>0, <1>3 DEF Numbered
  <1>5. Sections'
    BY <1>0, <1>F DEF Sections
  <1>6. Stopped'
    BY <1>0 DEF Stopped, Idle
  <1>7. Accounted'
    BY <1>0, <1>1, <1>F, <1>C, NothingIsNone DEF Accounted, Idle, TypeOK
  <1>8. LiveMenuIsSafe'
    BY <1>0 DEF LiveMenuIsSafe
  <1>9. PressesHitTheirMenu'
    BY <1>0 DEF PressesHitTheirMenu
  <1> QED BY <1>1, <1>3, <1>4, <1>5, <1>6, <1>7, <1>8, <1>9

LEMMA OpenInv == ASSUME MenuInv, NEW private \in BOOLEAN, Open(private) PROVE MenuInv'
  <1>1. CASE menu = None
    <2> USE DEF MenuInv
    <2>0. /\ op = Idle /\ op.target = Nothing /\ up = "up"
          /\ op'.step = "send" /\ op'.target = Nothing /\ op'.then = "idle"
          /\ op' \in [step : Steps, target : Menu \cup {Nothing}, private : BOOLEAN,
                      then : {"idle", "send", "notice"}]
          /\ UNCHANGED <<shown, rows, menu, expired, cleanup, pressed, last, up, faults, stops, acted>>
      BY <1>1 DEF Open, Idle, memory, Steps
    <2>1. TypeOK'
      BY <2>0 DEF TypeOK
    <2>2. \A m \in Menu : Remembered(m)' => Remembered(m)
      BY <2>0 DEF Remembered
    <2>3. Generated' /\ \A m \in Menu : Remembered(m)' /\ m.ref \in Generations => m.gen = m.ref
      BY <2>0, <2>1, <2>2, NamesKept DEF TypeOK
    <2>4. Numbered'
      BY <2>0, <2>3 DEF Numbered
    <2>5. Sections' /\ Stopped'
      BY <1>1, <2>0 DEF Sections, Stopped
    <2>6. Accounted' /\ LiveMenuIsSafe' /\ PressesHitTheirMenu'
      BY <1>1, <2>0, <2>1 DEF Accounted, LiveMenuIsSafe, PressesHitTheirMenu
    <2> QED BY <2>1, <2>3, <2>4, <2>5, <2>6
  <1>2. CASE menu # None
    BY <1>2, CloseMenuInv DEF Open
  <1> QED BY <1>1, <1>2

LEMMA ClosingInv == ASSUME MenuInv, Close \/ CloseExpired \/ CloseAtShutdown PROVE MenuInv'
  <1>1. /\ op = Idle /\ menu # None /\ CloseMenu(FALSE, "idle")
        /\ UNCHANGED <<shown, rows, pressed, last, up, faults, stops, acted>>
    BY DEF Close, CloseExpired, CloseAtShutdown, Closing
  <1> QED BY <1>1, CloseMenuInv

LEMMA TickInv == ASSUME MenuInv, NEW c \in cleanup, Tick(c) PROVE MenuInv'
  <1> USE DEF MenuInv
  <1> DEFINE m == [ref |-> c.ref, gen |-> c.gen]
  <1>0. /\ m \in Menu /\ m.ref \in RefsOf(cleanup) /\ Remembered(m)
        /\ op = Idle /\ op.target = Nothing /\ op.then = "idle" /\ up # "down"
        /\ BeginDelete(m, FALSE, "idle")
        /\ UNCHANGED <<shown, rows, menu, expired, cleanup, pressed, last, up, faults, stops, acted>>
    BY DEF Tick, TypeOK, Menu, memory, Idle, RefsOf, Remembered
  <1> HIDE DEF m
  <1>F. /\ op'.step = "note" /\ op'.target = m /\ op'.then = "idle" /\ op'.target # Nothing
        /\ op' \in [step : Steps, target : Menu \cup {Nothing}, private : BOOLEAN,
                    then : {"idle", "send", "notice"}]
    BY <1>0, BeginDeleteDoes
  <1>1. TypeOK'
    BY <1>0, <1>F DEF TypeOK
  <1>2. \A n \in Menu : Remembered(n)' => Remembered(n)
    BY <1>0, <1>F DEF Remembered
  <1>3. Generated' /\ \A n \in Menu : Remembered(n)' /\ n.ref \in Generations => n.gen = n.ref
    BY <1>0, <1>1, <1>2, NamesKept DEF TypeOK
  <1>4. Numbered'
    BY <1>0, <1>3 DEF Numbered
  <1>5. Sections'
    BY <1>0, <1>F DEF Sections
  <1>6. Stopped'
    BY <1>0 DEF Stopped
  <1>7. Accounted'
    BY <1>0, <1>1, <1>F, NothingIsNone DEF Accounted, TypeOK
  <1>8. LiveMenuIsSafe'
    BY <1>0, <1>F DEF LiveMenuIsSafe
  <1>9. PressesHitTheirMenu'
    BY <1>0 DEF PressesHitTheirMenu
  <1> QED BY <1>1, <1>3, <1>4, <1>5, <1>6, <1>7, <1>8, <1>9

LEMMA BecomeDueInv == ASSUME MenuInv, NEW c \in cleanup, BecomeDue(c) PROVE MenuInv'
  <1> USE DEF MenuInv
  <1> DEFINE m == [ref |-> c.ref, gen |-> c.gen]
  <1>0. /\ m \in Menu /\ m.ref = c.ref /\ m.gen = c.gen /\ m.ref \in RefsOf(cleanup) /\ Remembered(m)
        /\ op = Idle /\ up # "down"
        /\ UNCHANGED <<shown, rows, menu, expired, op, pressed, last, up, faults, stops, acted>>
    BY DEF BecomeDue, TypeOK, Menu, RefsOf, Remembered
  <1>Q. cleanup' = Queued(m, TRUE)
    BY DEF BecomeDue, Queued
  <1> HIDE DEF m
  <1>C. /\ cleanup' \subseteq Pending
        /\ \A d \in cleanup' : d \in cleanup \/ (d.ref = m.ref /\ d.gen = m.gen)
        /\ RefsOf(cleanup') = RefsOf(cleanup) \cup {m.ref}
    BY <1>0, <1>Q, QueuedDoes
  <1>1. TypeOK'
    BY <1>0, <1>C DEF TypeOK, Pending
  <1>D. \A d \in cleanup' : d \in cleanup \/ [ref |-> d.ref, gen |-> d.gen] = m
    BY <1>0, <1>C DEF Menu
  <1>2. \A n \in Menu : Remembered(n)' => Remembered(n)
    BY <1>0, <1>D DEF Remembered
  <1>3. Generated' /\ \A n \in Menu : Remembered(n)' /\ n.ref \in Generations => n.gen = n.ref
    BY <1>0, <1>1, <1>2, NamesKept DEF TypeOK
  <1>4. Numbered'
    BY <1>0, <1>3 DEF Numbered
  <1>5. Sections' /\ Stopped'
    BY <1>0, <1>C DEF Sections, Stopped
  <1>7. Accounted'
    BY <1>0, <1>1, <1>C DEF Accounted
  <1>8. LiveMenuIsSafe'
    BY <1>0, <1>C DEF LiveMenuIsSafe
  <1>9. PressesHitTheirMenu'
    BY <1>0 DEF PressesHitTheirMenu
  <1> QED BY <1>1, <1>3, <1>4, <1>5, <1>7, <1>8, <1>9

-----------------------------------------------------------------------------
(* Steps of the owner, of time and of the process.                         *)

(* What touches neither the places that remember menus nor the section.    *)
LEMMA QuietInv ==
    ASSUME MenuInv, TypeOK', UNCHANGED <<rows, menu, cleanup, op, last>>, shown' \subseteq shown,
           pressed' # None => pressed' = pressed \/ \E m \in shown : m.gen # 0 /\ pressed' = [ref |-> m.ref, gen |-> m.gen],
           PressesHitTheirMenu', Stopped', up = "down" => up' = "down"
    PROVE  MenuInv'
  <1> USE DEF MenuInv
  <1>2. \A m \in Menu : Remembered(m)' => Remembered(m)
    BY DEF Remembered
  <1>3. Generated' /\ \A m \in Menu : Remembered(m)' /\ m.ref \in Generations => m.gen = m.ref
    BY <1>2, NamesKept DEF TypeOK
  <1>4. Numbered'
    BY <1>3 DEF Numbered
  <1>5. Sections'
    BY DEF Sections, RefsOf
  <1>6. Accounted' /\ LiveMenuIsSafe'
    BY DEF Accounted, LiveMenuIsSafe
  <1> QED BY <1>3, <1>4, <1>5, <1>6

LEMMA OwnerInv == ASSUME MenuInv, Expire \/ PressArrives \/ \E m \in shown : Dismiss(m) \/ Press(m)
                  PROVE  MenuInv'
  <1> USE DEF MenuInv
  <1>1. CASE Expire
    <2>1. TypeOK' /\ PressesHitTheirMenu' /\ Stopped'
      BY <1>1 DEF Expire, TypeOK, PressesHitTheirMenu, Stopped
    <2> QED BY <1>1, <2>1, QuietInv DEF Expire
  <1>2. CASE PressArrives
    <2>1. Accepts(pressed) /\ pressed # None => pressed = menu /\ pressed \in Menu
      <3> SUFFICES ASSUME Accepts(pressed), pressed # None PROVE pressed = menu /\ pressed \in Menu
        OBVIOUS
      <3>1. /\ pressed \in Menu /\ menu \in Menu /\ Remembered(menu) /\ menu.ref = pressed.ref
            /\ pressed.ref \in Ephemerals => menu.gen = pressed.gen
        BY DEF TypeOK, Accepts, Remembered
      <3>2. menu.gen = pressed.gen
        BY <3>1 DEF Numbered, Menu, Refs
      <3> QED BY <3>1, <3>2 DEF Menu
    <2>2. TypeOK'
      BY <1>2, <2>1 DEF PressArrives, TypeOK, memory
    <2>3. PressesHitTheirMenu' /\ Stopped'
      BY <1>2, <2>1 DEF PressArrives, PressesHitTheirMenu, Stopped, memory
    <2> QED BY <1>2, <2>2, <2>3, QuietInv DEF PressArrives, memory
  <1>3. ASSUME NEW m \in shown, Dismiss(m) PROVE MenuInv'
    <2>1. TypeOK' /\ PressesHitTheirMenu' /\ Stopped'
      BY <1>3 DEF Dismiss, TypeOK, PressesHitTheirMenu, Stopped, memory
    <2> QED BY <1>3, <2>1, QuietInv DEF Dismiss, memory
  <1>4. ASSUME NEW m \in shown, Press(m) PROVE MenuInv'
    <2>1. pressed' \in Menu
      BY <1>4 DEF Press, TypeOK, Menu
    <2>2. TypeOK' /\ PressesHitTheirMenu' /\ Stopped'
      BY <1>4, <2>1 DEF Press, TypeOK, PressesHitTheirMenu, Stopped, memory
    <2> QED BY <1>4, <2>2, QuietInv DEF Press, memory
  <1> QED BY <1>1, <1>2, <1>3, <1>4

LEMMA StopInv == ASSUME MenuInv, Stop PROVE MenuInv'
  <1>1. TypeOK' /\ PressesHitTheirMenu' /\ Stopped'
    BY MenuAssumption DEF MenuInv, Stop, TypeOK, PressesHitTheirMenu, Stopped, memory
  <1> QED BY <1>1, QuietInv DEF Stop, memory, MenuInv

(* The process ends, in order or not.                                      *)
LEMMA EndsInv == ASSUME MenuInv, Exit \/ Crash PROVE MenuInv'
  <1> USE DEF MenuInv
  <1>0. Ends /\ stops' \in 0..MaxStops
    BY MenuAssumption DEF Exit, Crash, TypeOK
  <1>F. /\ menu' = None /\ cleanup' = {} /\ op' = Idle /\ up' = "down" /\ expired' = FALSE
        /\ UNCHANGED <<rows, pressed, last, faults, acted>>
        /\ op'.target = Nothing /\ op'.then = "idle" /\ op'.step = "idle"
        /\ op' \in [step : Steps, target : Menu \cup {Nothing}, private : BOOLEAN,
                    then : {"idle", "send", "notice"}]
    BY <1>0 DEF Ends, Idle, Steps
  <1> DEFINE Ended(m) == IF m.known = "unsaved" THEN [m EXCEPT !.known = "lost"] ELSE m
  <1>S. /\ shown' \subseteq Shown
        /\ \A x \in shown' : \E y \in shown : /\ x.ref = y.ref /\ x.gen = y.gen
                                          /\ x.known # "unsaved" /\ x.known \in {y.known, "lost"}
    <2>1. shown' = {Ended(m) : m \in shown}
      BY <1>0 DEF Ends
    <2>2. \A y \in shown : /\ Ended(y) \in Shown /\ Ended(y).ref = y.ref /\ Ended(y).gen = y.gen
                         /\ Ended(y).known # "unsaved" /\ Ended(y).known \in {y.known, "lost"}
      <3> SUFFICES ASSUME NEW y \in Shown
                   PROVE  /\ Ended(y) \in Shown /\ Ended(y).ref = y.ref /\ Ended(y).gen = y.gen
                          /\ Ended(y).known # "unsaved" /\ Ended(y).known \in {y.known, "lost"}
        BY DEF TypeOK, Shown
      <3> QED BY DEF Shown
    <2> HIDE DEF Ended
    <2> QED BY <2>1, <2>2
  <1>1. TypeOK'
    BY <1>0, <1>F, <1>S DEF TypeOK, Shown
  <1>2. \A m \in Menu : Remembered(m)' => Remembered(m)
    BY <1>F DEF Remembered
  <1>3. Generated' /\ \A m \in Menu : Remembered(m)' /\ m.ref \in Generations => m.gen = m.ref
    BY <1>F, <1>1, <1>2, NamesKept DEF TypeOK
  <1>4. Numbered'
    BY <1>F, <1>S, <1>3 DEF Numbered
  <1>5. Sections'
    BY <1>F DEF Sections
  <1>6. Stopped'
    BY <1>F, <1>S DEF Stopped
  <1>7. Accounted'
    BY <1>F, <1>S, <1>1 DEF Accounted
  <1>8. LiveMenuIsSafe' /\ PressesHitTheirMenu'
    BY <1>F DEF LiveMenuIsSafe, PressesHitTheirMenu
  <1> QED BY <1>1, <1>3, <1>4, <1>5, <1>6, <1>7, <1>8

(* The rows are the memory of the process before.                          *)
LEMMA RestartInv == ASSUME MenuInv, Restart PROVE MenuInv'
  <1> USE DEF MenuInv
  <1>0. /\ up = "down" /\ up' = "up" /\ menu = None /\ op = Idle /\ op.target = Nothing /\ op.step = "idle"
        /\ UNCHANGED <<shown, rows, menu, expired, op, pressed, last, faults, stops, acted>>
        /\ \A m \in shown : m.known # "unsaved"
    BY DEF Restart, Stopped, Idle
  <1>C. /\ cleanup' \subseteq Pending
        /\ \A c \in cleanup' : [ref |-> c.ref, gen |-> c.gen] \in rows
        /\ RefsOf(rows) \subseteq RefsOf(cleanup')
    <2>1. PICK due \in SUBSET rows :
             cleanup' = {[ref |-> m.ref, gen |-> m.gen, due |-> m \in due] : m \in rows}
      BY DEF Restart
    <2> DEFINE Entry(m) == [ref |-> m.ref, gen |-> m.gen, due |-> m \in due]
    <2>2. \A m \in rows : /\ Entry(m) \in Pending /\ Entry(m).ref = m.ref
                         /\ [ref |-> Entry(m).ref, gen |-> Entry(m).gen] = m
      <3> SUFFICES ASSUME NEW m \in Menu
                   PROVE  /\ Entry(m) \in Pending /\ Entry(m).ref = m.ref
                          /\ [ref |-> Entry(m).ref, gen |-> Entry(m).gen] = m
        BY DEF TypeOK
      <3> QED BY DEF Menu, Pending
    <2>3. cleanup' = {Entry(m) : m \in rows}
      BY <2>1
    <2> HIDE DEF Entry
    <2>4. RefsOf(rows) \subseteq RefsOf(cleanup')
      BY <2>2, <2>3 DEF RefsOf
    <2> QED BY <2>2, <2>3, <2>4
  <1>1. TypeOK'
    BY <1>0, <1>C DEF TypeOK, Pending
  <1>2. \A m \in Menu : Remembered(m)' => Remembered(m)
    BY <1>0, <1>C DEF Remembered
  <1>3. Generated' /\ \A m \in Menu : Remembered(m)' /\ m.ref \in Generations => m.gen = m.ref
    BY <1>0, <1>1, <1>2, NamesKept DEF TypeOK
  <1>4. Numbered'
    BY <1>0, <1>3 DEF Numbered
  <1>5. Sections' /\ Stopped'
    BY <1>0 DEF Sections, Stopped
  <1>7. Accounted'
    BY <1>0, <1>1, <1>C DEF Accounted, TypeOK
  <1>8. LiveMenuIsSafe' /\ PressesHitTheirMenu'
    BY <1>0 DEF LiveMenuIsSafe, PressesHitTheirMenu
  <1> QED BY <1>1, <1>3, <1>4, <1>5, <1>7, <1>8

-----------------------------------------------------------------------------
(* The posting of messages: a menu, or a note.                             *)

LEMMA PostedInv ==
    ASSUME MenuInv, op.step \in {"send", "notice"}, last < MaxMenus, last' = last + 1,
           UNCHANGED <<rows, menu, expired, pressed, up, stops, acted>>, faults' \in 0..MaxFaults,
           NEW m \in Menu, m.gen = last + 1, m.ref \in Generations => m.ref = last + 1,
           NEW x \in Shown, x.ref = m.ref, x.gen \in {0, m.gen}, x.known # "saved",
           shown' \in {shown, shown \cup {x}},
           cleanup' \subseteq Pending,
           \A c \in cleanup' : c \in cleanup \/ (c.ref = m.ref /\ c.gen = m.gen),
           \A c \in cleanup : c.ref # m.ref => c \in cleanup',
           op' \in [step : Steps, target : Menu \cup {Nothing}, private : BOOLEAN,
                   then : {"idle", "send", "notice"}],
           \/ /\ op'.target = Nothing /\ op'.step \in {"idle", "notice"}
              /\ cleanup' = cleanup /\ x.known = "lost"
           \/ /\ op'.target = m /\ op'.step \in {"store", "noticeStore", "note"}
              /\ op'.step = "store" => m.ref \notin RefsOf(cleanup')
              /\ op'.step = "noticeStore" => m.ref \in RefsOf(cleanup')
    PROVE  MenuInv'
  <1> USE DEF MenuInv
  <1>0. /\ menu = None /\ op.target = Nothing /\ up # "down" /\ m # Nothing
        /\ last \in Nat /\ last + 1 \in 0..MaxMenus
    BY NothingIsNone, MenuAssumption DEF Sections, Stopped, TypeOK, Idle
  <1>1. TypeOK'
    BY <1>0 DEF TypeOK, Pending, Shown
  <1>2. \A n \in Menu : Remembered(n)' => Remembered(n) \/ n = m
    BY <1>0 DEF Remembered, Menu
  <1>3. Generated' /\ \A n \in Menu : Remembered(n)' /\ n.ref \in Generations => n.gen = n.ref
    BY <1>1, <1>2, NewName
  <1>4. Numbered'
    BY <1>3 DEF Numbered
  <1>5. Sections'
    BY <1>0 DEF Sections
  <1>6. Stopped'
    BY <1>0 DEF Stopped
  <1>7. Accounted'
    <2> SUFFICES ASSUME NEW y \in shown', y.known # "lost"
                 PROVE  /\ y.ref \in RefsOf(cleanup') \cup {op'.target.ref}
                        /\ y.known = "saved" => y.ref \in RefsOf(rows)
      BY <1>0, <1>1 DEF Accounted
    <2>1. CASE y \in shown
      <3>1. y.ref \in Refs
        BY <2>1 DEF TypeOK
      <3>2. y.ref \in RefsOf(cleanup) /\ (y.known = "saved" => y.ref \in RefsOf(rows))
        BY <2>1, <1>0, <3>1, NothingIsNone DEF Accounted
      <3> QED BY <3>2 DEF RefsOf
    <2>2. CASE y \notin shown
      BY <2>2
    <2> QED BY <2>1, <2>2
  <1>8. LiveMenuIsSafe' /\ PressesHitTheirMenu'
    BY <1>0 DEF LiveMenuIsSafe, PressesHitTheirMenu
  <1> QED BY <1>1, <1>3, <1>4, <1>5, <1>6, <1>7, <1>8

(* A message that is taken back at once.                                   *)
LEMMA TakenBackDoes ==
    ASSUME TypeOK, Generated, NEW m \in Menu, NEW then \in {"idle", "send", "notice"},
           Remembered(m) \/ m.gen = last + 1, TakenBack(m, then)
    PROVE  /\ op'.step = "note" /\ op'.target = m /\ op'.then = then /\ op'.target # Nothing
           /\ op' \in [step : Steps, target : Menu \cup {Nothing}, private : BOOLEAN,
                   then : {"idle", "send", "notice"}]
           /\ cleanup' \subseteq Pending
           /\ \A c \in cleanup' : c \in cleanup \/ (c.ref = m.ref /\ c.gen = m.gen)
           /\ \A c \in cleanup : c.ref # m.ref => c \in cleanup'
           /\ RefsOf(cleanup') = RefsOf(cleanup) \cup {m.ref}
  BY BeginDeleteDoes, QueuedDoes DEF TakenBack

LEMMA SendInv == ASSUME MenuInv, Send PROVE MenuInv'
  <1> USE DEF MenuInv
  <1> DEFINE g == last + 1
             public == [ref |-> g, gen |-> g]
  <1>0. /\ op.step = "send" /\ op.target = Nothing /\ last < MaxMenus /\ last' = g
        /\ UNCHANGED <<rows, menu, expired, pressed, up, stops, acted>>
        /\ cleanup \subseteq Pending
    BY DEF Send, Sections, TypeOK, Pending
  <1>1. g \in Generations
    BY <1>0, MenuAssumption DEF TypeOK, Generations
  <1>2. /\ public \in Menu /\ public.gen = g /\ public.ref = g
        /\ [ref |-> g, gen |-> g, known |-> "unsaved"] \in Shown
        /\ [ref |-> g, gen |-> g, known |-> "lost"] \in Shown
        /\ [ref |-> g, gen |-> 0, known |-> "unsaved"] \in Shown
    BY <1>1 DEF Menu, Refs, Shown
  <1>3. [op EXCEPT !.step = "notice"] \in [step : Steps, target : Menu \cup {Nothing}, private : BOOLEAN,
                   then : {"idle", "send", "notice"}]
    BY DEF TypeOK, Steps
  <1>4. Idle \in [step : Steps, target : Menu \cup {Nothing}, private : BOOLEAN,
                  then : {"idle", "send", "notice"}]
        /\ Idle.step = "idle" /\ Idle.target = Nothing
    BY DEF Idle, Steps
  <1>5. faults \in 0..MaxFaults /\ (Fault => faults' \in 0..MaxFaults)
    BY MenuAssumption DEF TypeOK, Fault
  <1>6. ASSUME NEW m \in Menu PROVE
          [op EXCEPT !.step = "store", !.target = m] \in [step : Steps, target : Menu \cup {Nothing},
                  private : BOOLEAN, then : {"idle", "send", "notice"}]
          /\ [op EXCEPT !.step = "store", !.target = m].step = "store"
          /\ [op EXCEPT !.step = "store", !.target = m].target = m
    BY <1>6 DEF TypeOK, Steps
  <1>7. ASSUME NEW m \in Menu, cleanup' = Superseded(m.ref) PROVE
          /\ cleanup' \subseteq Pending /\ m.ref \notin RefsOf(cleanup')
          /\ \A c \in cleanup' : c \in cleanup
          /\ \A c \in cleanup : c.ref # m.ref => c \in cleanup'
    BY <1>0, <1>7 DEF Superseded, Without, RefsOf
  <1> HIDE DEF g, public
  <1>a. CASE SendEphemeral
    <2>1. PICK r \in Ephemerals \ RefsOf(shown) :
            LET m == [ref |-> r, gen |-> last + 1]
            IN  \/ /\ Delivered(m, 0, "unsaved")
                   /\ op' = [op EXCEPT !.step = "store", !.target = m]
                   /\ cleanup' = Superseded(r)
                   /\ UNCHANGED faults
                \/ /\ Delivered(m, 0, "lost")
                   /\ Goes("notice")
                   /\ Fault /\ UNCHANGED cleanup
      BY <1>a DEF SendEphemeral
    <2> DEFINE m == [ref |-> r, gen |-> last + 1]
    <2>2. /\ m \in Menu /\ m.ref = r /\ m.gen = last + 1 /\ m.ref \notin Generations
          /\ [ref |-> r, gen |-> 0, known |-> "unsaved"] \in Shown
          /\ [ref |-> r, gen |-> 0, known |-> "lost"] \in Shown
      BY <1>1, MenuAssumption DEF Menu, Refs, Shown, g
    <2>3. CASE /\ Delivered(m, 0, "unsaved")
               /\ op' = [op EXCEPT !.step = "store", !.target = m]
               /\ cleanup' = Superseded(r)
               /\ UNCHANGED faults
      <3>1. shown' = shown \cup {[ref |-> r, gen |-> 0, known |-> "unsaved"]}
        BY <2>3, <2>2 DEF Delivered
      <3> DEFINE x == [ref |-> r, gen |-> 0, known |-> "unsaved"]
      <3>2. x \in Shown /\ x.ref = m.ref /\ x.gen \in {0, m.gen} /\ x.known # "saved" /\ shown' = shown \cup {x}
        BY <2>2, <3>1
      <3> HIDE DEF x, m
      <3>3. /\ op' \in [step : Steps, target : Menu \cup {Nothing}, private : BOOLEAN,
                        then : {"idle", "send", "notice"}]
            /\ op'.step = "store" /\ op'.target = m
        BY <1>6, <2>2, <2>3
      <3>4. /\ cleanup' \subseteq Pending /\ m.ref \notin RefsOf(cleanup')
            /\ \A c \in cleanup' : c \in cleanup
            /\ \A c \in cleanup : c.ref # m.ref => c \in cleanup'
        BY <1>7, <2>2, <2>3
      <3> QED BY <1>0, <1>5, <2>2, <2>3, <3>2, <3>3, <3>4, PostedInv DEF g
    <2>4. CASE Delivered(m, 0, "lost") /\ Goes("notice") /\ Fault /\ UNCHANGED cleanup
      <3>1. shown' = shown \cup {[ref |-> r, gen |-> 0, known |-> "lost"]}
        BY <2>4, <2>2 DEF Delivered
      <3> DEFINE x == [ref |-> r, gen |-> 0, known |-> "lost"]
      <3>2. x \in Shown /\ x.ref = m.ref /\ x.gen \in {0, m.gen} /\ x.known = "lost" /\ shown' = shown \cup {x}
        BY <2>2, <3>1
      <3>3. op'.target = Nothing /\ op'.step = "notice" /\ op' = [op EXCEPT !.step = "notice"]
        BY <1>0, <2>4 DEF Goes, TypeOK
      <3> HIDE DEF x, m
      <3> QED BY <1>0, <1>3, <1>5, <2>2, <2>4, <3>2, <3>3, PostedInv DEF g
    <2> QED BY <2>1, <2>3, <2>4
  <1>b. CASE SendPublic
    <2>3. CASE /\ Delivered(public, g, "unsaved")
               /\ op' = [op EXCEPT !.step = "store", !.target = public]
               /\ cleanup' = Superseded(public.ref)
               /\ UNCHANGED faults
      <3> DEFINE x == [ref |-> g, gen |-> g, known |-> "unsaved"]
      <3>2. x \in Shown /\ x.ref = g /\ x.gen = g /\ x.known # "saved" /\ shown' = shown \cup {x}
        BY <1>2, <2>3 DEF Delivered
      <3> HIDE DEF x
      <3>3. /\ op' \in [step : Steps, target : Menu \cup {Nothing}, private : BOOLEAN,
                        then : {"idle", "send", "notice"}]
            /\ op'.step = "store" /\ op'.target = public
        BY <1>6, <1>2, <2>3
      <3>4. /\ cleanup' \subseteq Pending /\ public.ref \notin RefsOf(cleanup')
            /\ \A c \in cleanup' : c \in cleanup
            /\ \A c \in cleanup : c.ref # public.ref => c \in cleanup'
        BY <1>7, <1>2, <2>3
      <3> QED BY <1>0, <1>2, <1>5, <2>3, <3>2, <3>3, <3>4, PostedInv DEF g
    <2>4. CASE Delivered(public, g, "lost") /\ op' = Idle /\ Fault /\ UNCHANGED cleanup
      <3> DEFINE x == [ref |-> g, gen |-> g, known |-> "lost"]
      <3>2. x \in Shown /\ x.ref = g /\ x.gen = g /\ x.known = "lost" /\ shown' = shown \cup {x}
        BY <1>2, <2>4 DEF Delivered
      <3> HIDE DEF x
      <3> QED BY <1>0, <1>2, <1>4, <1>5, <2>4, <3>2, PostedInv DEF g
    <2> QED BY <1>b, <1>2, <2>3, <2>4 DEF SendPublic, g, public
  <1>c. CASE SendMisplaced
    <2>1. Delivered(public, 0, "unsaved") /\ TakenBack(public, "notice") /\ UNCHANGED faults
      BY <1>c DEF SendMisplaced, g, public
    <2> DEFINE x == [ref |-> g, gen |-> 0, known |-> "unsaved"]
    <2>2. x \in Shown /\ x.ref = g /\ x.gen = 0 /\ x.known = "unsaved" /\ shown' = shown \cup {x}
      BY <1>2, <2>1 DEF Delivered
    <2>3. /\ op'.step = "note" /\ op'.target = public
          /\ op' \in [step : Steps, target : Menu \cup {Nothing}, private : BOOLEAN,
                   then : {"idle", "send", "notice"}]
          /\ cleanup' \subseteq Pending
          /\ \A c \in cleanup' : c \in cleanup \/ (c.ref = public.ref /\ c.gen = public.gen)
          /\ \A c \in cleanup : c.ref # public.ref => c \in cleanup'
      BY <1>2, <2>1, TakenBackDoes DEF g
    <2> HIDE DEF x
    <2> QED BY <1>0, <1>2, <1>5, <2>1, <2>2, <2>3, PostedInv DEF g
  <1>d. CASE SendFails
    <2>1. /\ op' \in [step : Steps, target : Menu \cup {Nothing}, private : BOOLEAN,
                   then : {"idle", "send", "notice"}]
          /\ op'.target = Nothing /\ op'.step \in {"idle", "notice"}
          /\ UNCHANGED <<shown, cleanup>> /\ faults' \in 0..MaxFaults
      BY <1>d, <1>0, <1>3, <1>4, <1>5 DEF SendFails, Goes, TypeOK
    <2> DEFINE x == [ref |-> g, gen |-> g, known |-> "lost"]
    <2>2. x \in Shown /\ x.ref = g /\ x.gen = g /\ x.known = "lost"
      BY <1>2
    <2> HIDE DEF x
    <2> QED BY <1>0, <1>2, <2>1, <2>2, PostedInv DEF g
  <1> QED BY <1>a, <1>b, <1>c, <1>d DEF Send

(* What was posted becomes the menu, goes on, or is taken back.            *)
BecomesMenu(m) == /\ menu' = m /\ expired' = FALSE /\ op' = Idle /\ cleanup' = cleanup

LEMMA OutcomeInv ==
    ASSUME MenuInv, NEW m \in Menu, op.target = m, op.step \in {"store", "draw"},
           m.ref \notin RefsOf(cleanup),
           rows' \subseteq Menu, shown' \subseteq Shown,
           \A n \in rows' : n \in rows \/ n = m,
           RefsOf(rows) \subseteq RefsOf(rows'),
           \A x \in shown' : \E y \in shown :
               /\ x.ref = y.ref
               /\ x.gen = y.gen \/ (x.ref = m.ref /\ x.gen = m.gen)
               /\ x.known = y.known \/ (x.known = "saved" /\ x.ref = m.ref /\ x.ref \in RefsOf(rows')),
           faults' \in 0..MaxFaults,
           UNCHANGED <<pressed, last, up, stops, acted>>,
           \/ BecomesMenu(m) /\ m \in rows'
           \/ /\ op' = [op EXCEPT !.step = "draw"] /\ m \in rows'
              /\ UNCHANGED <<menu, expired, cleanup>>
           \/ /\ \E then \in {"idle", "notice"} : TakenBack(m, then)
              /\ UNCHANGED <<menu, expired>>
    PROVE  MenuInv'
  <1> USE DEF MenuInv
  <1>0. /\ menu = None /\ Remembered(m) /\ up # "down" /\ m # Nothing /\ m.ref \in Refs
        /\ cleanup \subseteq Pending
    BY NothingIsNone DEF Sections, Stopped, Remembered, Idle, Menu, TypeOK, Pending
  <1>I. /\ Idle \in [step : Steps, target : Menu \cup {Nothing}, private : BOOLEAN,
                     then : {"idle", "send", "notice"}]
        /\ Idle.step = "idle" /\ Idle.target = Nothing /\ Idle.then = "idle"
    BY DEF Idle, Steps
  <1>F. /\ op' \in [step : Steps, target : Menu \cup {Nothing}, private : BOOLEAN,
                   then : {"idle", "send", "notice"}]
        /\ \/ BecomesMenu(m) /\ m \in rows' /\ op'.step = "idle" /\ op'.target = Nothing /\ op'.then = "idle"
           \/ /\ op'.step \in {"draw", "note"} /\ op'.target = m /\ menu' = None
              /\ op'.step = "draw" => m \in rows' /\ m.ref \notin RefsOf(cleanup')
        /\ menu' \in {None, m} /\ expired' \in BOOLEAN
        /\ cleanup' \subseteq Pending
        /\ \A c \in cleanup' : c \in cleanup \/ (c.ref = m.ref /\ c.gen = m.gen)
        /\ RefsOf(cleanup) \subseteq RefsOf(cleanup')
    <2>1. CASE BecomesMenu(m) /\ m \in rows'
      BY <1>0, <1>I, <2>1 DEF BecomesMenu
    <2>2. CASE op' = [op EXCEPT !.step = "draw"] /\ m \in rows' /\ UNCHANGED <<menu, expired, cleanup>>
      BY <1>0, <2>2 DEF TypeOK, Steps
    <2>3. ASSUME NEW then \in {"idle", "notice"}, TakenBack(m, then), UNCHANGED <<menu, expired>>
          PROVE  /\ op'.step = "note" /\ op'.target = m /\ op' \in [step : Steps, target : Menu \cup {Nothing}, private : BOOLEAN,
                   then : {"idle", "send", "notice"}]
                 /\ cleanup' \subseteq Pending
                 /\ \A c \in cleanup' : c \in cleanup \/ (c.ref = m.ref /\ c.gen = m.gen)
                 /\ RefsOf(cleanup') = RefsOf(cleanup) \cup {m.ref}
      BY <1>0, <2>3, TakenBackDoes
    <2>4. CASE (\E then \in {"idle", "notice"} : TakenBack(m, then)) /\ UNCHANGED <<menu, expired>>
      BY <1>0, <2>3, <2>4 DEF TypeOK
    <2> QED BY <2>1, <2>2, <2>4
  <1>1. TypeOK'
    BY <1>0, <1>F DEF TypeOK, Pending, Shown
  <1>2. \A n \in Menu : Remembered(n)' => Remembered(n)
    BY <1>0, <1>F DEF Remembered, Menu
  <1>3. Generated' /\ \A n \in Menu : Remembered(n)' /\ n.ref \in Generations => n.gen = n.ref
    BY <1>0, <1>1, <1>2, NamesKept DEF TypeOK
  <1>4. Numbered'
    BY <1>0, <1>3 DEF Numbered
  <1>5. Sections'
    BY <1>0, <1>F DEF Sections
  <1>6. Stopped'
    BY <1>0 DEF Stopped
  <1>7. Accounted'
    <2> SUFFICES ASSUME NEW x \in shown', x.known # "lost"
                 PROVE  /\ x.ref \in RefsOf(cleanup') \cup {op'.target.ref}
                                     \cup (IF menu' = None THEN {} ELSE {menu'.ref})
                        /\ x.known = "saved" => x.ref \in RefsOf(rows')
      BY <1>1 DEF Accounted
    <2>1. CASE x.ref = m.ref
      BY <1>0, <1>F, <2>1, NothingIsNone DEF BecomesMenu, Accounted
    <2>2. CASE x.ref # m.ref
      BY <1>0, <1>F, <2>2 DEF Accounted
    <2> QED BY <2>1, <2>2
  <1>8. LiveMenuIsSafe'
    BY <1>0, <1>F, NothingIsNone DEF LiveMenuIsSafe, BecomesMenu
  <1>9. PressesHitTheirMenu'
    BY DEF PressesHitTheirMenu
  <1> QED BY <1>1, <1>3, <1>4, <1>5, <1>6, <1>7, <1>8, <1>9

LEMMA StoreInv == ASSUME MenuInv, Store PROVE MenuInv'
  <1> USE DEF MenuInv
  <1>0. /\ op.target \in Menu /\ op.step = "store" /\ Stores(op.target)
        /\ op.target.ref \notin RefsOf(cleanup)
        /\ faults' \in 0..MaxFaults
        /\ UNCHANGED <<pressed, last, up, stops, acted>>
    BY MenuAssumption DEF Store, Save, Stores, Sections, TypeOK, Fault
  <1>S. /\ rows' \subseteq Menu /\ shown' \subseteq Shown
        /\ \A n \in rows' : n \in rows \/ n = op.target
        /\ \A n \in rows : n.ref # op.target.ref => n \in rows'
        /\ RefsOf(rows) \subseteq RefsOf(rows')
        /\ \A x \in shown' : \E y \in shown :
               /\ x.ref = y.ref /\ x.gen = y.gen
               /\ x.known = y.known \/ (x.known = "saved" /\ x.ref = op.target.ref /\ x.ref \in RefsOf(rows'))
        /\ RefsOf(shown') = RefsOf(shown)
    BY <1>0, StoresDoes
  <1>1. \/ BecomesMenu(op.target) /\ op.target \in rows'
        \/ /\ op' = [op EXCEPT !.step = "draw"] /\ op.target \in rows'
           /\ UNCHANGED <<menu, expired, cleanup>>
        \/ TakenBack(op.target, "idle") /\ UNCHANGED <<menu, expired>>
    BY DEF Store, Save, Publish, BecomesMenu, Goes, memory
  <1> QED BY <1>0, <1>S, <1>1, OutcomeInv

LEMMA DrawInv == ASSUME MenuInv, Draw PROVE MenuInv'
  <1> USE DEF MenuInv
  <1>0. /\ op.target \in Menu /\ op.step = "draw" /\ op.target.ref \notin RefsOf(cleanup)
        /\ op.target \in rows /\ rows' = rows /\ rows \subseteq Menu
        /\ faults' \in 0..MaxFaults
        /\ UNCHANGED <<pressed, last, up, stops, acted>>
    BY MenuAssumption DEF Draw, Sections, TypeOK, Fault
  <1> DEFINE here == {m \in shown : m.ref = op.target.ref}
             Buttons(m) == [m EXCEPT !.gen = op.target.gen]
             drawn == (shown \ here) \cup {Buttons(m) : m \in here}
  <1>1. /\ shown' \in {shown, drawn}
        /\ \/ BecomesMenu(op.target)
           \/ TakenBack(op.target, "notice") /\ UNCHANGED <<menu, expired>>
    BY DEF Draw, Publish, BecomesMenu
  <1>2. \A m \in here : /\ Buttons(m) \in Shown /\ Buttons(m).ref = m.ref
                       /\ Buttons(m).gen = op.target.gen /\ Buttons(m).known = m.known
    <2> SUFFICES ASSUME NEW m \in Shown
                 PROVE  /\ Buttons(m) \in Shown /\ Buttons(m).ref = m.ref
                        /\ Buttons(m).gen = op.target.gen /\ Buttons(m).known = m.known
      BY DEF TypeOK, Shown
    <2> QED BY <1>0 DEF Shown, Menu
  <1>3. \A m \in here : m \in shown /\ m.ref = op.target.ref
    OBVIOUS
  <1> HIDE DEF Buttons
  <1>4. shown \subseteq Shown
    BY DEF TypeOK, Shown
  <1>5. \A x \in drawn : \E y \in shown :
            /\ x.ref = y.ref
            /\ x.gen = y.gen \/ (x.ref = op.target.ref /\ x.gen = op.target.gen)
            /\ x.known = y.known
    BY <1>2, <1>3
  <1>6. drawn \subseteq Shown
    BY <1>2, <1>4
  <1> HIDE DEF drawn, here
  <1>7. /\ shown' \subseteq Shown
        /\ \A x \in shown' : \E y \in shown :
            /\ x.ref = y.ref
            /\ x.gen = y.gen \/ (x.ref = op.target.ref /\ x.gen = op.target.gen)
            /\ x.known = y.known
    BY <1>1, <1>4, <1>5, <1>6
  <1> QED BY <1>0, <1>1, <1>7, OutcomeInv

(* privateMenuNoticeLocked.                                                *)
LEMMA NoticeInv == ASSUME MenuInv, Notice PROVE MenuInv'
  <1> USE DEF MenuInv
  <1> DEFINE g == last + 1
             m == [ref |-> g, gen |-> g]
  <1>0. /\ op.step = "notice" /\ op.target = Nothing /\ up # "down" /\ menu = None
        /\ UNCHANGED <<rows, menu, expired, pressed, up, stops, acted>>
        /\ cleanup \subseteq Pending /\ last \in Nat /\ MaxMenus \in Nat /\ last \in 0..MaxMenus
        /\ faults' \in 0..MaxFaults
    <2>1. /\ op.step = "notice" /\ op.target = Nothing /\ up # "down" /\ menu = None
      BY DEF Notice, Sections, Stopped, Idle
    <2>2. UNCHANGED <<rows, menu, expired, pressed, up, stops, acted>> /\ (UNCHANGED faults \/ Fault)
      BY DEF Notice
    <2>3. faults' \in 0..MaxFaults
      BY <2>2, MenuAssumption DEF TypeOK, Fault
    <2>4. cleanup \subseteq Pending /\ last \in Nat /\ MaxMenus \in Nat /\ last \in 0..MaxMenus
      BY MenuAssumption DEF TypeOK, Pending
    <2> QED BY <2>1, <2>2, <2>3, <2>4
  <1>I. /\ Idle \in [step : Steps, target : Menu \cup {Nothing}, private : BOOLEAN,
                     then : {"idle", "send", "notice"}]
        /\ Idle.step = "idle" /\ Idle.target = Nothing /\ Idle.then = "idle"
    BY DEF Idle, Steps
  <1>a. CASE last = MaxMenus
    <2>a. ~(last < MaxMenus)
      BY <1>0, <1>a
    <2>0. last' = last /\ op' = Idle /\ UNCHANGED <<shown, cleanup>>
      BY <2>a, Zenon DEF Notice
    <2>1. TypeOK'
      BY <1>0, <1>I, <2>0 DEF TypeOK
    <2>2. \A n \in Menu : Remembered(n)' => Remembered(n)
      BY <1>0, <1>I, <2>0 DEF Remembered
    <2>3. Generated' /\ \A n \in Menu : Remembered(n)' /\ n.ref \in Generations => n.gen = n.ref
      BY <1>0, <2>0, <2>1, <2>2, NamesKept
    <2>4. Numbered'
      BY <1>0, <2>0, <2>3 DEF Numbered
    <2>5. Sections' /\ Stopped'
      BY <1>0, <1>I, <2>0 DEF Sections, Stopped
    <2>6. Accounted' /\ LiveMenuIsSafe' /\ PressesHitTheirMenu'
      BY <1>0, <1>I, <2>0, <2>1 DEF Accounted, LiveMenuIsSafe, PressesHitTheirMenu
    <2> QED BY <2>1, <2>3, <2>4, <2>5, <2>6
  <1>b. CASE last # MaxMenus
    <2>0. last < MaxMenus /\ last' = last + 1 /\ g = last + 1
      BY <1>0, <1>b DEF Notice
    <2>1. g \in Generations
      BY <1>0, <2>0 DEF Generations
    <2>2. /\ m \in Menu /\ m.gen = g /\ m.ref = g
          /\ [ref |-> g, gen |-> 0, known |-> "unsaved"] \in Shown
          /\ [ref |-> g, gen |-> 0, known |-> "lost"] \in Shown
      BY <2>1 DEF Menu, Refs, Shown
    <2>3. CASE /\ Delivered(m, 0, "unsaved")
               /\ op' = [op EXCEPT !.step = "noticeStore", !.target = m]
               /\ cleanup' = Queued(m, FALSE)
      <3> DEFINE x == [ref |-> g, gen |-> 0, known |-> "unsaved"]
      <3>1. x \in Shown /\ x.ref = g /\ x.gen = 0 /\ x.known = "unsaved" /\ shown' = shown \cup {x}
        BY <2>2, <2>3 DEF Delivered
      <3> HIDE DEF x, g, m
      <3>2. /\ op' \in [step : Steps, target : Menu \cup {Nothing}, private : BOOLEAN,
                   then : {"idle", "send", "notice"}]
            /\ op'.step = "noticeStore" /\ op'.target = m
        BY <2>2, <2>3 DEF TypeOK, Steps
      <3>3. /\ cleanup' \subseteq Pending /\ m.ref \in RefsOf(cleanup')
            /\ \A c \in cleanup' : c \in cleanup \/ (c.ref = m.ref /\ c.gen = m.gen)
            /\ \A c \in cleanup : c.ref # m.ref => c \in cleanup'
        BY <2>0, <2>2, <2>3, QueuedDoes
      <3> QED BY <1>0, <2>0, <2>2, <3>1, <3>2, <3>3, PostedInv
    <2>4. CASE (Delivered(m, 0, "lost") \/ UNCHANGED shown) /\ op' = Idle /\ UNCHANGED cleanup
      <3> DEFINE x == [ref |-> g, gen |-> 0, known |-> "lost"]
      <3>1. x \in Shown /\ x.ref = g /\ x.gen = 0 /\ x.known = "lost" /\ shown' \in {shown, shown \cup {x}}
        BY <2>2, <2>4 DEF Delivered
      <3> HIDE DEF x, g, m
      <3> QED BY <1>0, <1>I, <2>0, <2>2, <2>4, <3>1, PostedInv
    <2> QED BY <1>b, <2>3, <2>4 DEF Notice
  <1> QED BY <1>a, <1>b

LEMMA NoticeStoreInv == ASSUME MenuInv, NoticeStore PROVE MenuInv'
  <1> USE DEF MenuInv
  <1>0. /\ op.target \in Menu /\ op.target # Nothing /\ Remembered(op.target) /\ Stores(op.target)
        /\ op.step = "noticeStore" /\ menu = None /\ op.target.ref \in RefsOf(cleanup)
        /\ faults' \in 0..MaxFaults
        /\ UNCHANGED <<menu, expired, cleanup, pressed, last, up, stops, acted>>
    <2>1. /\ op.target \in Menu /\ op.target # Nothing /\ Remembered(op.target)
          /\ op.step = "noticeStore" /\ menu = None /\ op.target.ref \in RefsOf(cleanup)
      BY DEF NoticeStore, Sections, Remembered, TypeOK
    <2>2. Stores(op.target) /\ (UNCHANGED faults \/ Fault)
      BY DEF NoticeStore, Save, Stores
    <2>3. faults' \in 0..MaxFaults
      BY <2>2, MenuAssumption DEF TypeOK, Fault
    <2> QED BY <2>1, <2>2, <2>3 DEF NoticeStore, memory
  <1>S. /\ rows' \subseteq Menu /\ shown' \subseteq Shown
        /\ \A n \in rows' : n \in rows \/ n = op.target
        /\ \A n \in rows : n.ref # op.target.ref => n \in rows'
        /\ RefsOf(rows) \subseteq RefsOf(rows')
        /\ \A x \in shown' : \E y \in shown :
               /\ x.ref = y.ref /\ x.gen = y.gen
               /\ x.known = y.known \/ (x.known = "saved" /\ x.ref = op.target.ref /\ x.ref \in RefsOf(rows'))
        /\ RefsOf(shown') = RefsOf(shown)
    BY <1>0, StoresDoes
  <1>I. /\ Idle \in [step : Steps, target : Menu \cup {Nothing}, private : BOOLEAN,
                     then : {"idle", "send", "notice"}]
        /\ Idle.step = "idle" /\ Idle.target = Nothing /\ Idle.then = "idle"
    BY DEF Idle, Steps
  <1>F. /\ op' \in [step : Steps, target : Menu \cup {Nothing}, private : BOOLEAN,
                   then : {"idle", "send", "notice"}]
        /\ \/ op'.step = "idle" /\ op'.target = Nothing
           \/ op'.step = "note" /\ op'.target = op.target
    <2>1. op' = Idle \/ BeginDelete(op.target, FALSE, "idle")
      BY DEF NoticeStore, Save
    <2> QED BY <1>0, <1>I, <2>1, BeginDeleteDoes
  <1>1. TypeOK'
    BY <1>0, <1>S, <1>F DEF TypeOK, Shown
  <1>2. \A m \in Menu : Remembered(m)' => Remembered(m)
    BY <1>0, <1>S, <1>F DEF Remembered
  <1>3. Generated' /\ \A m \in Menu : Remembered(m)' /\ m.ref \in Generations => m.gen = m.ref
    BY <1>0, <1>1, <1>2, NamesKept DEF TypeOK
  <1>4. Numbered'
    BY <1>0, <1>S, <1>3 DEF Numbered
  <1>5. Sections'
    BY <1>0, <1>F DEF Sections
  <1>6. Stopped'
    BY <1>0 DEF Stopped, Idle
  <1>7. Accounted'
    BY <1>0, <1>1, <1>S, <1>F DEF Accounted
  <1>8. LiveMenuIsSafe' /\ PressesHitTheirMenu'
    BY <1>0 DEF LiveMenuIsSafe, PressesHitTheirMenu
  <1> QED BY <1>1, <1>3, <1>4, <1>5, <1>6, <1>7, <1>8

-----------------------------------------------------------------------------
LEMMA InitInv == Init => MenuInv
  <1> SUFFICES ASSUME Init PROVE MenuInv
    OBVIOUS
  <1>1. /\ Idle \in [step : Steps, target : Menu \cup {Nothing}, private : BOOLEAN,
                     then : {"idle", "send", "notice"}]
        /\ Idle.step = "idle" /\ Idle.target = Nothing /\ Idle.then = "idle"
    BY DEF Idle, Steps
  <1>2. TypeOK
    <2>1. faults \in 0..MaxFaults /\ stops \in 0..MaxStops /\ last \in 0..MaxMenus
      BY MenuAssumption DEF Init
    <2> QED BY <1>1, <2>1 DEF Init, TypeOK
  <1>3. \A m \in Menu : ~Remembered(m)
    BY <1>1 DEF Init, Remembered
  <1>4. Generated /\ Numbered /\ Sections /\ Stopped
    BY <1>1, <1>3 DEF Init, Generated, Numbered, Sections, Stopped
  <1>5. Accounted /\ LiveMenuIsSafe /\ PressesHitTheirMenu
    BY <1>2 DEF Init, Accounted, LiveMenuIsSafe, PressesHitTheirMenu
  <1> QED BY <1>2, <1>4, <1>5 DEF MenuInv

LEMMA StutterInv == ASSUME MenuInv, UNCHANGED vars PROVE MenuInv'
  <1>1. TypeOK' /\ PressesHitTheirMenu' /\ Stopped'
    BY DEF MenuInv, vars, memory, TypeOK, PressesHitTheirMenu, Stopped
  <1> QED BY <1>1, QuietInv DEF MenuInv, vars, memory

LEMMA NextInv == MenuInv /\ [Next]_vars => MenuInv'
  <1> SUFFICES ASSUME MenuInv, [Next]_vars PROVE MenuInv'
    OBVIOUS
  <1>1. ASSUME NEW private \in BOOLEAN, Open(private) PROVE MenuInv'
    BY <1>1, OpenInv
  <1>2. CASE Section
    BY <1>2, NoteInv, DeleteInv, ForgetInv, RenoteInv, SendInv, StoreInv, DrawInv, NoticeInv, NoticeStoreInv
       DEF Section
  <1>3. CASE Close \/ CloseExpired \/ CloseAtShutdown
    BY <1>3, ClosingInv
  <1>4. ASSUME NEW c \in cleanup, BecomeDue(c) \/ Tick(c) PROVE MenuInv'
    BY <1>4, BecomeDueInv, TickInv
  <1>5. CASE Expire \/ PressArrives \/ \E m \in shown : Dismiss(m) \/ Press(m)
    BY <1>5, OwnerInv
  <1>6. CASE Stop \/ Exit \/ Crash \/ Restart
    BY <1>6, StopInv, EndsInv, RestartInv
  <1>7. CASE UNCHANGED vars
    BY <1>7, StutterInv
  <1> QED BY <1>1, <1>2, <1>3, <1>4, <1>5, <1>6, <1>7 DEF Next

(* The invariant holds in every reachable state, for any number of menus,  *)
(* identities, failures and ends of the process (menu_sessions.go).        *)
THEOREM MenuInvariant == Spec => []MenuInv
  BY InitInv, NextInv, PTL DEF Spec

(* No message that the bot could know of is forgotten, by the process or,  *)
(* once a row was stored, by the database (menu_sessions.go:71-115).       *)
THEOREM AccountedAlways == Spec => []Accounted
  <1>1. MenuInv => Accounted
    BY DEF MenuInv
  <1> QED BY <1>1, MenuInvariant, PTL

(* No pending deletion can hit the live menu (menu_sessions.go:93-98).     *)
THEOREM LiveMenuIsSafeAlways == Spec => []LiveMenuIsSafe
  <1>1. MenuInv => LiveMenuIsSafe
    BY DEF MenuInv
  <1> QED BY <1>1, MenuInvariant, PTL

(* A press acts on the menu whose button was pressed                       *)
(* (NormalizeMenuCallback, menu_sessions.go:332-400).                      *)
THEOREM PressesHitTheirMenuAlways == Spec => []PressesHitTheirMenu
  <1>1. MenuInv => PressesHitTheirMenu
    BY DEF MenuInv
  <1> QED BY <1>1, MenuInvariant, PTL
=============================================================================
