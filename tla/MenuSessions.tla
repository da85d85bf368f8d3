---------------------------- MODULE MenuSessions ----------------------------
(***************************************************************************)
(* The service menus of one owner and their deletion:                      *)
(* handlers/menu_sessions.go and the table menu_cleanup.                   *)
(*                                                                         *)
(* An owner has at most one menu.  Whatever the bot posts for it must      *)
(* disappear later, through failed calls, lost answers and restarts.  The  *)
(* identity of a message of a group seen by its owner alone (an ephemeral  *)
(* message) may be used again once that message is gone, so every menu     *)
(* also has a random generation: here the number of the menu.  menusMu     *)
(* admits one critical section at a time; op says where it stands.         *)
(***************************************************************************)
EXTENDS Naturals

CONSTANTS
    Ephemerals, \* the identities of ephemeral messages
    None,       \* no menu, no press
    MaxMenus,   \* bound: messages that the bot posts
    MaxFaults,  \* bound: calls of Telegram and PostgreSQL that fail
    MaxStops    \* bound: crashes and orderly stops

VARIABLES
    shown,   \* the messages on the owner's screen: the generation of their buttons and,
             \* as history, whether a row of them was ever stored, or their identity is
             \* lost: it never reached the bot, or a stop came before the row
    rows,    \* menu_cleanup
    menu,    \* the owner's entry of menus, userState and editMessages
    expired, \* the menu has not been used for the time of an edit session
    cleanup, \* menuCleanup: due says that the deadline has passed
    op,      \* the critical section that runs
    pressed, \* a press of a button on its way to the bot
    last,    \* the generations drawn so far
    up,      \* the process: "up", "stopping" (Shutdown has begun) or "down"
    faults, stops, \* failures and stops left
    acted    \* history: the press that was carried out, and the menu it changed

memory == <<menu, expired, cleanup>>
vars == <<shown, rows, memory, op, pressed, last, up, faults, stops, acted>>

-----------------------------------------------------------------------------
Generations == 1..MaxMenus

(* A message of a chat gets an identity of its own: the number of its      *)
(* generation.                                                             *)
Refs == Generations \cup Ephemerals
Menu == [ref : Refs, gen : Generations]

ASSUME MenuAssumption ==
    /\ {MaxMenus, MaxFaults, MaxStops} \subseteq Nat
    /\ Ephemerals \cap Generations = {} /\ None \notin Refs \cup Menu

Nothing == [ref |-> None, gen |-> 0]
Idle == [step |-> "idle", target |-> Nothing, private |-> FALSE, then |-> "idle"]
Deleting == {"note", "delete", "forget", "renote"}
Steps == {"idle", "send", "store", "draw", "notice", "noticeStore"} \cup Deleting

TypeOK ==
    /\ shown \subseteq [ref : Refs, gen : {0} \cup Generations, known : {"unsaved", "saved", "lost"}]
    /\ rows \subseteq Menu
    /\ menu \in Menu \cup {None} /\ expired \in BOOLEAN
    /\ cleanup \subseteq [ref : Refs, gen : Generations, due : BOOLEAN]
    /\ op \in [step : Steps, target : Menu \cup {Nothing}, private : BOOLEAN,
               then : {"idle", "send", "notice"}]
    /\ pressed \in Menu \cup {None}
    /\ last \in 0..MaxMenus /\ up \in {"up", "stopping", "down"}
    /\ faults \in 0..MaxFaults /\ stops \in 0..MaxStops
    /\ acted \in {None} \cup [press : Menu, menu : Menu]

Init ==
    /\ shown = {} /\ rows = {} /\ menu = None /\ expired = FALSE /\ cleanup = {}
    /\ op = Idle /\ pressed = None /\ last = 0 /\ up = "up"
    /\ faults = MaxFaults /\ stops = MaxStops
    /\ acted = None

RefsOf(S) == {m.ref : m \in S}
Without(S, r) == {m \in S : m.ref # r}
Fault == faults > 0 /\ faults' = faults - 1

(* queueMenuCleanupLocked.                                                 *)
Queued(m, due) == {c \in cleanup : c.gen # m.gen} \cup {[ref |-> m.ref, gen |-> m.gen, due |-> due]}

(* SaveMenuCleanup: the row of an identity takes over the new generation.  *)
(* The call may fail, before or after the row is stored.                   *)
Save(m, success, failure) ==
    \/ /\ rows' = Without(rows, m.ref) \cup {m}
       /\ shown' = {IF x.ref = m.ref THEN [x EXCEPT !.known = "saved"] ELSE x : x \in shown}
       /\ \/ success /\ UNCHANGED faults
          \/ failure /\ Fault
    \/ failure /\ Fault /\ UNCHANGED <<rows, shown>>

-----------------------------------------------------------------------------
(* deleteMenuLocked: the row is stored, the message deleted, the row and   *)
(* the entry removed; then the caller goes on.                             *)

BeginDelete(m, private, then) ==
    op' = [step |-> "note", target |-> m, private |-> private, then |-> then]
Goes(step) == op' = [op EXCEPT !.step = step]
Finish == op' = IF op.then = "idle" THEN Idle
                ELSE [Idle EXCEPT !.step = op.then, !.private = op.private]

(* Its error is only logged.                                               *)
Note ==
    /\ op.step = "note"
    /\ Goes("delete") /\ Save(op.target, TRUE, TRUE)
    /\ UNCHANGED <<memory, pressed, last, up, stops, acted>>

(* scheduleMenuRetryLocked.                                                *)
Retry == Goes("renote") /\ cleanup' = Queued(op.target, FALSE)

(* Telegram says that the message is deleted or is not there; or the call  *)
(* fails, and the message may be gone nevertheless.                        *)
Delete ==
    /\ op.step = "delete"
    /\ \/ /\ shown' = Without(shown, op.target.ref)
          /\ Goes("forget") /\ UNCHANGED <<cleanup, faults>>
       \/ /\ shown' \in {shown, Without(shown, op.target.ref)}
          /\ Retry /\ Fault
    /\ UNCHANGED <<rows, menu, expired, pressed, last, up, stops, acted>>

(* DeleteMenuCleanup by the generation; an error leaves the entry.         *)
Forget ==
    /\ op.step = "forget"
    /\ LET kept == {m \in rows : m.gen # op.target.gen}
       IN  \/ /\ rows' = kept
              /\ cleanup' = {c \in cleanup : c.gen # op.target.gen}
              /\ Finish /\ UNCHANGED faults
           \/ /\ rows' \in {rows, kept}
              /\ Retry /\ Fault
    /\ UNCHANGED <<shown, menu, expired, pressed, last, up, stops, acted>>

Renote ==
    /\ op.step = "renote"
    /\ Finish /\ Save(op.target, TRUE, TRUE)
    /\ UNCHANGED <<memory, pressed, last, up, stops, acted>>

Delivered(m, buttons, known) ==
    shown' = shown \cup {[ref |-> m.ref, gen |-> buttons, known |-> known]}

-----------------------------------------------------------------------------
(* sendMenu.                                                               *)

(* closeMenuLocked: the owner has no menu from now on.                     *)
CloseMenu(private, then) ==
    /\ menu' = None /\ expired' = FALSE
    /\ cleanup' = Queued(menu, TRUE)
    /\ BeginDelete(menu, private, then)

(* The menu before this one is closed first; its failure is only logged.   *)
Open(private) ==
    /\ up = "up" /\ op = Idle /\ last < MaxMenus
    /\ IF menu = None
       THEN /\ op' = [Idle EXCEPT !.step = "send", !.private = private]
            /\ UNCHANGED memory
       ELSE CloseMenu(private, "send")
    /\ UNCHANGED <<shown, rows, pressed, last, up, faults, stops, acted>>

(* Mutant: pending deletions stay.                                         *)
SupersedesNothing(r) == cleanup

(* A new generation takes its identity over from pending deletions.        *)
Superseded(r) == Without(cleanup, r)

(* Mutant: the handler returns with the error.                             *)
LeftBehind(m, then) ==
    op' = (IF then = "idle" THEN Idle ELSE [Idle EXCEPT !.step = then]) /\ UNCHANGED cleanup

(* A message that cannot become a menu is deleted at once.                 *)
TakenBack(m, then) == cleanup' = Queued(m, TRUE) /\ BeginDelete(m, FALSE, then)

(* Telegram answers the private menu of a group with an ephemeral message  *)
(* that has no buttons yet, and any other menu with a message of the chat. *)
SendEphemeral ==
    /\ op.private
    /\ \E r \in Ephemerals \ RefsOf(shown) :
          LET m == [ref |-> r, gen |-> last + 1]
          IN  \/ /\ Delivered(m, 0, "unsaved")
                 /\ op' = [op EXCEPT !.step = "store", !.target = m]
                 /\ cleanup' = Superseded(r)
                 /\ UNCHANGED faults
              \/ /\ Delivered(m, 0, "lost")
                 /\ Goes("notice")
                 /\ Fault /\ UNCHANGED cleanup

SendPublic ==
    /\ ~op.private
    /\ LET m == [ref |-> last + 1, gen |-> last + 1]
       IN  \/ /\ Delivered(m, m.gen, "unsaved")
              /\ op' = [op EXCEPT !.step = "store", !.target = m]
              /\ cleanup' = Superseded(m.ref)
              /\ UNCHANGED faults
           \/ /\ Delivered(m, m.gen, "lost")
              /\ op' = Idle
              /\ Fault /\ UNCHANGED cleanup

(* An older Telegram API posts a private menu's opening text to the chat;  *)
(* it is deleted at once.                                                  *)
SendMisplaced ==
    /\ op.private
    /\ LET m == [ref |-> last + 1, gen |-> last + 1]
       IN  /\ Delivered(m, 0, "unsaved")
           /\ TakenBack(m, "notice")
    /\ UNCHANGED faults

SendFails ==
    /\ IF op.private THEN Goes("notice") ELSE op' = Idle
    /\ Fault /\ UNCHANGED <<shown, cleanup>>

Send ==
    /\ op.step = "send" /\ last < MaxMenus
    /\ last' = last + 1
    /\ SendEphemeral \/ SendPublic \/ SendMisplaced \/ SendFails
    /\ UNCHANGED <<rows, menu, expired, pressed, up, stops, acted>>

Publish(m) == menu' = m /\ expired' = FALSE /\ op' = Idle

(* A menu whose row cannot be stored is taken back.                        *)
Store ==
    /\ op.step = "store"
    /\ Save(op.target,
            IF op.private THEN Goes("draw") /\ UNCHANGED memory
            ELSE Publish(op.target) /\ UNCHANGED cleanup,
            TakenBack(op.target, "idle") /\ UNCHANGED <<menu, expired>>)
    /\ UNCHANGED <<pressed, last, up, stops, acted>>

(* The private menu gets its text and its buttons.                         *)
Draw ==
    /\ op.step = "draw"
    /\ LET here == {m \in shown : m.ref = op.target.ref}
           drawn == (shown \ here) \cup {[m EXCEPT !.gen = op.target.gen] : m \in here}
       IN  \/ /\ here # {}
              /\ shown' = drawn
              /\ Publish(op.target) /\ UNCHANGED <<cleanup, faults>>
           \/ /\ shown' \in {shown, drawn}
              /\ TakenBack(op.target, "notice")
              /\ IF here # {} THEN Fault ELSE UNCHANGED faults
              /\ UNCHANGED <<menu, expired>>
    /\ UNCHANGED <<rows, pressed, last, up, stops, acted>>

(* privateMenuNoticeLocked: a note in the chat, deleted later as well.     *)
Notice ==
    /\ op.step = "notice"
    /\ last' = IF last < MaxMenus THEN last + 1 ELSE last
    /\ LET m == [ref |-> last + 1, gen |-> last + 1]
       IN  \/ /\ last < MaxMenus
              /\ Delivered(m, 0, "unsaved")
              /\ op' = [op EXCEPT !.step = "noticeStore", !.target = m]
              /\ cleanup' = Queued(m, FALSE)
              /\ UNCHANGED faults
           \/ /\ last < MaxMenus
              /\ Delivered(m, 0, "lost") \/ UNCHANGED shown
              /\ op' = Idle
              /\ Fault /\ UNCHANGED cleanup
           \/ /\ last = MaxMenus
              /\ op' = Idle
              /\ UNCHANGED <<shown, cleanup, faults>>
    /\ UNCHANGED <<rows, menu, expired, pressed, up, stops, acted>>

NoticeStore ==
    /\ op.step = "noticeStore"
    /\ Save(op.target, op' = Idle, BeginDelete(op.target, FALSE, "idle"))
    /\ UNCHANGED <<memory, pressed, last, up, stops, acted>>

-----------------------------------------------------------------------------
(* The end of a menu.                                                      *)

(* LeaveEditSchedule, LeaveEditConfig, LeaveModeration, a permission that  *)
(* was withdrawn; isExpiredUserEditSes and refreshModerationSession for a  *)
(* menu that has expired; ShutdownMenuCleanup for every menu.              *)
Closing(cause) ==
    /\ cause /\ op = Idle /\ menu # None
    /\ CloseMenu(FALSE, "idle")
    /\ UNCHANGED <<shown, rows, pressed, last, up, faults, stops, acted>>
Close == Closing(up = "up")
CloseExpired == Closing(up # "down" /\ expired)
CloseAtShutdown == Closing(up = "stopping")

Expire == /\ up # "down" /\ menu # None /\ ~expired
          /\ expired' = TRUE
          /\ UNCHANGED <<shown, rows, menu, cleanup, op, pressed, last, up, faults, stops, acted>>

BecomeDue(c) ==
    /\ up # "down" /\ c \in cleanup /\ ~c.due /\ op = Idle
    /\ cleanup' = Queued(c, TRUE)
    /\ UNCHANGED <<shown, rows, menu, expired, op, pressed, last, up, faults, stops, acted>>

(* retryMenuCleanupLocked, one entry at a time.                            *)
Tick(c) ==
    /\ up # "down" /\ op = Idle
    /\ c \in cleanup /\ c.due
    /\ BeginDelete([ref |-> c.ref, gen |-> c.gen], FALSE, "idle")
    /\ UNCHANGED <<shown, rows, memory, pressed, last, up, faults, stops, acted>>

-----------------------------------------------------------------------------
(* The owner: a message may be removed by hand, a button pressed; the      *)
(* press arrives later.                                                    *)
Dismiss(m) == /\ shown' = shown \ {m}
              /\ UNCHANGED <<rows, memory, op, pressed, last, up, faults, stops, acted>>

Press(m) == /\ pressed = None /\ m.gen # 0
            /\ pressed' = [ref |-> m.ref, gen |-> m.gen] /\ acted' = None
            /\ UNCHANGED <<shown, rows, memory, op, last, up, faults, stops>>

(* Mutant: the generation is not compared.                                 *)
AcceptsIdentity(p) == menu # None /\ ~expired /\ menu.ref = p.ref

(* NormalizeMenuCallback and menuCallbackMatches: the identity must be the *)
(* menu's and, for an ephemeral message, the generation too.               *)
Accepts(p) ==
    /\ menu # None /\ ~expired
    /\ menu.ref = p.ref
    /\ p.ref \in Ephemerals => menu.gen = p.gen

PressArrives ==
    /\ up = "up" /\ pressed # None /\ op = Idle
    /\ acted' = IF Accepts(pressed) THEN [press |-> pressed, menu |-> menu] ELSE None
    /\ pressed' = None
    /\ UNCHANGED <<shown, rows, memory, op, last, up, faults, stops>>

-----------------------------------------------------------------------------
(* Handler.Shutdown: the dispatcher has finished its actions.              *)
Stop == /\ up = "up" /\ op = Idle /\ stops > 0
        /\ up' = "stopping" /\ stops' = stops - 1
        /\ UNCHANGED <<shown, rows, memory, op, pressed, last, faults, acted>>

Ends == /\ up' = "down"
        /\ menu' = None /\ expired' = FALSE /\ cleanup' = {} /\ op' = Idle
        /\ shown' = {IF m.known = "unsaved" THEN [m EXCEPT !.known = "lost"] ELSE m : m \in shown}
        /\ UNCHANGED <<rows, pressed, last, faults, acted>>
Exit == up = "stopping" /\ op = Idle /\ menu = None /\ Ends /\ UNCHANGED stops
Crash == up # "down" /\ stops > 0 /\ Ends /\ stops' = stops - 1

(* Mutant: only the rows that are due are taken over.                      *)
RestartOverdue ==
    /\ up = "down" /\ up' = "up"
    /\ \E due \in SUBSET rows : cleanup' = {[ref |-> m.ref, gen |-> m.gen, due |-> TRUE] : m \in due}
    /\ UNCHANGED <<shown, rows, menu, expired, op, pressed, last, faults, stops, acted>>

(* BootstrapMenuCleanup: the deadlines of the rows may have passed or not. *)
Restart ==
    /\ up = "down" /\ up' = "up"
    /\ \E due \in SUBSET rows :
          cleanup' = {[ref |-> m.ref, gen |-> m.gen, due |-> m \in due] : m \in rows}
    /\ UNCHANGED <<shown, rows, menu, expired, op, pressed, last, faults, stops, acted>>

Section == Note \/ Delete \/ Forget \/ Renote \/ Send \/ Store \/ Draw \/ Notice \/ NoticeStore

Next ==
    \/ \E private \in BOOLEAN : Open(private)
    \/ Section
    \/ Close \/ CloseExpired \/ CloseAtShutdown \/ Expire
    \/ \E c \in cleanup : BecomeDue(c) \/ Tick(c)
    \/ \E m \in shown : Dismiss(m) \/ Press(m)
    \/ PressArrives
    \/ Stop \/ Exit \/ Crash \/ Restart

Spec == Init /\ [][Next]_vars

(* A critical section goes on; the tickers of expired menus and of pending *)
(* deletions come again; deadlines pass; a shutdown ends and the process   *)
(* is started again.                                                       *)
FairSpec ==
    /\ Spec
    /\ WF_vars(Section)
    /\ WF_vars(CloseExpired) /\ WF_vars(CloseAtShutdown)
    /\ WF_vars(\E c \in cleanup : BecomeDue(c)) /\ WF_vars(\E c \in cleanup : Tick(c))
    /\ WF_vars(Exit) /\ WF_vars(Restart)

-----------------------------------------------------------------------------
(* No message is forgotten (menu_sessions.go:71-115, 272-314): as long as  *)
(* the process runs, a message on the screen is the live menu, waits for   *)
(* its deletion or is being worked on; and the database has a row for it   *)
(* unless no call could store one.  Only a message whose identity never    *)
(* reached the bot, or was in no row when the process ended, is excepted.  *)
Accounted ==
    /\ TypeOK
    /\ \A m \in shown : m.known # "lost" =>
          /\ up # "down" => m.ref \in RefsOf(cleanup) \cup {op.target.ref}
                                      \cup (IF menu = None THEN {} ELSE {menu.ref})
          /\ m.known = "saved" => m.ref \in RefsOf(rows)

(* No pending deletion can hit the live menu (menu_sessions.go:93-98, and *)
(* the key of menu_cleanup): whatever generations used its identity        *)
(* before, memory and database hold nothing for it but its own row.        *)
LiveMenuIsSafe ==
    menu # None => /\ menu \in rows
                   /\ menu.ref \notin RefsOf(cleanup) \cup {op.target.ref}

(* A press acts on the menu whose button was pressed, even when it arrives *)
(* after that menu was replaced by one with the same identity              *)
(* (NormalizeMenuCallback, menu_sessions.go:338-400).                      *)
PressesHitTheirMenu == acted # None => acted.press = acted.menu

(* Every message that is not in use disappears at last: the menus that     *)
(* were left, replaced, expired or taken back, the notes, and those of a   *)
(* process that ended (menu_sessions.go:272-314, 402-506).                 *)
Abandoned(r) ==
    /\ \E m \in shown : m.ref = r /\ m.known # "lost"
    /\ menu = None \/ menu.ref # r \/ expired \/ up # "up"
MenusGo == \A r \in Refs : Abandoned(r) ~> ~Abandoned(r)
=============================================================================
