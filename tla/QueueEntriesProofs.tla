------------------------- MODULE QueueEntriesProofs -------------------------
(***************************************************************************)
(* Proofs about QueueEntries: for any people, places, runs and failures,   *)
(* nobody has two places and no place two people, who was removed with a   *)
(* block stays out, and what people are told is true; in the tables and in *)
(* whatever a transaction in doubt may leave.  What a transaction does to  *)
(* the tables is one of eight changes (Does), from which follow the        *)
(* properties of steps and that the queue implements Seating.              *)
(***************************************************************************)
EXTENDS QueueEntries, TLAPS

-----------------------------------------------------------------------------
(* The invariant, in the parts that steps disturb.                         *)
Data == tables \in Tables /\ ghost \in SUBSET Ghost /\ \A g, h \in ghost : g = h

Sequences == [entry : 0..limits.entries, block : 0..limits.blocks, message : 0..limits.messages]
Rest ==
    /\ uncertain \in BOOLEAN /\ closing \in BOOLEAN
    /\ clock \in 0..2 * limits.runs
    /\ noted \in Call /\ cause \in Call /\ answer \in Answer
    /\ last \in Sequences
    /\ faults \in 0..MaxFaults /\ limits \in Limits

Distinct(t) == \A e, f \in t.entries :
    e = f \/ (e.id # f.id /\ e.user # f.user /\ e.position # f.position)
BarsHold(t) == \A b \in t.blocks : b.run = t.run /\ \A e \in t.entries : e.user # b.user
OneBarEach(t) == \A b, d \in t.blocks : b = d \/ (b.id # d.id /\ b.user # d.user)
EmptyWithoutRun(t) == t.run = 0 => t.entries = {} /\ t.blocks = {}
IdsUpTo(t, l) == /\ \A e \in t.entries : e.id <= l.entry
                 /\ \A b \in t.blocks : b.id <= l.block

Sound(t, l) == /\ t \in Tables
               /\ Distinct(t) /\ BarsHold(t) /\ OneBarEach(t) /\ EmptyWithoutRun(t)
               /\ IdsUpTo(t, l)

(* What call c can do to tables t: they become u.                          *)
SameBlocks(t, u) == u.blocks = t.blocks /\ u.run = t.run
Enters(t, u) == SameBlocks(t, u) /\ \E e \in Entry :
    /\ u.entries = t.entries \cup {e} /\ ~e.completed
    /\ \A f \in t.entries : f.user # e.user /\ f.position # e.position
    /\ \A b \in t.blocks : b.user # e.user
Leaves(t, u, c) == SameBlocks(t, u) /\ c.kind = "leave" /\ \E e \in t.entries :
    u.entries = t.entries \ {e} /\ e.user = c.who
Marks(t, u, c) == SameBlocks(t, u) /\ \E e \in t.entries, v \in BOOLEAN :
    u.entries = (t.entries \ {e}) \cup {[e EXCEPT !.completed = v]} /\ AskedFor(c, e, v)
Swaps(t, u, c) == SameBlocks(t, u) /\ c.kind = "swap" /\ \E a, b \in t.entries :
    /\ a # b
    /\ u.entries = (t.entries \ {a, b}) \cup {[a EXCEPT !.position = b.position],
                                              [b EXCEPT !.position = a.position]}
    /\ {<<c.id, c.position>>, <<c.other, c.otherPosition>>}
          = {<<a.id, a.position>>, <<b.id, b.position>>}
Removes(t, u, c) == u.run = t.run /\ c.kind = "remove" /\ c.run = t.run /\ \E e \in t.entries :
    /\ u.entries = t.entries \ {e} /\ e.id = c.id
    /\ u.blocks = t.blocks \/ \E d \in Block : d.user = e.user /\ u.blocks = t.blocks \cup {d}
Unblocks(t, u, c) == u.entries = t.entries /\ u.run = t.run /\ c.kind = "unblock" /\ \E b \in t.blocks :
    u.blocks = t.blocks \ {b} /\ b.id = c.id
Clears(t, u) == u.entries = {} /\ u.blocks = {} /\ (u.run # t.run \/ (t.entries = {} /\ t.blocks = {}))
Stays(t, u) == SameBlocks(t, u) /\ u.entries = t.entries

Does(t, u, c) == \/ Enters(t, u) \/ Leaves(t, u, c) \/ Marks(t, u, c) \/ Swaps(t, u, c)
                 \/ Removes(t, u, c) \/ Unblocks(t, u, c) \/ Clears(t, u) \/ Stays(t, u)

(* readSchedule may rely on this: what is in doubt is known to be.         *)
DoubtIsKnown == ghost # {} => uncertain

SeatsInv ==
    /\ Data /\ Rest
    /\ noted.kind \in {"none", "self", "slot"}
    /\ DoubtIsKnown
    /\ \A t \in Outcomes : Sound(t, last)
    /\ \A g \in ghost : Does(tables, g.tables, g.by)

(* A step leaves the tables, does what a call can do, or a block expires.  *)
Changes == \/ Does(tables, tables', cause')
           \/ \E b \in tables.blocks : BlockExpires(b)
Good == SeatsInv' /\ AnswersAreTrue' /\ Changes

LEMMA TypesAre == TypeOK <=> Data /\ Rest
  BY DEF TypeOK, Data, Rest, Sequences

(* The bounds of the instance, and with them the types, stay.              *)
LEMMA LimitsKept == ASSUME limits' = limits
                    PROVE  /\ Entry' = Entry /\ Block' = Block /\ Runs' = Runs /\ Tables' = Tables
                           /\ Call' = Call /\ Ghost' = Ghost /\ Sequences' = Sequences
  BY DEF Entry, Block, Runs, Tables, Call, Ghost, Sequences

LEMMA LimitsAre == ASSUME Rest
                   PROVE  /\ limits.people \subseteq People
                          /\ limits.runs \in Nat /\ limits.entries \in Nat
                          /\ limits.blocks \in Nat /\ limits.messages \in Nat
                          /\ last.entry \in 0..limits.entries /\ last.block \in 0..limits.blocks
                          /\ last.message \in 0..limits.messages
  BY EntriesAssumption DEF Rest, Sequences

LEMMA TablesAre == ASSUME NEW t \in Tables
                   PROVE  /\ t.entries \subseteq Entry /\ t.blocks \subseteq Block
                          /\ t.run \in {0} \cup Runs /\ t.message \in 0..limits.messages
  BY DEF Tables

LEMMA NoCallIsCall == NoCall \in Call /\ NoAnswer \in Answer
  BY EntriesAssumption DEF NoCall, Call, Kinds, NoAnswer, Answer, Claims

-----------------------------------------------------------------------------
(* What is sound stays so.                                                 *)

LEMMA TablesSound == ASSUME SeatsInv
                     PROVE  /\ Sound(tables, last) /\ tables \in Tables /\ last \in Sequences
                            /\ \A g \in ghost : Sound(g.tables, last) /\ g.by \in Call
  BY DEF SeatsInv, Outcomes, Data, Sound, Ghost, Rest

(* Identifiers only grow.                                                  *)
Grows == last' \in Sequences /\ last'.entry >= last.entry /\ last'.block >= last.block

LEMMA SoundGrows == ASSUME SeatsInv, Grows, limits' = limits, NEW t, Sound(t, last)
                    PROVE  Sound(t, last')
  <1>1. /\ last.entry \in Nat /\ last'.entry \in Nat /\ last.block \in Nat /\ last'.block \in Nat
        /\ limits.entries \in Nat /\ limits.blocks \in Nat
    BY LimitsAre DEF SeatsInv, Grows, Sequences
  <1>2. t \in Tables
    BY DEF Sound
  <1>3. (\A e \in t.entries : e.id \in Nat) /\ (\A b \in t.blocks : b.id \in Nat)
    BY <1>1, <1>2 DEF Tables, Entry, Block
  <1>4. IdsUpTo(t, last')
    BY <1>1, <1>3 DEF Sound, IdsUpTo, Grows
  <1> QED BY <1>4 DEF Sound

LEMMA StaysIs == ASSUME NEW t, NEW c PROVE Does(t, t, c)
  BY DEF Does, Stays, SameBlocks

(* Somebody who is told nothing is told nothing wrong.                     *)
LEMMA SilenceIsTrue == ASSUME answer' = NoAnswer PROVE AnswersAreTrue'
  BY DEF NoAnswer, AnswersAreTrue

(* A step that leaves the tables, or lets nothing but time pass.           *)
LEMMA QuietInv ==
    ASSUME SeatsInv, Rest', UNCHANGED <<tables, ghost, limits>>, Grows, DoubtIsKnown',
           noted'.kind \in {"none", "self", "slot"}
    PROVE  SeatsInv' /\ Changes
  <1>1. Data'
    BY LimitsKept DEF SeatsInv, Data
  <1>2. \A t \in Outcomes : Sound(t, last')
    BY SoundGrows DEF SeatsInv
  <1>3. \A t \in Outcomes' : Sound(t, last)'
    BY <1>2, LimitsKept DEF Outcomes, Sound
  <1>4. \A g \in ghost' : Does(tables, g.tables, g.by)'
    BY LimitsKept DEF SeatsInv, Does, Enters, Removes, Leaves, Marks, Swaps, Unblocks, Clears, Stays, SameBlocks
  <1>5. Changes
    BY StaysIs DEF Changes
  <1> QED BY <1>1, <1>3, <1>4, <1>5 DEF SeatsInv

(* A transaction that would leave sound tables, by what a call can do.     *)
LEMMA TransactInv ==
    ASSUME SeatsInv, limits' = limits, NEW t, NEW by \in Call, NEW doubt \in BOOLEAN,
           Transact(t, by, doubt), Sound(t, last'), Does(tables, t, by), Grows,
           closing' \in BOOLEAN, clock' \in 0..2 * limits.runs, answer' \in Answer,
           noted' \in Call, noted'.kind \in {"none", "self", "slot"}
    PROVE  SeatsInv' /\ Changes /\ (Failed \/ (tables' = t /\ ghost' = {}))
  <1>0. ghost = {} /\ tables \in Tables /\ faults \in 0..MaxFaults /\ MaxFaults \in Nat
    BY EntriesAssumption DEF Transact, Locked, SeatsInv, Data, Rest
  <1>1. /\ (tables' = t /\ cause' = by) \/ (tables' = tables /\ cause' = NoCall)
        /\ uncertain' \in BOOLEAN /\ DoubtIsKnown'
        /\ ghost' \in {{}, {[tables |-> t, by |-> by]}} /\ (ghost' # {} => tables' = tables)
        /\ faults' \in 0..MaxFaults
        /\ Failed \/ (tables' = t /\ ghost' = {})
    <2>1. CASE tables' = t /\ cause' = by /\ uncertain' = doubt /\ UNCHANGED <<ghost, faults>>
      BY <1>0, <2>1 DEF DoubtIsKnown
    <2>2. CASE /\ faults > 0 /\ faults' = faults - 1
               /\ ghost' \in {{}, {[tables |-> t, by |-> by]}}
               /\ uncertain' = TRUE /\ cause' = NoCall /\ UNCHANGED tables
      <3>1. faults' \in 0..MaxFaults /\ Failed
        BY <1>0, <2>2 DEF Failed
      <3> QED BY <3>1, <2>2 DEF DoubtIsKnown
    <2> QED BY <2>1, <2>2 DEF Transact
  <1>2. Data'
    BY <1>0, <1>1, LimitsKept DEF Data, Ghost, Sound
  <1>3. Rest'
    BY <1>1, LimitsKept, NoCallIsCall DEF Rest, SeatsInv, Answer, Grows
  <1>4. Sound(tables, last')
    BY SoundGrows, TablesSound
  <1>5. \A o \in Outcomes' : o \in {tables, t}
    BY <1>1 DEF Outcomes
  <1>6. \A o \in Outcomes' : Sound(o, last)'
    BY <1>4, <1>5, LimitsKept DEF Sound
  <1>7. \A g \in ghost' : Does(tables, g.tables, g.by)'
    <2> SUFFICES ASSUME NEW g \in ghost' PROVE Does(tables, g.tables, g.by)'
      OBVIOUS
    <2>1. g.tables = t /\ g.by = by /\ tables' = tables
      BY <1>1
    <2> QED BY <2>1, LimitsKept
            DEF Does, Enters, Removes, Leaves, Marks, Swaps, Unblocks, Clears, Stays, SameBlocks
  <1>8. Changes
    BY <1>1, StaysIs DEF Changes
  <1> QED BY <1>1, <1>2, <1>3, <1>6, <1>7, <1>8 DEF SeatsInv

-----------------------------------------------------------------------------
(* What calls write is sound, and is what such a call can do.              *)

LEMMA ReplyIsAnswer == ASSUME NEW c \in Call, NEW says, Reply(c, says) PROVE answer' \in Answer
  BY NoCallIsCall DEF Reply, Answer, Call

(* Only removing entries or blocks is sound.                               *)
LEMMA FewerSound ==
    ASSUME NEW t \in Tables, NEW u \in Tables, NEW l, Sound(t, l),
           u.entries \subseteq t.entries, u.blocks \subseteq t.blocks, u.run = t.run
    PROVE  Sound(u, l)
  BY DEF Sound, Distinct, BarsHold, OneBarEach, EmptyWithoutRun, IdsUpTo

LEMMA EmptySound == ASSUME Rest, NEW r \in {0} \cup Runs, NEW l PROVE Sound(Empty(r), l)
  <1>1. Empty(r) \in Tables
    BY LimitsAre DEF Empty, Tables
  <1> QED BY <1>1 DEF Empty, Sound, Distinct, BarsHold, OneBarEach, EmptyWithoutRun, IdsUpTo

(* The run ends, or begins where there was none.                           *)
LEMMA EmptyDoes == ASSUME SeatsInv, NEW r, r # tables.run \/ tables.run = 0, NEW c
                   PROVE  Does(tables, Empty(r), c)
  <1>1. EmptyWithoutRun(tables)
    BY TablesSound DEF Sound
  <1>2. Empty(r).entries = {} /\ Empty(r).blocks = {} /\ Empty(r).run = r
    BY DEF Empty
  <1>3. Clears(tables, Empty(r))
    BY <1>1, <1>2 DEF Clears, EmptyWithoutRun
  <1> QED BY <1>3 DEF Does

LEMMA SeatedSound ==
    ASSUME SeatsInv, NEW p \in People, NEW n \in Free, SeatsOf(p) = {}, ~Blocked(p),
           tables.run # 0, last.entry < limits.entries, limits' = limits,
           last' = [last EXCEPT !.entry = @ + 1], NEW c
    PROVE  /\ Grows /\ Sound(Seated(p, n), last') /\ Does(tables, Seated(p, n), c)
           /\ \E e \in Seated(p, n).entries : e.user = p
  <1> DEFINE new == [id |-> last.entry + 1, user |-> p, position |-> n, completed |-> FALSE]
             t == Seated(p, n)
  <1>1. /\ tables \in Tables /\ last \in Sequences /\ Sound(tables, last)
        /\ last.entry \in Nat /\ limits.entries \in Nat /\ last.block \in Nat /\ limits.blocks \in Nat
    BY LimitsAre, TablesSound DEF SeatsInv
  <1>2. /\ new \in Entry /\ new.id = last.entry + 1 /\ new.user = p /\ new.position = n
        /\ new.completed = FALSE
    BY <1>1 DEF Entry, Free, Positions
  <1>3. t = [tables EXCEPT !.entries = @ \cup {new}]
    BY DEF Seated
  <1> HIDE DEF new, t
  <1>4. /\ t \in Tables /\ t.entries = tables.entries \cup {new}
        /\ t.blocks = tables.blocks /\ t.run = tables.run
    BY <1>1, <1>2, <1>3 DEF Tables
  <1>5. \A e \in tables.entries : /\ e.id \in Nat /\ e.id <= last.entry
                               /\ e.user # p /\ e.position # n
    BY <1>1, LimitsAre DEF Tables, Entry, Sound, IdsUpTo, SeatsOf, SeatsAt, Free, SeatsInv
  <1>6. Grows /\ last'.entry = last.entry + 1 /\ last'.block = last.block
    BY <1>1, LimitsKept DEF Grows, Sequences
  <1>7. \A b \in tables.blocks : b.user # p
    BY <1>1 DEF Sound, BarsHold, Blocked
  <1>8. Distinct(t)
    BY <1>1, <1>2, <1>4, <1>5 DEF Distinct, Sound
  <1>9. BarsHold(t) /\ OneBarEach(t) /\ EmptyWithoutRun(t)
    BY <1>1, <1>2, <1>4, <1>7 DEF BarsHold, OneBarEach, EmptyWithoutRun, Sound
  <1>10. IdsUpTo(t, last')
    BY <1>1, <1>2, <1>4, <1>5, <1>6 DEF IdsUpTo, Sound
  <1>11. Enters(tables, t)
    BY <1>2, <1>4, <1>5, <1>7 DEF Enters, SameBlocks
  <1>12. \E e \in t.entries : e.user = p
    BY <1>2, <1>4
  <1> QED BY <1>4, <1>6, <1>8, <1>9, <1>10, <1>11, <1>12 DEF Sound, Does, t

LEMMA MarkedSound ==
    ASSUME SeatsInv, NEW e \in tables.entries, NEW v \in BOOLEAN, NEW c, AskedFor(c, e, v)
    PROVE  /\ Sound(Marked(e, v), last) /\ Does(tables, Marked(e, v), c)
           /\ \E f \in Marked(e, v).entries : f.user = e.user /\ f.completed = v
  <1> DEFINE new == [e EXCEPT !.completed = v]
             t == Marked(e, v)
  <1>1. tables \in Tables /\ Sound(tables, last) /\ e \in Entry
    BY TablesSound, TablesAre
  <1>2. /\ new \in Entry /\ new.id = e.id /\ new.user = e.user /\ new.position = e.position
        /\ new.completed = v
    BY <1>1 DEF Entry
  <1>3. t = [tables EXCEPT !.entries = (@ \ {e}) \cup {new}]
    BY DEF Marked
  <1>4. t.entries = (tables.entries \ {e}) \cup {[e EXCEPT !.completed = v]} /\ SameBlocks(tables, t)
    BY <1>1, <1>3 DEF Tables, SameBlocks
  <1>5. Does(tables, t, c)
    BY <1>4 DEF Does, Marks
  <1> HIDE DEF new, t
  <1>6. /\ t \in Tables /\ t.entries = (tables.entries \ {e}) \cup {new}
        /\ t.blocks = tables.blocks /\ t.run = tables.run
    BY <1>1, <1>2, <1>3 DEF Tables
  <1>7. Distinct(t) /\ BarsHold(t) /\ IdsUpTo(t, last)
    BY <1>1, <1>2, <1>6 DEF Distinct, BarsHold, IdsUpTo, Sound
  <1>8. OneBarEach(t) /\ EmptyWithoutRun(t)
    BY <1>1, <1>6 DEF OneBarEach, EmptyWithoutRun, Sound
  <1>9. \E f \in t.entries : f.user = e.user /\ f.completed = v
    BY <1>2, <1>6
  <1> QED BY <1>5, <1>6, <1>7, <1>8, <1>9 DEF Sound, t

LEMMA ExchangedSound ==
    ASSUME SeatsInv, NEW a \in tables.entries, NEW b \in tables.entries, NEW c, c.kind = "swap",
           a.id # b.id, a.id = c.id, a.position = c.position,
           b.id = c.other, b.position = c.otherPosition
    PROVE  Sound(Exchanged(a, b), last) /\ Does(tables, Exchanged(a, b), c)
  <1> DEFINE a2 == [a EXCEPT !.position = b.position]
             b2 == [b EXCEPT !.position = a.position]
             t == Exchanged(a, b)
  <1>1. tables \in Tables /\ Sound(tables, last) /\ a \in Entry /\ b \in Entry
    BY TablesSound, TablesAre
  <1>2. /\ a2 \in Entry /\ a2.id = a.id /\ a2.user = a.user /\ a2.position = b.position
        /\ b2 \in Entry /\ b2.id = b.id /\ b2.user = b.user /\ b2.position = a.position
    BY <1>1 DEF Entry
  <1>3. t = [tables EXCEPT !.entries = (@ \ {a, b}) \cup {a2, b2}]
    BY DEF Exchanged
  <1>4. t.entries = (tables.entries \ {a, b}) \cup {a2, b2} /\ SameBlocks(tables, t)
    BY <1>1, <1>3 DEF Tables, SameBlocks
  <1>5. Does(tables, t, c)
    BY <1>4 DEF Does, Swaps
  <1> HIDE DEF a2, b2, t
  <1>6. /\ t \in Tables /\ t.entries = (tables.entries \ {a, b}) \cup {a2, b2}
        /\ t.blocks = tables.blocks /\ t.run = tables.run
    BY <1>1, <1>2, <1>3 DEF Tables
  <1>7. /\ Distinct(tables) /\ BarsHold(tables) /\ IdsUpTo(tables, last)
        /\ OneBarEach(tables) /\ EmptyWithoutRun(tables)
    BY <1>1 DEF Sound
  <1>8. Distinct(t)
    BY <1>2, <1>6, <1>7 DEF Distinct
  <1>9. BarsHold(t) /\ IdsUpTo(t, last) /\ OneBarEach(t) /\ EmptyWithoutRun(t)
    BY <1>2, <1>6, <1>7 DEF BarsHold, IdsUpTo, OneBarEach, EmptyWithoutRun
  <1> QED BY <1>5, <1>6, <1>8, <1>9 DEF Sound, t

LEMMA RemovedSound ==
    ASSUME SeatsInv, NEW c \in Call, NEW e \in tables.entries, c.kind = "remove", c.id = e.id,
           c.run = tables.run, tables.run # 0, limits' = limits,
           c.target => last.block < limits.blocks,
           last' = [last EXCEPT !.block = IF c.target THEN @ + 1 ELSE @]
    PROVE  Grows /\ Sound(Removed(e, c), last') /\ Does(tables, Removed(e, c), c)
  <1> DEFINE new == [id |-> last.block + 1, user |-> e.user, run |-> c.run]
             t == Removed(e, c)
             kept == {b \in tables.blocks : b.user # e.user \/ b.run # c.run}
  <1>1. /\ tables \in Tables /\ last \in Sequences /\ Sound(tables, last) /\ e \in Entry
        /\ last.block \in Nat /\ limits.blocks \in Nat /\ last.entry \in Nat /\ c.target \in BOOLEAN
    BY TablesSound, TablesAre, LimitsAre DEF SeatsInv, Call
  <1>2. /\ Distinct(tables) /\ BarsHold(tables) /\ IdsUpTo(tables, last)
        /\ OneBarEach(tables) /\ EmptyWithoutRun(tables)
    BY <1>1 DEF Sound
  <1>3. kept = tables.blocks
    BY <1>2 DEF BarsHold
  <1>4. /\ c.target => new \in Block
        /\ new.user = e.user /\ new.run = c.run /\ new.id = last.block + 1
    BY <1>1 DEF Entry, Block, Tables
  <1>5. t = [tables EXCEPT !.entries = @ \ {e}, !.blocks = IF c.target THEN kept \cup {new} ELSE @]
    BY DEF Removed, BlocksWith
  <1> HIDE DEF new, t, kept
  <1>6. /\ t \in Tables /\ t.entries = tables.entries \ {e} /\ t.run = tables.run
        /\ t.blocks = IF c.target THEN tables.blocks \cup {new} ELSE tables.blocks
    BY <1>1, <1>3, <1>4, <1>5 DEF Tables
  <1>7. /\ Grows /\ last'.entry = last.entry
        /\ last'.block = IF c.target THEN last.block + 1 ELSE last.block
    BY <1>1, LimitsKept DEF Grows, Sequences
  <1>8. \A b \in tables.blocks : b.user # e.user /\ b.id \in Nat /\ b.id <= last.block
    BY <1>1, <1>2 DEF BarsHold, IdsUpTo, Tables, Block
  <1>9. Distinct(t) /\ EmptyWithoutRun(t)
    BY <1>2, <1>6 DEF Distinct, EmptyWithoutRun
  <1>10. BarsHold(t)
    BY <1>2, <1>4, <1>6 DEF BarsHold, Distinct
  <1>11. OneBarEach(t) /\ IdsUpTo(t, last')
    BY <1>1, <1>2, <1>4, <1>6, <1>7, <1>8 DEF OneBarEach, IdsUpTo
  <1>12. Removes(tables, t, c)
    BY <1>4, <1>6 DEF Removes
  <1> QED BY <1>6, <1>7, <1>9, <1>10, <1>11, <1>12 DEF Sound, Does, t

-----------------------------------------------------------------------------
(* What makes the answer of call c true in tables t.                       *)
Truth(t, c, says) ==
    /\ says = "full" => \A n \in Positions : \E e \in t.entries : e.position = n
    /\ says \in {"joined", "seated"} => \E e \in t.entries : e.user = c.who
    /\ (says = "left") \/ (says = "notJoined" /\ c.kind # "slot") => \A e \in t.entries : e.user # c.who
    /\ c.kind = "self" /\ says \in {"marked", "unmarked"} =>
          \E e \in t.entries : e.user = c.who /\ e.completed = (says = "marked")

LEMMA ReplyIsTrue ==
    ASSUME NEW c, NEW says, Reply(c, says), \A t \in Outcomes' : Truth(t, c, says)
    PROVE  AnswersAreTrue'
  <1>1. CASE says \notin Claims
    BY <1>1, SilenceIsTrue DEF Reply
  <1>2. CASE says \in Claims
    <2>1. answer'.to = c.who /\ answer'.asked = c.kind /\ answer'.says = says
      BY <1>2 DEF Reply
    <2>2. \A t : Mine(t)' = {e \in t.entries : e.user = c.who}
      BY <2>1 DEF Mine
    <2> SUFFICES ASSUME NEW t \in Outcomes'
                 PROVE  /\ says = "full" => \A n \in Positions : \E e \in t.entries : e.position = n
                        /\ says \in {"joined", "seated"} => {e \in t.entries : e.user = c.who} # {}
                        /\ (says = "left") \/ (says = "notJoined" /\ c.kind # "slot") =>
                              {e \in t.entries : e.user = c.who} = {}
                        /\ c.kind = "self" /\ says \in {"marked", "unmarked"} =>
                              \E e \in {e \in t.entries : e.user = c.who} : e.completed = (says = "marked")
      BY <2>1, <2>2 DEF AnswersAreTrue, Mine, Positions
    <2>3. Truth(t, c, says)
      OBVIOUS
    <2> QED BY <2>3 DEF Truth
  <1> QED BY <1>1, <1>2

LEMMA NothingIsTrue == ASSUME NEW t, NEW c, NEW says, says \notin Claims PROVE Truth(t, c, says)
  BY DEF Truth, Claims

(* The ends of a call, which has read the tables as they are.              *)

LEMMA RefusedInv ==
    ASSUME SeatsInv, ghost = {}, NEW c \in Call, NEW says, Refused(c, says), Truth(tables, c, says),
           UNCHANGED <<closing, clock, limits>>
    PROVE  Good
  <1>1. answer' \in Answer /\ NoCall \in Call
    BY ReplyIsAnswer, NoCallIsCall DEF Refused
  <1>2. Rest'
    BY <1>1, LimitsKept DEF Refused, SeatsInv, Rest
  <1>3. Grows /\ DoubtIsKnown'
    BY LimitsAre DEF Refused, SeatsInv, Grows, DoubtIsKnown, Rest
  <1>4. AnswersAreTrue'
    BY ReplyIsTrue DEF Refused, Outcomes
  <1> QED BY <1>2, <1>3, <1>4, QuietInv DEF Refused, SeatsInv, Good

LEMMA RejectedInv ==
    ASSUME SeatsInv, NEW c \in Call, NEW says, Rejected(c, says), Truth(tables, c, says),
           UNCHANGED <<noted, closing, clock, limits>>
    PROVE  Good
  <1>1. answer' \in Answer /\ NoCall \in Call
    BY ReplyIsAnswer, NoCallIsCall DEF Rejected
  <1>2. Rest'
    BY <1>1, LimitsKept DEF Rejected, SeatsInv, Rest
  <1>3. Grows /\ DoubtIsKnown'
    BY LimitsAre DEF Rejected, SeatsInv, Grows, DoubtIsKnown, Rest
  <1>4. AnswersAreTrue'
    BY ReplyIsTrue DEF Rejected, Outcomes, Locked
  <1> QED BY <1>2, <1>3, <1>4, QuietInv DEF Rejected, SeatsInv, Good

LEMMA WrittenInv ==
    ASSUME SeatsInv, NEW c \in Call, NEW t, NEW says, Written(c, t, says),
           Sound(t, last'), Does(tables, t, c), Truth(t, c, says), Grows,
           noted' \in Call, noted'.kind \in {"none", "self", "slot"},
           UNCHANGED <<closing, clock, limits>>
    PROVE  Good
  <1>1. Transact(t, c, FALSE) /\ Reply(c, IF Failed THEN "error" ELSE says)
    BY DEF Written
  <1>2. closing' \in BOOLEAN /\ clock' \in 0..2 * limits.runs /\ answer' \in Answer
    BY <1>1, ReplyIsAnswer DEF SeatsInv, Rest
  <1>3. SeatsInv' /\ Changes /\ (Failed \/ (tables' = t /\ ghost' = {}))
    BY <1>1, <1>2, TransactInv
  <1>4. AnswersAreTrue'
    <2>1. CASE Failed
      BY <1>1, <2>1, ReplyIsTrue, NothingIsTrue DEF Claims
    <2>2. CASE ~Failed
      BY <1>1, <1>3, <2>2, ReplyIsTrue DEF Outcomes
    <2> QED BY <2>1, <2>2
  <1> QED BY <1>3, <1>4 DEF Good

(* A call that writes and keeps the sequences and what was noted.          *)
LEMMA PlainlyWrittenInv ==
    ASSUME SeatsInv, NEW c \in Call, NEW t, NEW says, Written(c, t, says), Sound(t, last),
           Does(tables, t, c), Truth(t, c, says), UNCHANGED <<noted, last, closing, clock, limits>>
    PROVE  Good
  <1>1. Grows
    BY LimitsAre DEF SeatsInv, Rest, Grows
  <1>2. noted' \in Call /\ noted'.kind \in {"none", "self", "slot"}
    BY DEF SeatsInv, Rest
  <1> QED BY <1>1, <1>2, WrittenInv

-----------------------------------------------------------------------------
(* The calls.                                                              *)

LEMMA JoinInv ==
    ASSUME SeatsInv, ghost = {}, tables.run # 0, NEW c \in Call, c.who \in People,
           c.kind \in {"join", "joinFirst"}, Join(c), UNCHANGED <<closing, clock, limits>>
    PROVE  Good
  <1>1. CASE SeatsOf(c.who) # {} /\ Refused(c, "joined")
    <2>1. Truth(tables, c, "joined")
      BY <1>1 DEF Truth, SeatsOf
    <2> QED BY <1>1, <2>1, RefusedInv
  <1>2. CASE Refused(c, "blocked")
    BY <1>2, RefusedInv, NothingIsTrue DEF Claims
  <1>3. CASE /\ SeatsOf(c.who) = {} /\ last.entry < limits.entries
             /\ Insert(c, IF c.kind = "join" THEN Free \cap {c.position} ELSE Free)
             /\ ~Blocked(c.who)
    <2> DEFINE places == IF c.kind = "join" THEN Free \cap {c.position} ELSE Free
    <2>1. CASE /\ places = {} /\ Rejected(c, IF c.kind = "join" THEN "occupied" ELSE "full")
               /\ UNCHANGED noted
      <3>1. Truth(tables, c, IF c.kind = "join" THEN "occupied" ELSE "full")
        <4>1. CASE c.kind = "join"
          BY <4>1, NothingIsTrue DEF Claims
        <4>2. CASE c.kind # "join"
          BY <2>1, <4>2 DEF Truth, Free, SeatsAt
        <4> QED BY <4>1, <4>2
      <3> QED BY <2>1, <3>1, RejectedInv
    <2>2. CASE \E n \in places : /\ Written(c, Seated(c.who, n), "seated")
                                 /\ last' = [last EXCEPT !.entry = @ + 1]
                                 /\ UNCHANGED noted
      <3>1. PICK n \in Free : /\ Written(c, Seated(c.who, n), "seated")
                              /\ last' = [last EXCEPT !.entry = @ + 1]
                              /\ UNCHANGED noted
        BY <2>2
      <3>2. /\ Grows /\ Sound(Seated(c.who, n), last') /\ Does(tables, Seated(c.who, n), c)
            /\ \E e \in Seated(c.who, n).entries : e.user = c.who
        BY <1>3, <3>1, SeatedSound
      <3>3. noted' \in Call /\ noted'.kind \in {"none", "self", "slot"}
        BY <3>1 DEF SeatsInv, Rest
      <3>4. Truth(Seated(c.who, n), c, "seated")
        BY <3>2 DEF Truth
      <3> QED BY <3>1, <3>2, <3>3, <3>4, WrittenInv
    <2> QED BY <1>3, <2>1, <2>2 DEF Insert
  <1> QED BY <1>1, <1>2, <1>3 DEF Join, Insert

LEMMA LeaveInv ==
    ASSUME SeatsInv, ghost = {}, NEW c \in Call, c.kind = "leave", Leave(c),
           UNCHANGED <<closing, clock, limits>>
    PROVE  Good
  <1>1. CASE SeatsOf(c.who) = {} /\ Refused(c, "notJoined")
    <2>1. Truth(tables, c, "notJoined")
      BY <1>1 DEF Truth, SeatsOf
    <2> QED BY <1>1, <2>1, RefusedInv
  <1>2. CASE /\ SeatsOf(c.who) # {}
             /\ Written(c, [tables EXCEPT !.entries = @ \ SeatsOf(c.who)], "left")
             /\ UNCHANGED <<noted, last>>
    <2> DEFINE t == [tables EXCEPT !.entries = @ \ SeatsOf(c.who)]
    <2>1. tables \in Tables /\ Sound(tables, last)
      BY TablesSound
    <2>2. /\ t \in Tables /\ t.entries = tables.entries \ SeatsOf(c.who)
          /\ t.blocks = tables.blocks /\ t.run = tables.run
      BY <2>1 DEF Tables
    <2>3. Sound(t, last)
      BY <2>1, <2>2, FewerSound
    <2>4. PICK e \in tables.entries : e.user = c.who /\ SeatsOf(c.who) = {e}
      BY <1>2, <2>1 DEF SeatsOf, Sound, Distinct
    <2>5. Does(tables, t, c)
      BY <2>2, <2>4 DEF Does, Leaves, SameBlocks
    <2>6. Truth(t, c, "left")
      BY <2>2 DEF Truth, SeatsOf
    <2> QED BY <1>2, <2>3, <2>5, <2>6, PlainlyWrittenInv
  <1> QED BY <1>1, <1>2 DEF Leave

LEMMA CompleteInv ==
    ASSUME SeatsInv, ghost = {}, NEW c \in Call, c.kind \in {"self", "slot"}, NEW again,
           Complete(c, again), UNCHANGED <<closing, clock, limits>>
    PROVE  Good
  <1>1. CASE EntriesFor(c) = {} /\ Refused(c, "notJoined")
    <2>1. Truth(tables, c, "notJoined")
      BY <1>1 DEF Truth, EntriesFor, SeatsOf
    <2> QED BY <1>1, <2>1, RefusedInv
  <1>2. CASE \E says \in {"changed", "forbidden"} : Refused(c, says)
    BY <1>2, RefusedInv, NothingIsTrue DEF Claims
  <1>3. CASE \E e \in EntriesFor(c) : Refused(c, IF e.completed THEN "marked" ELSE "unmarked")
    <2>1. PICK e \in EntriesFor(c) : Refused(c, IF e.completed THEN "marked" ELSE "unmarked")
      BY <1>3
    <2> DEFINE says == IF e.completed THEN "marked" ELSE "unmarked"
    <2>2. e \in tables.entries /\ e \in Entry /\ (c.kind = "self" => e.user = c.who)
      BY TablesSound, TablesAre DEF EntriesFor, SeatsOf, SeatsAt
    <2>3. e.completed = (says = "marked")
      BY <2>2 DEF Entry
    <2>4. Truth(tables, c, says)
      BY <2>2, <2>3 DEF Truth
    <2> QED BY <2>1, <2>4, RefusedInv
  <1>4. CASE \E e \in EntriesFor(c) :
                /\ IsMeant(c, e) /\ MayMark(c, e)
                /\ SetCompleted(c, e, IF c.kind = "self" THEN ~e.completed ELSE c.target)
                /\ noted' = IF c.kind \in limits.repeated THEN c ELSE noted
    <2>1. PICK e \in EntriesFor(c) :
                /\ IsMeant(c, e) /\ MayMark(c, e)
                /\ SetCompleted(c, e, IF c.kind = "self" THEN ~e.completed ELSE c.target)
                /\ noted' = IF c.kind \in limits.repeated THEN c ELSE noted
      BY <1>4
    <2> DEFINE v == IF c.kind = "self" THEN ~e.completed ELSE c.target
               says == IF v THEN "marked" ELSE "unmarked"
    <2>2. /\ e \in tables.entries /\ e \in Entry /\ c.target \in BOOLEAN
          /\ c.kind = "self" => e.user = c.who
      BY TablesSound, TablesAre DEF EntriesFor, SeatsOf, SeatsAt, Call
    <2>3. v \in BOOLEAN
      BY <2>2 DEF Entry
    <2>4. AskedFor(c, e, v)
      BY <2>1, <2>2 DEF AskedFor, EntriesFor, SeatsAt, IsMeant, MayMark
    <2>5. Written(c, Marked(e, v), says) /\ UNCHANGED last
      BY <2>1 DEF SetCompleted
    <2>6. noted' \in Call /\ noted'.kind \in {"none", "self", "slot"}
      BY <2>1 DEF SeatsInv, Rest
    <2>7. Grows
      BY <2>5, LimitsAre DEF SeatsInv, Rest, Grows
    <2>8. v = (says = "marked") /\ says \in {"marked", "unmarked"}
      BY <2>3
    <2> HIDE DEF v, says
    <2>9. /\ Sound(Marked(e, v), last') /\ Does(tables, Marked(e, v), c)
          /\ \E f \in Marked(e, v).entries : f.user = e.user /\ f.completed = v
      BY <2>2, <2>3, <2>4, <2>5, MarkedSound
    <2>10. Truth(Marked(e, v), c, says)
      BY <2>2, <2>8, <2>9 DEF Truth
    <2> QED BY <2>5, <2>6, <2>7, <2>9, <2>10, WrittenInv
  <1> QED BY <1>1, <1>2, <1>3, <1>4 DEF Complete

LEMMA SwapInv ==
    ASSUME SeatsInv, NEW c \in Call, c.kind = "swap", Swap(c), UNCHANGED <<closing, clock, limits>>
    PROVE  Good
  <1>1. CASE Rejected(c, "changed") /\ UNCHANGED noted
    BY <1>1, RejectedInv, NothingIsTrue DEF Claims
  <1>2. CASE /\ c.id # c.other
             /\ \E a \in Standing(c.id, c.position), b \in Standing(c.other, c.otherPosition) :
                   Written(c, Exchanged(a, b), "swapped")
             /\ UNCHANGED <<noted, last>>
    <2>1. PICK a \in tables.entries, b \in tables.entries :
                /\ a.id # b.id /\ a.id = c.id /\ a.position = c.position
                /\ b.id = c.other /\ b.position = c.otherPosition
                /\ Written(c, Exchanged(a, b), "swapped")
      BY <1>2 DEF Standing
    <2>2. Sound(Exchanged(a, b), last) /\ Does(tables, Exchanged(a, b), c)
      BY <2>1, ExchangedSound
    <2> QED BY <1>2, <2>1, <2>2, PlainlyWrittenInv, NothingIsTrue DEF Claims
  <1> QED BY <1>1, <1>2 DEF Swap

LEMMA RemoveInv ==
    ASSUME SeatsInv, NEW c \in Call, c.kind = "remove", Remove(c), c.run = tables.run, tables.run # 0,
           c.target => last.block < limits.blocks, UNCHANGED <<closing, clock, limits>>
    PROVE  Good
  <1>1. CASE Rejected(c, "changed") /\ UNCHANGED noted
    BY <1>1, RejectedInv, NothingIsTrue DEF Claims
  <1>2. CASE /\ \E e \in tables.entries : e.id = c.id /\ Written(c, Removed(e, c), "removed")
             /\ last' = [last EXCEPT !.block = IF c.target THEN @ + 1 ELSE @]
             /\ UNCHANGED noted
    <2>1. PICK e \in tables.entries : e.id = c.id /\ Written(c, Removed(e, c), "removed")
      BY <1>2
    <2>2. Grows /\ Sound(Removed(e, c), last') /\ Does(tables, Removed(e, c), c)
      BY <1>2, <2>1, RemovedSound
    <2>3. noted' \in Call /\ noted'.kind \in {"none", "self", "slot"}
      BY <1>2 DEF SeatsInv, Rest
    <2> QED BY <2>1, <2>2, <2>3, WrittenInv, NothingIsTrue DEF Claims
  <1> QED BY <1>1, <1>2 DEF Remove

LEMMA UnblockInv ==
    ASSUME SeatsInv, NEW c \in Call, c.kind = "unblock", Unblock(c), UNCHANGED <<closing, clock, limits>>
    PROVE  Good
  <1> DEFINE named == {b \in tables.blocks : b.id = c.id /\ b.run = c.run}
             t == [tables EXCEPT !.blocks = @ \ named]
  <1>1. CASE Rejected(c, "changed") /\ UNCHANGED noted
    BY <1>1, RejectedInv, NothingIsTrue DEF Claims
  <1>2. CASE named # {} /\ Written(c, t, "unblocked") /\ UNCHANGED <<noted, last>>
    <2>1. tables \in Tables /\ Sound(tables, last)
      BY TablesSound
    <2>2. /\ t \in Tables /\ t.entries = tables.entries
          /\ t.blocks = tables.blocks \ named /\ t.run = tables.run
      BY <2>1 DEF Tables
    <2>3. Sound(t, last)
      BY <2>1, <2>2, FewerSound
    <2>4. PICK b \in tables.blocks : b.id = c.id /\ named = {b}
      BY <1>2, <2>1 DEF Sound, OneBarEach
    <2>5. Does(tables, t, c)
      BY <2>2, <2>4 DEF Does, Unblocks
    <2> QED BY <1>2, <2>3, <2>5, PlainlyWrittenInv, NothingIsTrue DEF Claims
  <1> QED BY <1>1, <1>2 DEF Unblock

(* What a button carries is a call.                                        *)
LEMMA ByIsCall == ASSUME NEW kind \in Kinds, NEW p \in People \cup {NoOne}
                  PROVE  By(kind, p) \in Call /\ By(kind, p).kind = kind /\ By(kind, p).who = p
  BY NoCallIsCall DEF By, Call, NoCall

(* Whoever has read the row is not overtaken by a transaction in doubt.    *)
LEMMA AdmittedIs == ASSUME SeatsInv, NEW stale, Admitted(stale)
                    PROVE  ghost = {} /\ ~stale /\ tables.run # 0
  BY DEF Admitted, SafeToRead, Locked, RunIsOpen, SeatsInv, DoubtIsKnown

LEMMA PressInv ==
    ASSUME SeatsInv, NEW c \in Call, NEW again, Press(c, again),
           c.kind \in {"join", "joinFirst"} => c.who \in People
    PROVE  Good
  BY AdmittedIs, JoinInv, LeaveInv, CompleteInv, SwapInv DEF Press

LEMMA ModerateInv ==
    ASSUME SeatsInv, NEW c \in Call, Moderate(c), c.target => last.block < limits.blocks
    PROVE  Good
  BY AdmittedIs, RemoveInv, UnblockInv DEF Moderate

LEMMA TurnedAwayInv == ASSUME SeatsInv, NEW stale, TurnedAway(stale) PROVE Good
  <1>1. Rest'
    BY NoCallIsCall, LimitsKept DEF TurnedAway, SeatsInv, Rest
  <1>2. Grows /\ noted'.kind \in {"none", "self", "slot"}
    BY LimitsAre DEF TurnedAway, SeatsInv, Grows, Rest
  <1>3. DoubtIsKnown'
    BY AdmittedIs DEF TurnedAway, SafeToRead, Locked, SeatsInv, DoubtIsKnown
  <1> QED BY <1>1, <1>2, <1>3, QuietInv, SilenceIsTrue DEF TurnedAway, Good

LEMMA CallsInv == ASSUME SeatsInv, Calls PROVE Good
  <1>0. /\ limits.people \subseteq People /\ Made \subseteq Nat /\ 1..last.block \subseteq Nat
        /\ Positions \subseteq 0..Capacity /\ Capacity \in Nat
    BY LimitsAre, EntriesAssumption DEF SeatsInv, Made, Positions
  <1>1. CASE PressTurnedAway \/ ModerationTurnedAway
    BY <1>1, TurnedAwayInv DEF PressTurnedAway, ModerationTurnedAway
  <1>2. CASE PressOfMenu
    <2>1. PICK p \in limits.people, kind \in {"joinFirst", "leave", "self"} : Press(By(kind, p), FALSE)
      BY <1>2 DEF PressOfMenu
    <2>2. p \in People /\ kind \in Kinds
      BY <1>0 DEF Kinds
    <2> QED BY <2>1, <2>2, ByIsCall, PressInv
  <1>3. CASE PressOfFreeSeat
    <2>1. PICK p \in limits.people, n \in Positions :
                Press([By("join", p) EXCEPT !.position = n], FALSE)
      BY <1>3 DEF PressOfFreeSeat
    <2> DEFINE c == [By("join", p) EXCEPT !.position = n]
    <2>2. c \in Call /\ c.who \in People
      BY <1>0, ByIsCall DEF Call, Kinds
    <2> QED BY <2>1, <2>2, PressInv
  <1>4. CASE PressOfTakenSeat
    <2>1. PICK p \in limits.people, id \in Made, n \in Positions, v \in BOOLEAN :
                Press([By("slot", p) EXCEPT !.id = id, !.position = n, !.target = v], FALSE)
      BY <1>4 DEF PressOfTakenSeat
    <2> DEFINE d == By("slot", p)
               c == [d EXCEPT !.id = id, !.position = n, !.target = v]
    <2>2. d \in Call /\ d.who \in People
      BY <1>0, ByIsCall DEF Kinds
    <2>3. id \in Nat /\ n \in 0..Capacity /\ v \in BOOLEAN
      BY <1>0
    <2>4. Press(c, FALSE)
      BY <2>1
    <2> HIDE DEF d
    <2>5. c \in Call /\ c.who \in People
      BY <2>2, <2>3 DEF Call
    <2> QED BY <2>4, <2>5, PressInv
  <1>5. CASE PressAgain
    BY <1>5, PressInv DEF PressAgain, SeatsInv, Rest
  <1>6. CASE ConfirmedSwap
    <2>1. PICK a \in Made, b \in Made, i \in Positions, k \in Positions :
                Press([By("swap", NoOne) EXCEPT !.id = a, !.position = i,
                                                !.other = b, !.otherPosition = k], FALSE)
      BY <1>6 DEF ConfirmedSwap
    <2> DEFINE d == By("swap", NoOne)
               c == [d EXCEPT !.id = a, !.position = i, !.other = b, !.otherPosition = k]
    <2>2. d \in Call /\ d.kind = "swap"
      BY ByIsCall DEF Kinds
    <2>3. a \in Nat /\ b \in Nat /\ i \in 0..Capacity /\ k \in 0..Capacity
      BY <1>0
    <2>4. Press(c, FALSE)
      BY <2>1
    <2> HIDE DEF d
    <2>5. c \in Call /\ c.kind = "swap"
      BY <2>2, <2>3 DEF Call
    <2> QED BY <2>4, <2>5, PressInv
  <1>7. CASE RemovalByModerator
    <2>1. PICK id \in Made, r \in Runs, block \in BOOLEAN :
                /\ block => last.block < limits.blocks
                /\ Moderate([By("remove", NoOne) EXCEPT !.run = r, !.id = id, !.target = block])
      BY <1>7 DEF RemovalByModerator
    <2> DEFINE d == By("remove", NoOne)
               c == [d EXCEPT !.run = r, !.id = id, !.target = block]
    <2>2. d \in Call
      BY ByIsCall DEF Kinds
    <2>3. id \in Nat /\ r \in {0} \cup Runs /\ block \in BOOLEAN
      BY <1>0
    <2>4. Moderate(c)
      BY <2>1
    <2> HIDE DEF d
    <2>5. c \in Call /\ c.target = block
      BY <2>2, <2>3 DEF Call
    <2> QED BY <2>1, <2>4, <2>5, ModerateInv
  <1>8. CASE UnblockByModerator
    <2>1. PICK id \in 1..last.block, r \in Runs :
                Moderate([By("unblock", NoOne) EXCEPT !.run = r, !.id = id])
      BY <1>8 DEF UnblockByModerator
    <2> DEFINE d == By("unblock", NoOne)
               c == [d EXCEPT !.run = r, !.id = id]
    <2>2. d \in Call
      BY ByIsCall DEF Kinds
    <2>3. d.target = FALSE
      BY DEF By, NoCall
    <2>4. id \in Nat /\ r \in {0} \cup Runs
      BY <1>0
    <2>5. Moderate(c)
      BY <2>1
    <2> HIDE DEF d
    <2>6. c \in Call /\ c.target = FALSE
      BY <2>2, <2>3, <2>4 DEF Call
    <2> QED BY <2>5, <2>6, ModerateInv
  <1> QED BY <1>1, <1>2, <1>3, <1>4, <1>5, <1>6, <1>7, <1>8 DEF Calls

-----------------------------------------------------------------------------
(* The runs of the queue and time.                                         *)

LEMMA LifecycleInv == ASSUME SeatsInv, Lifecycle PROVE Good
  <1>0. /\ Data /\ Rest /\ NoCall \in Call /\ NoAnswer \in Answer /\ DoubtIsKnown
        /\ last \in Sequences /\ (UNCHANGED <<last, limits>> => Grows)
        /\ noted \in Call /\ noted.kind \in {"none", "self", "slot"}
    BY NoCallIsCall, LimitsAre DEF SeatsInv, Rest, Grows
  <1>1. ASSUME NEW r \in Runs, BeginQueueRun(r) PROVE Good
    <2>1. /\ Transact(Empty(r), NoCall, FALSE) /\ Sound(Empty(r), last')
          /\ Does(tables, Empty(r), NoCall)
      BY <1>0, <1>1, EmptySound, EmptyDoes DEF BeginQueueRun, AfterReading
    <2>2. closing' \in BOOLEAN /\ clock' \in 0..2 * limits.runs
      BY <1>0, <1>1 DEF BeginQueueRun, Rest
    <2>3. SeatsInv' /\ Changes
      BY <1>0, <1>1, <2>1, <2>2, TransactInv DEF BeginQueueRun, AfterReading
    <2> QED BY <1>1, <2>3, SilenceIsTrue DEF BeginQueueRun, AfterReading, Good
  <1>2. CASE SetQueueMessageID
    <2> DEFINE t == [tables EXCEPT !.message = last.message + 1]
    <2>1. /\ Sound(tables, last) /\ tables \in Tables
          /\ last.message \in Nat /\ limits.messages \in Nat
          /\ last.entry \in Nat /\ last.block \in Nat
      BY <1>0, TablesSound, LimitsAre
    <2>2. Grows
      BY <1>0, <1>2, <2>1, LimitsKept DEF SetQueueMessageID, Sequences, Grows
    <2>3. /\ t \in Tables /\ t.entries = tables.entries
          /\ t.blocks = tables.blocks /\ t.run = tables.run
      BY <1>2, <2>1 DEF SetQueueMessageID, Tables
    <2>4. Sound(t, last) /\ Does(tables, t, NoCall)
      BY <2>1, <2>3, FewerSound DEF Does, Stays, SameBlocks
    <2>5. Sound(t, last')
      BY <1>2, <2>2, <2>4, SoundGrows DEF SetQueueMessageID
    <2>6. Transact(t, NoCall, uncertain) /\ answer' = NoAnswer /\ UNCHANGED <<closing, clock, noted, limits>>
      BY <1>2 DEF SetQueueMessageID, Afterwards
    <2>7. closing' \in BOOLEAN /\ clock' \in 0..2 * limits.runs /\ uncertain \in BOOLEAN
      BY <1>0, <2>6 DEF Rest
    <2>8. SeatsInv' /\ Changes
      BY <1>0, <2>2, <2>4, <2>5, <2>6, <2>7, TransactInv
    <2> QED BY <2>6, <2>8, SilenceIsTrue DEF Good
  <1>3. CASE RequestClose
    <2>1. Rest' /\ DoubtIsKnown'
      BY <1>0, <1>3, LimitsKept DEF RequestClose, Rest, DoubtIsKnown
    <2>2. SeatsInv' /\ Changes
      BY <1>0, <1>3, <2>1, QuietInv DEF RequestClose
    <2> QED BY <1>3, <2>2, SilenceIsTrue DEF Good, RequestClose
  <1>4. CASE FinishQueueRun
    <2>1. PICK doubt \in BOOLEAN : Transact(Empty(0), NoCall, doubt) /\ answer' = NoAnswer
      BY <1>0, <1>4 DEF FinishQueueRun, Afterwards, AfterReading, Rest
    <2>2. Sound(Empty(0), last') /\ Does(tables, Empty(0), NoCall)
      BY <1>0, EmptySound, EmptyDoes
    <2>3. noted' \in Call /\ noted'.kind \in {"none", "self", "slot"}
      BY <1>0, <1>4 DEF FinishQueueRun, NoCall
    <2>4. closing' \in BOOLEAN /\ clock' \in 0..2 * limits.runs
      BY <1>0, <1>4 DEF FinishQueueRun, Rest
    <2>5. SeatsInv' /\ Changes
      BY <1>0, <1>4, <2>1, <2>2, <2>3, <2>4, TransactInv DEF FinishQueueRun
    <2> QED BY <2>1, <2>5, SilenceIsTrue DEF Good
  <1> QED BY <1>1, <1>2, <1>3, <1>4 DEF Lifecycle

(* A block that expires is taken out of what is in doubt, too.             *)
Without(t, b) == [t EXCEPT !.blocks = @ \ {b}]

LEMMA WithoutIs == ASSUME NEW t \in Tables, NEW b
                   PROVE  /\ Without(t, b) \in Tables /\ Without(t, b).entries = t.entries
                          /\ Without(t, b).blocks = t.blocks \ {b} /\ Without(t, b).run = t.run
  BY DEF Tables, Without

LEMMA DoesWithout ==
    ASSUME NEW t \in Tables, NEW u \in Tables, NEW c, Does(t, u, c), NEW b
    PROVE  Does(Without(t, b), Without(u, b), c)
  <1> DEFINE v == Without(t, b)
             w == Without(u, b)
  <1>1. /\ v.entries = t.entries /\ v.blocks = t.blocks \ {b} /\ v.run = t.run
        /\ w.entries = u.entries /\ w.blocks = u.blocks \ {b} /\ w.run = u.run
    BY WithoutIs
  <1> SUFFICES Does(v, w, c)
    OBVIOUS
  <1> HIDE DEF v, w
  <1>2. SameBlocks(t, u) => SameBlocks(v, w)
    BY <1>1 DEF SameBlocks
  <1>3. CASE Enters(t, u)
    <2>1. Enters(v, w)
      BY <1>1, <1>2, <1>3 DEF Enters
    <2> QED BY <2>1 DEF Does
  <1>4. CASE Leaves(t, u, c) \/ Marks(t, u, c) \/ Swaps(t, u, c)
    <2>1. Leaves(t, u, c) => Leaves(v, w, c)
      BY <1>1, <1>2 DEF Leaves
    <2>2. Marks(t, u, c) => Marks(v, w, c)
      BY <1>1, <1>2 DEF Marks
    <2>3. Swaps(t, u, c) => Swaps(v, w, c)
      BY <1>1, <1>2 DEF Swaps
    <2> QED BY <1>4, <2>1, <2>2, <2>3 DEF Does
  <1>5. CASE Removes(t, u, c)
    <2>1. PICK e \in t.entries :
            /\ u.entries = t.entries \ {e} /\ e.id = c.id
            /\ u.blocks = t.blocks \/ \E d \in Block : d.user = e.user /\ u.blocks = t.blocks \cup {d}
      BY <1>5 DEF Removes
    <2>2. w.blocks = v.blocks \/ \E d \in Block : d.user = e.user /\ w.blocks = v.blocks \cup {d}
      <3>1. CASE u.blocks = t.blocks
        BY <1>1, <3>1
      <3>2. ASSUME NEW d \in Block, d.user = e.user, u.blocks = t.blocks \cup {d}
            PROVE  w.blocks = v.blocks \/ w.blocks = v.blocks \cup {d}
        <4>1. CASE d = b
          BY <1>1, <3>2, <4>1
        <4>2. CASE d # b
          BY <1>1, <3>2, <4>2
        <4> QED BY <4>1, <4>2
      <3> QED BY <2>1, <3>1, <3>2
    <2>3. Removes(v, w, c)
      BY <1>1, <1>5, <2>1, <2>2 DEF Removes
    <2> QED BY <2>3 DEF Does
  <1>6. CASE Unblocks(t, u, c)
    <2>1. PICK d \in t.blocks : u.blocks = t.blocks \ {d} /\ d.id = c.id
      BY <1>6 DEF Unblocks
    <2>2. CASE d = b
      BY <1>1, <1>6, <2>1, <2>2 DEF Unblocks, Stays, SameBlocks, Does
    <2>3. CASE d # b
      <3>1. d \in v.blocks /\ w.blocks = v.blocks \ {d}
        BY <1>1, <2>1, <2>3
      <3>2. Unblocks(v, w, c)
        BY <1>1, <1>6, <2>1, <3>1 DEF Unblocks
      <3> QED BY <3>2 DEF Does
    <2> QED BY <2>2, <2>3
  <1>7. CASE Clears(t, u) \/ Stays(t, u)
    <2>1. Clears(t, u) => Clears(v, w)
      BY <1>1 DEF Clears
    <2>2. Stays(t, u) => Stays(v, w)
      BY <1>1, <1>2 DEF Stays
    <2> QED BY <1>7, <2>1, <2>2 DEF Does
  <1> QED BY <1>3, <1>4, <1>5, <1>6, <1>7 DEF Does

LEMMA WorldInv == ASSUME SeatsInv, World PROVE Good
  <1>0. /\ Data /\ Rest /\ NoCall \in Call /\ NoAnswer \in Answer /\ DoubtIsKnown
        /\ last \in Sequences /\ (UNCHANGED <<last, limits>> => Grows)
        /\ noted \in Call /\ noted.kind \in {"none", "self", "slot"}
    BY NoCallIsCall, LimitsAre DEF SeatsInv, Rest, Grows
  <1>1. CASE GhostLands
    <2>1. /\ ghost' = {} /\ answer' = NoAnswer
          /\ UNCHANGED <<uncertain, closing, clock, noted, last, faults, limits>>
      BY <1>1 DEF GhostLands
    <2>2. Sound(tables', last) /\ cause' \in Call /\ Does(tables, tables', cause')
      <3>1. ASSUME NEW g \in ghost, tables' = g.tables, cause' = g.by
            PROVE  Sound(tables', last) /\ cause' \in Call /\ Does(tables, tables', cause')
        BY <3>1, TablesSound DEF SeatsInv
      <3>2. CASE cause' = NoCall /\ UNCHANGED tables
        BY <1>0, <3>2, TablesSound, StaysIs
      <3> QED BY <1>1, <3>1, <3>2 DEF GhostLands
    <2>3. Data'
      BY <2>1, <2>2, LimitsKept DEF Data, Sound
    <2>4. Rest' /\ DoubtIsKnown'
      BY <1>0, <2>1, <2>2, LimitsKept DEF Rest, DoubtIsKnown
    <2>5. \A t \in Outcomes' : Sound(t, last)'
      BY <2>1, <2>2, LimitsKept DEF Outcomes, Sound
    <2>6. SeatsInv'
      BY <1>0, <2>1, <2>3, <2>4, <2>5 DEF SeatsInv
    <2> QED BY <2>1, <2>2, <2>6, SilenceIsTrue DEF Good, Changes
  <1>2. CASE Tick
    <2>1. limits.runs \in Nat
      BY <1>0, LimitsAre
    <2>2. clock' \in 0..2 * limits'.runs
      BY <1>0, <1>2, <2>1 DEF Tick, Rest
    <2>3. Rest' /\ DoubtIsKnown'
      BY <1>0, <1>2, <2>2, LimitsKept DEF Tick, Rest, DoubtIsKnown
    <2>4. SeatsInv' /\ Changes
      BY <1>0, <1>2, <2>3, QuietInv DEF Tick
    <2> QED BY <1>2, <2>4, SilenceIsTrue DEF Good, Tick
  <1>3. ASSUME NEW b \in tables.blocks, BlockExpires(b) PROVE Good
    <2>1. /\ tables' = Without(tables, b)
          /\ ghost' = {[g EXCEPT !.tables.blocks = @ \ {b}] : g \in ghost}
          /\ cause' = NoCall /\ answer' = NoAnswer
          /\ UNCHANGED <<uncertain, closing, clock, noted, last, faults, limits>>
      BY <1>3 DEF BlockExpires, Without
    <2>2. ASSUME NEW t, Sound(t, last) PROVE Sound(Without(t, b), last)
      BY <2>2, WithoutIs, FewerSound DEF Sound
    <2>3. ASSUME NEW g \in ghost
          PROVE  LET h == [g EXCEPT !.tables.blocks = @ \ {b}]
                 IN  /\ h \in Ghost /\ h.tables = Without(g.tables, b) /\ h.by = g.by
                     /\ Sound(h.tables, last) /\ Does(tables', h.tables, h.by)
      <3>1. g \in Ghost /\ Sound(g.tables, last) /\ g.tables \in Tables
        BY <1>0, TablesSound DEF Data, Sound
      <3>2. [g EXCEPT !.tables.blocks = @ \ {b}] = [g EXCEPT !.tables = Without(g.tables, b)]
        BY <3>1 DEF Ghost, Tables, Without
      <3>3. Sound(Without(g.tables, b), last) /\ Without(g.tables, b) \in Tables
        BY <3>1, <2>2, WithoutIs
      <3>4. Does(Without(tables, b), Without(g.tables, b), g.by)
        BY <3>1, DoesWithout, TablesSound DEF SeatsInv
      <3>5. [g EXCEPT !.tables = Without(g.tables, b)].tables = Without(g.tables, b)
            /\ [g EXCEPT !.tables = Without(g.tables, b)].by = g.by
            /\ [g EXCEPT !.tables = Without(g.tables, b)] \in Ghost
        BY <3>1, <3>3 DEF Ghost
      <3> QED BY <2>1, <3>2, <3>3, <3>4, <3>5
    <2>4. Data'
      <3>1. tables' \in Tables
        BY <2>1, WithoutIs, TablesSound
      <3>2. ghost' \subseteq Ghost
        BY <2>1, <2>3
      <3>3. \A g, h \in ghost' : g = h
        BY <1>0, <2>1 DEF Data
      <3> QED BY <2>1, <3>1, <3>2, <3>3, LimitsKept DEF Data
    <2>5. Rest' /\ DoubtIsKnown'
      BY <1>0, <2>1, LimitsKept DEF Rest, DoubtIsKnown
    <2>6. Sound(tables', last) /\ \A g \in ghost' : Sound(g.tables, last) /\ Does(tables', g.tables, g.by)
      BY <2>1, <2>2, <2>3, TablesSound
    <2>7. \A t \in Outcomes' : Sound(t, last)'
      BY <2>1, <2>6, LimitsKept DEF Outcomes, Sound
    <2>8. \A g \in ghost' : Does(tables, g.tables, g.by)'
      BY <2>1, <2>6, LimitsKept
         DEF Does, Enters, Removes, Leaves, Marks, Swaps, Unblocks, Clears, Stays, SameBlocks
    <2>9. SeatsInv'
      BY <1>0, <2>1, <2>4, <2>5, <2>7, <2>8 DEF SeatsInv
    <2> QED BY <1>3, <2>1, <2>9, SilenceIsTrue DEF Good, Changes
  <1> QED BY <1>1, <1>2, <1>3 DEF World

-----------------------------------------------------------------------------
LEMMA SeatsInitially == ASSUME Init PROVE SeatsInv /\ AnswersAreTrue
  <1>1. PICK l \in Limits : limits = l
    BY DEF Init
  <1>2. {l.runs, l.entries, l.blocks, l.messages, MaxFaults} \subseteq Nat
    BY EntriesAssumption
  <1>3. Rest
    <2>1. clock \in 0..2 * limits.runs /\ faults \in 0..MaxFaults
      BY <1>1, <1>2 DEF Init
    <2>2. last \in Sequences
      BY <1>1, <1>2 DEF Init, Sequences
    <2> QED BY <2>1, <2>2, NoCallIsCall DEF Init, Rest
  <1>4. Sound(tables, last) /\ ghost = {}
    BY <1>3, EmptySound DEF Init
  <1>5. SeatsInv
    BY <1>3, <1>4 DEF Init, SeatsInv, Data, Outcomes, Sound, NoCall, DoubtIsKnown
  <1> QED BY <1>5 DEF Init, AnswersAreTrue, NoAnswer

(* A step of the specification keeps the invariant, and changes the tables *)
(* only as a call can, or by letting a block expire.                       *)
LEMMA StepsAreGood == ASSUME SeatsInv, AnswersAreTrue, [Next]_vars PROVE Good
  <1>1. CASE Next
    BY <1>1, CallsInv, LifecycleInv, WorldInv DEF Next
  <1>2. CASE UNCHANGED vars
    <2>1. Rest' /\ Grows /\ DoubtIsKnown'
      BY <1>2, LimitsKept, LimitsAre DEF SeatsInv, Rest, vars, Grows, DoubtIsKnown
    <2>2. SeatsInv' /\ Changes
      BY <1>2, <2>1, QuietInv DEF SeatsInv, vars
    <2>3. AnswersAreTrue'
      BY <1>2 DEF vars, AnswersAreTrue, Outcomes, Positions, Mine
    <2> QED BY <2>2, <2>3 DEF Good
  <1> QED BY <1>1, <1>2

-----------------------------------------------------------------------------
(* What the changes have in common: the people who stay.                   *)

LEMMA KeptIs ==
    ASSUME NEW t, NEW u, NEW c, NEW l, Sound(t, l), Does(t, u, c), NEW k \in Kept(t, u)
    PROVE  \/ k[1] = k[2]
           \/ /\ k[1].id = k[2].id /\ k[1].position = k[2].position
              /\ AskedFor(c, k[1], k[2].completed)
           \/ /\ k[1].completed = k[2].completed /\ c.kind = "swap"
              /\ \E o \in Kept(t, u) :
                    /\ o[1].position = k[2].position /\ o[2].position = k[1].position
                    /\ {<<c.id, c.position>>, <<c.other, c.otherPosition>>}
                          = {<<k[1].id, k[1].position>>, <<o[1].id, o[1].position>>}
  <1>1. k[1] \in t.entries /\ k[2] \in u.entries /\ k[1].user = k[2].user
    BY DEF Kept
  <1>2. Distinct(t) /\ t.entries \subseteq Entry
    BY DEF Sound, Tables
  <1>3. k[2] \in t.entries => k[1] = k[2]
    BY <1>1, <1>2 DEF Distinct
  <1>4. CASE Enters(t, u) \/ Leaves(t, u, c) \/ Removes(t, u, c)
    BY <1>1, <1>3, <1>4 DEF Enters, Leaves, Removes
  <1>5. CASE Unblocks(t, u, c) \/ Clears(t, u) \/ Stays(t, u)
    BY <1>1, <1>3, <1>5 DEF Unblocks, Clears, Stays
  <1>6. CASE Marks(t, u, c)
    <2>1. PICK e \in t.entries, v \in BOOLEAN :
            u.entries = (t.entries \ {e}) \cup {[e EXCEPT !.completed = v]} /\ AskedFor(c, e, v)
      BY <1>6 DEF Marks
    <2> DEFINE new == [e EXCEPT !.completed = v]
    <2>2. new.id = e.id /\ new.user = e.user /\ new.position = e.position /\ new.completed = v
      BY <1>2 DEF Entry
    <2>3. k[2] \in t.entries \/ k[2] = new
      BY <1>1, <2>1
    <2> HIDE DEF new
    <2>4. k[2] = new => k[1] = e
      BY <1>1, <1>2, <2>2 DEF Distinct
    <2> QED BY <1>3, <1>6, <2>1, <2>2, <2>3, <2>4 DEF Marks
  <1>7. CASE Swaps(t, u, c)
    <2>1. PICK a \in t.entries, b \in t.entries :
            /\ a # b
            /\ u.entries = (t.entries \ {a, b}) \cup {[a EXCEPT !.position = b.position],
                                                      [b EXCEPT !.position = a.position]}
            /\ {<<c.id, c.position>>, <<c.other, c.otherPosition>>}
                  = {<<a.id, a.position>>, <<b.id, b.position>>}
      BY <1>7 DEF Swaps
    <2> DEFINE a2 == [a EXCEPT !.position = b.position]
               b2 == [b EXCEPT !.position = a.position]
    <2>2. /\ a2.id = a.id /\ a2.user = a.user /\ a2.position = b.position /\ a2.completed = a.completed
          /\ b2.id = b.id /\ b2.user = b.user /\ b2.position = a.position /\ b2.completed = b.completed
      BY <1>2 DEF Entry
    <2>3. (k[2] \in t.entries \/ k[2] \in {a2, b2}) /\ {a2, b2} \subseteq u.entries
      BY <1>1, <2>1
    <2> HIDE DEF a2, b2
    <2>4. (k[2] = a2 => k[1] = a) /\ (k[2] = b2 => k[1] = b)
      BY <1>1, <1>2, <2>2 DEF Distinct
    <2>5. <<a, a2>> \in Kept(t, u) /\ <<b, b2>> \in Kept(t, u)
      BY <2>1, <2>2, <2>3 DEF Kept
    <2>6. CASE k[2] = a2
      <3> DEFINE o == <<b, b2>>
      <3>1. o[1] = b /\ o[2] = b2 /\ o \in Kept(t, u)
        BY <2>5
      <3> HIDE DEF o
      <3>2. {<<c.id, c.position>>, <<c.other, c.otherPosition>>}
              = {<<k[1].id, k[1].position>>, <<o[1].id, o[1].position>>}
        BY <2>1, <2>4, <2>6, <3>1
      <3> QED BY <1>7, <2>2, <2>4, <2>6, <3>1, <3>2 DEF Swaps
    <2>7. CASE k[2] = b2
      <3> DEFINE o == <<a, a2>>
      <3>1. o[1] = a /\ o[2] = a2 /\ o \in Kept(t, u)
        BY <2>5
      <3> HIDE DEF o
      <3>2. {<<c.id, c.position>>, <<c.other, c.otherPosition>>}
              = {<<k[1].id, k[1].position>>, <<o[1].id, o[1].position>>}
        BY <2>1, <2>4, <2>7, <3>1
      <3> QED BY <1>7, <2>2, <2>4, <2>7, <3>1, <3>2 DEF Swaps
    <2> QED BY <1>3, <2>3, <2>6, <2>7
  <1> QED BY <1>4, <1>5, <1>6, <1>7 DEF Does

LEMMA DoesAgreed == ASSUME NEW t, NEW u, NEW c, NEW l, Sound(t, l), Does(t, u, c)
                    PROVE  AgreedSwaps(t, u, c) /\ OwnMarks(t, u, c)
  BY KeptIs DEF AgreedSwaps, OwnMarks

LEMMA DoesKeepPlaces == ASSUME NEW t, NEW u, NEW c, NEW l, Sound(t, l), Does(t, u, c)
                        PROVE  KeptPlaces(t, u, c)
  <1> SUFFICES ASSUME NEW e \in t.entries, \A f \in u.entries : f.user # e.user
               PROVE  \/ u.run # t.run
                      \/ c.kind = "leave" /\ c.who = e.user
                      \/ c.kind = "remove" /\ c.id = e.id /\ c.run = t.run
    BY DEF KeptPlaces
  <1>1. e \notin u.entries /\ t.entries \subseteq Entry
    BY DEF Sound, Tables
  <1>2. CASE Enters(t, u) \/ Leaves(t, u, c) \/ Removes(t, u, c)
    BY <1>1, <1>2 DEF Enters, Leaves, Removes
  <1>3. CASE Unblocks(t, u, c) \/ Clears(t, u) \/ Stays(t, u)
    BY <1>1, <1>3 DEF Unblocks, Clears, Stays
  <1>4. CASE Marks(t, u, c)
    <2>1. PICK f \in t.entries, v \in BOOLEAN :
            u.entries = (t.entries \ {f}) \cup {[f EXCEPT !.completed = v]}
      BY <1>4 DEF Marks
    <2>2. [f EXCEPT !.completed = v].user = f.user /\ [f EXCEPT !.completed = v] \in u.entries
      BY <1>1, <2>1 DEF Entry
    <2> QED BY <1>1, <2>1, <2>2
  <1>5. CASE Swaps(t, u, c)
    <2>1. PICK a \in t.entries, b \in t.entries :
            u.entries = (t.entries \ {a, b}) \cup {[a EXCEPT !.position = b.position],
                                                   [b EXCEPT !.position = a.position]}
      BY <1>5 DEF Swaps
    <2>2. /\ [a EXCEPT !.position = b.position].user = a.user
          /\ [b EXCEPT !.position = a.position].user = b.user
          /\ {[a EXCEPT !.position = b.position], [b EXCEPT !.position = a.position]} \subseteq u.entries
      BY <1>1, <2>1 DEF Entry
    <2> QED BY <1>1, <2>1, <2>2
  <1> QED BY <1>2, <1>3, <1>4, <1>5 DEF Does

LEMMA DoesKeepBlocks == ASSUME NEW t, NEW u, NEW c, Does(t, u, c) PROVE KeptBlocks(t, u, c)
  <1> SUFFICES ASSUME NEW b \in t.blocks, b \notin u.blocks
               PROVE  u.run # t.run \/ (c.kind = "unblock" /\ c.id = b.id)
    BY DEF KeptBlocks
  <1>1. ~SameBlocks(t, u)
    BY DEF SameBlocks
  <1>2. ~Removes(t, u, c)
    BY DEF Removes
  <1>3. Unblocks(t, u, c) \/ Clears(t, u)
    BY <1>1, <1>2 DEF Does, Enters, Leaves, Marks, Swaps, Stays
  <1> QED BY <1>3 DEF Unblocks, Clears

(* The same of the steps of the specification.                             *)
LEMMA ChangesAreLawful ==
    ASSUME SeatsInv, Changes
    PROVE  /\ AgreedSwaps(tables, tables', cause') /\ OwnMarks(tables, tables', cause')
           /\ KeptPlaces(tables, tables', cause')
           /\ KeptBlocks(tables, tables', cause') \/ \E b \in tables.blocks : BlockExpires(b)
  <1>1. Sound(tables, last)
    BY TablesSound
  <1>2. CASE Does(tables, tables', cause')
    BY <1>1, <1>2, DoesAgreed, DoesKeepPlaces, DoesKeepBlocks
  <1>3. ASSUME NEW b \in tables.blocks, BlockExpires(b)
        PROVE  /\ AgreedSwaps(tables, tables', cause') /\ OwnMarks(tables, tables', cause')
               /\ KeptPlaces(tables, tables', cause')
    <2>1. tables'.entries = tables.entries
      BY <1>3, TablesSound, WithoutIs DEF BlockExpires, Without
    <2>2. \A k \in Kept(tables, tables') : k[1] = k[2]
      BY <1>1, <2>1 DEF Kept, Sound, Distinct
    <2> QED BY <2>1, <2>2 DEF AgreedSwaps, OwnMarks, KeptPlaces
  <1> QED BY <1>2, <1>3 DEF Changes

-----------------------------------------------------------------------------
(* The theorems.                                                           *)

(* The invariant, and with it the types, holds of every behaviour of the   *)
(* repositories db/queue_repo.go and db/moderation_repo.go and of the      *)
(* presses and moderators' calls that use them.                            *)
THEOREM SeatsInvariant == Spec => [](SeatsInv /\ AnswersAreTrue)
  <1>1. Init => SeatsInv /\ AnswersAreTrue
    BY SeatsInitially
  <1>2. (SeatsInv /\ AnswersAreTrue) /\ [Next]_vars => (SeatsInv /\ AnswersAreTrue)'
    BY StepsAreGood DEF Good
  <1> QED BY <1>1, <1>2, PTL DEF Spec

(* Nobody stands in the queue twice and no place has two people, whatever  *)
(* becomes of a transaction whose answer was lost                          *)
(* (JoinQueue and JoinFirstFreeSlotWithName in db/queue_repo.go).          *)
THEOREM OneSeatEachAlways == Spec => []OneSeatEach
  <1>1. SeatsInv => OneSeatEach
    BY TypesAre DEF SeatsInv, OneSeatEach, Distinct, Sound
  <1> QED BY <1>1, SeatsInvariant, PTL

(* Who was removed with a block does not stand in that run again before    *)
(* the block expires or is lifted (db/moderation_repo.go, checkQueueRejoin *)
(* in db/queue_repo.go).                                                   *)
THEOREM BlockedStayOutAlways == Spec => []BlockedStayOut
  <1>1. SeatsInv => BlockedStayOut
    BY DEF SeatsInv, BlockedStayOut, BarsHold, Sound
  <1> QED BY <1>1, SeatsInvariant, PTL

(* What people are told is true of the tables and of whatever a            *)
(* transaction in doubt may make of them (readSchedule and the presses in  *)
(* queue/service.go).                                                      *)
THEOREM AnswersAreTrueAlways == Spec => []AnswersAreTrue
  BY SeatsInvariant, PTL

(* People change places only in pairs, as both of them were named with the *)
(* places they had (SwapQueueEntries in db/queue_repo.go).                 *)
THEOREM SwapsAreAgreedAlways == Spec => SwapsAreAgreed
  <1>1. SeatsInv /\ AnswersAreTrue /\ [Next]_vars => [AgreedSwaps(tables, tables', cause')]_tables
    BY StepsAreGood, ChangesAreLawful DEF Good
  <1> QED BY <1>1, SeatsInvariant, PTL DEF Spec, SwapsAreAgreed

(* A mark is set and cleared by its owner or by somebody allowed to, on    *)
(* a button drawn for that very entry in that place, not for somebody who  *)
(* had the place before, and moves with its owner (Complete in             *)
(* queue/service.go, SetCompleted in db/queue_repo.go).                    *)
THEOREM MarksFollowPeopleAlways == Spec => MarksFollowPeople
  <1>1. SeatsInv /\ AnswersAreTrue /\ [Next]_vars => [OwnMarks(tables, tables', cause')]_tables
    BY StepsAreGood, ChangesAreLawful DEF Good
  <1> QED BY <1>1, SeatsInvariant, PTL DEF Spec, MarksFollowPeople

(* Nobody loses his place but by leaving, by a removal that named his very *)
(* entry, or with the end of the run (LeaveQueue in db/queue_repo.go,      *)
(* RemoveQueueEntry in db/moderation_repo.go).                             *)
THEOREM PlacesAreKeptAlways == Spec => PlacesAreKept
  <1>1. SeatsInv /\ AnswersAreTrue /\ [Next]_vars => [KeptPlaces(tables, tables', cause')]_tables
    BY StepsAreGood, ChangesAreLawful DEF Good
  <1> QED BY <1>1, SeatsInvariant, PTL DEF Spec, PlacesAreKept

(* A block is lifted by the button of that very block, by time or with its *)
(* run, and by nothing else (db/moderation_repo.go).                       *)
THEOREM BlocksAreKeptAlways == Spec => BlocksAreKept
  <1>1. SeatsInv /\ AnswersAreTrue /\ [Next]_vars =>
            [\/ KeptBlocks(tables, tables', cause')
             \/ \E b \in tables.blocks : BlockExpires(b)]_tables
    BY StepsAreGood, ChangesAreLawful DEF Good
  <1> QED BY <1>1, SeatsInvariant, PTL DEF Spec, BlocksAreKept

-----------------------------------------------------------------------------
(* The refinement: what the people see of tables t.                        *)
EntriesOf(t, p) == {e \in t.entries : e.user = p}
PlaceIn(t, p) == IF EntriesOf(t, p) = {} THEN 0 ELSE (CHOOSE e \in EntriesOf(t, p) : TRUE).position
PlacesIn(t) == [p \in People |-> PlaceIn(t, p)]
MarkedIn(t) == {e.user : e \in {e \in t.entries : e.completed}}
BarredIn(t) == {b.user : b \in t.blocks}

LEMMA SeatingIs == /\ [p \in People |-> PlaceOf(p)] = PlacesIn(tables)
                   /\ {e.user : e \in {e \in tables.entries : e.completed}} = MarkedIn(tables)
                   /\ {b.user : b \in tables.blocks} = BarredIn(tables)
  BY DEF PlaceOf, PlacesIn, PlaceIn, SeatsOf, EntriesOf, MarkedIn, BarredIn

LEMMA PlacesAre ==
    ASSUME NEW t, NEW l, Sound(t, l)
    PROVE  /\ \A e \in t.entries : /\ e.user \in People /\ e.position \in 1..Capacity /\ e.position # 0
                                   /\ PlacesIn(t)[e.user] = e.position
           /\ \A p \in People : (\A e \in t.entries : e.user # p) => PlacesIn(t)[p] = 0
           /\ \A p \in People : PlacesIn(t)[p] # 0 => \E e \in t.entries : e.user = p
           /\ BarredIn(t) \subseteq People /\ MarkedIn(t) \subseteq People
  <1>1. t.entries \subseteq Entry /\ t.blocks \subseteq Block /\ Distinct(t)
    BY DEF Sound, Tables
  <1>2. ASSUME NEW e \in t.entries
        PROVE  /\ e.user \in People /\ e.position \in 1..Capacity /\ e.position # 0
               /\ PlacesIn(t)[e.user] = e.position
    <2>1. e.user \in People /\ e.position \in 1..Capacity /\ e.position # 0
      BY <1>1, EntriesAssumption DEF Entry, Positions
    <2>2. EntriesOf(t, e.user) = {e}
      BY <1>1 DEF EntriesOf, Distinct
    <2> QED BY <2>1, <2>2 DEF PlacesIn, PlaceIn
  <1>3. \A p \in People : (\A e \in t.entries : e.user # p) => PlacesIn(t)[p] = 0
    BY DEF PlacesIn, PlaceIn, EntriesOf
  <1>4. BarredIn(t) \subseteq People /\ MarkedIn(t) \subseteq People
    BY <1>1 DEF BarredIn, MarkedIn, Block, Entry
  <1> QED BY <1>2, <1>3, <1>4

(* Whoever has the same entries has the same place.                        *)
LEMMA SamePlace == ASSUME NEW t, NEW u, NEW p \in People,
                          \A e : e.user = p => (e \in t.entries <=> e \in u.entries)
                   PROVE  PlacesIn(u)[p] = PlacesIn(t)[p]
  <1>1. EntriesOf(t, p) = EntriesOf(u, p)
    BY DEF EntriesOf
  <1> QED BY <1>1 DEF PlacesIn, PlaceIn

(* Every change of the tables is a step of Seating.                        *)
SeatingStep(t, u) == \* place, marked and barred before and after
    LET pl == PlacesIn(t)  pl2 == PlacesIn(u)
        mk == MarkedIn(t)  mk2 == MarkedIn(u)
        br == BarredIn(t)  br2 == BarredIn(u)
        standing == {p \in People : pl[p] # 0}
    IN  \/ \E p \in People, n \in 1..Capacity :
              /\ p \notin standing \cup br /\ \A q \in People : pl[q] # n
              /\ pl2 = [pl EXCEPT ![p] = n] /\ mk2 = mk /\ br2 = br
        \/ \E p \in standing : /\ pl2 = [pl EXCEPT ![p] = 0] /\ mk2 = mk \ {p}
                               /\ br2 \in {br, br \cup {p}}
        \/ \E p, q \in standing : /\ p # q /\ pl2 = [pl EXCEPT ![p] = pl[q], ![q] = pl[p]]
                                  /\ mk2 = mk /\ br2 = br
        \/ \E p \in standing : mk2 \in {mk \cup {p}, mk \ {p}} /\ pl2 = pl /\ br2 = br
        \/ \E p \in People : br2 = br \ {p} /\ pl2 = pl /\ mk2 = mk
        \/ pl2 = [p \in People |-> 0] /\ mk2 = {} /\ br2 = {}
        \/ pl2 = pl /\ mk2 = mk /\ br2 = br

LEMMA EntersSeating == ASSUME NEW t, NEW u, NEW l, NEW m, Sound(t, l), Sound(u, m), Enters(t, u)
                       PROVE  SeatingStep(t, u)
  <1>1. PICK e \in Entry :
          /\ u.entries = t.entries \cup {e} /\ ~e.completed
          /\ \A f \in t.entries : f.user # e.user /\ f.position # e.position
          /\ \A b \in t.blocks : b.user # e.user
    BY DEF Enters
  <1>2. e \in u.entries /\ e.user \in People /\ e.position \in 1..Capacity
    BY <1>1, PlacesAre
  <1>3. PlacesIn(t)[e.user] = 0 /\ PlacesIn(u)[e.user] = e.position
    BY <1>1, <1>2, PlacesAre
  <1>4. e.user \notin BarredIn(t)
    BY <1>1 DEF BarredIn
  <1>5. \A q \in People : PlacesIn(t)[q] # e.position
    BY <1>1, <1>2, PlacesAre
  <1>6. \A q \in People : q # e.user => PlacesIn(u)[q] = PlacesIn(t)[q]
    BY <1>1, SamePlace
  <1>7. PlacesIn(u) = [PlacesIn(t) EXCEPT ![e.user] = e.position]
    BY <1>2, <1>3, <1>6 DEF PlacesIn
  <1>8. MarkedIn(u) = MarkedIn(t) /\ BarredIn(u) = BarredIn(t)
    BY <1>1 DEF MarkedIn, BarredIn, Enters, SameBlocks
  <1> QED BY <1>2, <1>3, <1>4, <1>5, <1>7, <1>8 DEF SeatingStep

(* Leaving and being removed.                                              *)
LEMMA GoesSeating ==
    ASSUME NEW t, NEW u, NEW l, NEW m, Sound(t, l), Sound(u, m), NEW e \in t.entries,
           u.entries = t.entries \ {e}, BarredIn(u) \in {BarredIn(t), BarredIn(t) \cup {e.user}}
    PROVE  SeatingStep(t, u)
  <1>1. e.user \in People /\ PlacesIn(t)[e.user] # 0
    BY PlacesAre
  <1>2. \A f \in t.entries : f.user = e.user => f = e
    BY DEF Sound, Distinct
  <1>3. PlacesIn(u)[e.user] = 0
    BY <1>1, <1>2, PlacesAre
  <1>4. \A q \in People : q # e.user => PlacesIn(u)[q] = PlacesIn(t)[q]
    BY SamePlace
  <1>5. PlacesIn(u) = [PlacesIn(t) EXCEPT ![e.user] = 0]
    BY <1>3, <1>4 DEF PlacesIn
  <1>6. MarkedIn(u) = MarkedIn(t) \ {e.user}
    BY <1>2 DEF MarkedIn
  <1> QED BY <1>1, <1>5, <1>6 DEF SeatingStep

LEMMA MarksSeating ==
    ASSUME NEW t, NEW u, NEW c, NEW l, NEW m, Sound(t, l), Sound(u, m), Marks(t, u, c)
    PROVE  SeatingStep(t, u)
  <1>1. PICK e \in t.entries, v \in BOOLEAN :
          u.entries = (t.entries \ {e}) \cup {[e EXCEPT !.completed = v]}
    BY DEF Marks
  <1> DEFINE new == [e EXCEPT !.completed = v]
  <1>2. /\ new.user = e.user /\ new.position = e.position /\ new.completed = v
        /\ u.entries = (t.entries \ {e}) \cup {new}
    BY <1>1 DEF Sound, Tables, Entry
  <1> HIDE DEF new
  <1>3. e.user \in People /\ PlacesIn(t)[e.user] # 0 /\ PlacesIn(t)[e.user] = e.position
    BY PlacesAre
  <1>4. \A f \in t.entries : f.user = e.user => f = e
    BY DEF Sound, Distinct
  <1>5. PlacesIn(u)[e.user] = e.position
    BY <1>2, PlacesAre
  <1>6. \A q \in People : q # e.user => PlacesIn(u)[q] = PlacesIn(t)[q]
    BY <1>2, SamePlace
  <1>7. PlacesIn(u) = PlacesIn(t)
    BY <1>3, <1>5, <1>6 DEF PlacesIn
  <1>8. MarkedIn(u) \in {MarkedIn(t) \cup {e.user}, MarkedIn(t) \ {e.user}}
    <2>1. CASE v
      <3>1. \A p : p \in MarkedIn(u) <=> p \in MarkedIn(t) \cup {e.user}
        BY <1>2, <1>4, <2>1 DEF MarkedIn
      <3> QED BY <3>1
    <2>2. CASE ~v
      <3>1. \A p : p \in MarkedIn(u) <=> p \in MarkedIn(t) \ {e.user}
        BY <1>2, <1>4, <2>2 DEF MarkedIn
      <3> QED BY <3>1
    <2> QED BY <2>1, <2>2
  <1>9. BarredIn(u) = BarredIn(t)
    BY DEF Marks, SameBlocks, BarredIn
  <1> QED BY <1>3, <1>7, <1>8, <1>9 DEF SeatingStep

LEMMA SwapsSeating ==
    ASSUME NEW t, NEW u, NEW c, NEW l, NEW m, Sound(t, l), Sound(u, m), Swaps(t, u, c)
    PROVE  SeatingStep(t, u)
  <1>1. PICK a \in t.entries, b \in t.entries :
          /\ a # b
          /\ u.entries = (t.entries \ {a, b}) \cup {[a EXCEPT !.position = b.position],
                                                    [b EXCEPT !.position = a.position]}
    BY DEF Swaps
  <1> DEFINE a2 == [a EXCEPT !.position = b.position]
             b2 == [b EXCEPT !.position = a.position]
  <1>2. /\ a2.user = a.user /\ a2.position = b.position /\ a2.completed = a.completed
        /\ b2.user = b.user /\ b2.position = a.position /\ b2.completed = b.completed
        /\ u.entries = (t.entries \ {a, b}) \cup {a2, b2}
    BY <1>1 DEF Sound, Tables, Entry
  <1> HIDE DEF a2, b2
  <1>3. /\ a.user \in People /\ PlacesIn(t)[a.user] # 0 /\ PlacesIn(t)[a.user] = a.position
        /\ b.user \in People /\ PlacesIn(t)[b.user] # 0 /\ PlacesIn(t)[b.user] = b.position
        /\ a.user # b.user
    BY <1>1, PlacesAre DEF Sound, Distinct
  <1>4. PlacesIn(u)[a.user] = b.position /\ PlacesIn(u)[b.user] = a.position
    BY <1>2, PlacesAre
  <1>5. ASSUME NEW q \in People, q # a.user, q # b.user
        PROVE  PlacesIn(u)[q] = PlacesIn(t)[q]
    <2>1. \A e : e.user = q => (e \in t.entries <=> e \in u.entries)
      BY <1>2, <1>5
    <2> QED BY <2>1, SamePlace
  <1>6. PlacesIn(u) = [PlacesIn(t) EXCEPT ![a.user] = PlacesIn(t)[b.user],
                                          ![b.user] = PlacesIn(t)[a.user]]
    BY <1>3, <1>4, <1>5 DEF PlacesIn
  <1>7. MarkedIn(u) = MarkedIn(t)
    <2>1. \A p : p \in MarkedIn(u) <=> p \in MarkedIn(t)
      BY <1>1, <1>2 DEF MarkedIn
    <2> QED BY <2>1
  <1>8. BarredIn(u) = BarredIn(t)
    BY DEF Swaps, SameBlocks, BarredIn
  <1> QED BY <1>3, <1>6, <1>7, <1>8 DEF SeatingStep

LEMMA LiftsSeating ==
    ASSUME NEW t, NEW u, NEW l, Sound(t, l), u.entries = t.entries, NEW b \in t.blocks,
           u.blocks = t.blocks \ {b}
    PROVE  SeatingStep(t, u)
  <1>1. PlacesIn(u) = PlacesIn(t) /\ MarkedIn(u) = MarkedIn(t)
    BY DEF PlacesIn, PlaceIn, EntriesOf, MarkedIn
  <1>2. b.user \in People /\ BarredIn(u) = BarredIn(t) \ {b.user}
    BY DEF Sound, Tables, Block, OneBarEach, BarredIn
  <1> QED BY <1>1, <1>2 DEF SeatingStep

LEMMA DoesSeating ==
    ASSUME NEW t, NEW u, NEW c, NEW l, NEW m, Sound(t, l), Sound(u, m), Does(t, u, c)
    PROVE  SeatingStep(t, u)
  <1>1. CASE Leaves(t, u, c)
    <2>1. PICK e \in t.entries : u.entries = t.entries \ {e}
      BY <1>1 DEF Leaves
    <2>2. BarredIn(u) = BarredIn(t)
      BY <1>1 DEF Leaves, SameBlocks, BarredIn
    <2> QED BY <2>1, <2>2, GoesSeating
  <1>2. CASE Removes(t, u, c)
    <2>1. PICK e \in t.entries :
            /\ u.entries = t.entries \ {e}
            /\ u.blocks = t.blocks \/ \E d \in Block : d.user = e.user /\ u.blocks = t.blocks \cup {d}
      BY <1>2 DEF Removes
    <2>2. BarredIn(u) \in {BarredIn(t), BarredIn(t) \cup {e.user}}
      BY <2>1 DEF BarredIn
    <2> QED BY <2>1, <2>2, GoesSeating
  <1>3. CASE Unblocks(t, u, c)
    BY <1>3, LiftsSeating DEF Unblocks
  <1>4. CASE Clears(t, u)
    <2>1. PlacesIn(u) = [p \in People |-> 0]
      BY <1>4 DEF Clears, PlacesIn, PlaceIn, EntriesOf
    <2>2. MarkedIn(u) = {} /\ BarredIn(u) = {}
      BY <1>4 DEF Clears, MarkedIn, BarredIn
    <2> QED BY <2>1, <2>2 DEF SeatingStep
  <1>5. CASE Stays(t, u)
    <2>1. PlacesIn(u) = PlacesIn(t) /\ MarkedIn(u) = MarkedIn(t) /\ BarredIn(u) = BarredIn(t)
      BY <1>5 DEF Stays, SameBlocks, PlacesIn, PlaceIn, EntriesOf, MarkedIn, BarredIn
    <2> QED BY <2>1 DEF SeatingStep
  <1> QED BY <1>1, <1>2, <1>3, <1>4, <1>5, EntersSeating, MarksSeating, SwapsSeating DEF Does

(* Every step leaves the bounds of the instance.                           *)
LEMMA LimitsStay == ASSUME [Next]_vars PROVE limits' = limits
  <1>0. /\ \A c, again : Press(c, again) => limits' = limits
        /\ \A c : Moderate(c) => limits' = limits
        /\ \A stale : TurnedAway(stale) => limits' = limits
    BY DEF Press, Moderate, TurnedAway
  <1>1. CASE Calls
    BY <1>0, <1>1 DEF Calls, PressTurnedAway, PressOfMenu, PressOfFreeSeat, PressOfTakenSeat,
                      PressAgain, ConfirmedSwap, ModerationTurnedAway, RemovalByModerator,
                      UnblockByModerator
  <1>2. CASE Lifecycle
    BY <1>2 DEF Lifecycle, BeginQueueRun, SetQueueMessageID, RequestClose, FinishQueueRun
  <1>3. CASE World
    BY <1>3 DEF World, GhostLands, Tick, BlockExpires
  <1>4. CASE UNCHANGED vars
    BY <1>4 DEF vars
  <1> QED BY <1>1, <1>2, <1>3, <1>4 DEF Next

LEMMA ChangesSeating == ASSUME SeatsInv, SeatsInv', Changes, limits' = limits
                        PROVE  SeatingStep(tables, tables')
  <1>1. Sound(tables, last)
    BY TablesSound
  <1>2. Sound(tables', last')
    <2>1. Sound(tables, last)'
      BY DEF SeatsInv, Outcomes
    <2> QED BY <2>1, LimitsKept DEF Sound
  <1>3. CASE Does(tables, tables', cause')
    BY <1>1, <1>2, <1>3, DoesSeating
  <1>4. ASSUME NEW b \in tables.blocks, BlockExpires(b) PROVE SeatingStep(tables, tables')
    <2>1. tables'.entries = tables.entries /\ tables'.blocks = tables.blocks \ {b}
      BY <1>4, TablesSound, WithoutIs DEF BlockExpires, Without
    <2> QED BY <1>1, <2>1, LiftsSeating
  <1> QED BY <1>3, <1>4 DEF Changes

(* What Seating calls a step.                                              *)
LEMMA SeatingSteps == ASSUME SeatingStep(tables, tables')
                      PROVE  [SeatingOf!Next]_(SeatingOf!vars)
  <1> DEFINE pl == [p \in People |-> PlaceOf(p)]
             mk == {e.user : e \in {e \in tables.entries : e.completed}}
             br == {b.user : b \in tables.blocks}
             standing == {p \in People : pl[p] # 0}
  <1>1. /\ pl = PlacesIn(tables) /\ pl' = PlacesIn(tables')
        /\ mk = MarkedIn(tables) /\ mk' = MarkedIn(tables')
        /\ br = BarredIn(tables) /\ br' = BarredIn(tables')
    BY DEF PlaceOf, PlacesIn, PlaceIn, SeatsOf, EntriesOf, MarkedIn, BarredIn
  <1>2. SeatingOf!Standing = standing /\ SeatingOf!vars = <<pl, mk, br>>
    BY DEF SeatingOf!Standing, SeatingOf!vars
  <1>3. SeatingOf!vars' = <<pl', mk', br'>>
    BY DEF SeatingOf!vars
  <1>4. ASSUME NEW p \in People, NEW n \in 1..Capacity,
               p \notin standing \cup br, \A q \in People : pl[q] # n,
               pl' = [pl EXCEPT ![p] = n], mk' = mk, br' = br
        PROVE  SeatingOf!Next
    <2>1. SeatingOf!Enter(p, n)
      BY <1>4 DEF SeatingOf!Enter, SeatingOf!Standing
    <2> QED BY <2>1 DEF SeatingOf!Next
  <1>5. ASSUME NEW p \in standing, pl' = [pl EXCEPT ![p] = 0], mk' = mk \ {p},
               br' \in {br, br \cup {p}}
        PROVE  SeatingOf!Next
    <2>1. SeatingOf!Remove(p)
      BY <1>5 DEF SeatingOf!Remove, SeatingOf!Standing
    <2> QED BY <2>1 DEF SeatingOf!Next
  <1>6. ASSUME NEW p \in standing, NEW q \in standing, p # q,
               pl' = [pl EXCEPT ![p] = pl[q], ![q] = pl[p]], mk' = mk, br' = br
        PROVE  SeatingOf!Next
    <2>1. SeatingOf!Exchange(p, q)
      BY <1>6 DEF SeatingOf!Exchange, SeatingOf!Standing
    <2> QED BY <1>6, <2>1 DEF SeatingOf!Next
  <1>7. ASSUME NEW p \in standing, mk' \in {mk \cup {p}, mk \ {p}}, pl' = pl, br' = br
        PROVE  SeatingOf!Next
    <2>1. SeatingOf!Mark(p)
      BY <1>7 DEF SeatingOf!Mark, SeatingOf!Standing
    <2> QED BY <2>1 DEF SeatingOf!Next
  <1>8. ASSUME NEW p \in People, br' = br \ {p}, pl' = pl, mk' = mk
        PROVE  SeatingOf!Next
    <2>1. SeatingOf!Lift(p)
      BY <1>8 DEF SeatingOf!Lift
    <2> QED BY <2>1 DEF SeatingOf!Next
  <1>9. ASSUME pl' = [p \in People |-> 0], mk' = {}, br' = {}
        PROVE  SeatingOf!Next
    BY <1>9 DEF SeatingOf!Next, SeatingOf!Clear
  <1>10. \/ SeatingOf!Next
         \/ pl' = pl /\ mk' = mk /\ br' = br
    <2> HIDE DEF pl, mk, br
    <2> QED BY <1>1, <1>4, <1>5, <1>6, <1>7, <1>8, <1>9 DEF SeatingStep
  <1> QED BY <1>2, <1>3, <1>10

(* The queue, as the people see it, is a behaviour of Seating: whatever    *)
(* buttons, moderators and transactions in doubt do (db/queue_repo.go,     *)
(* db/moderation_repo.go) is one of the few changes that Seating allows.   *)
THEOREM Refinement == Spec => ImplementsSeating
  <1>1. Init => SeatingOf!Init
    <2> SUFFICES ASSUME Init PROVE SeatingOf!Init
      OBVIOUS
    <2>1. PlacesIn(tables) = [p \in People |-> 0] /\ MarkedIn(tables) = {} /\ BarredIn(tables) = {}
      BY DEF Init, Empty, PlacesIn, PlaceIn, EntriesOf, MarkedIn, BarredIn
    <2> QED BY <2>1, SeatingIs DEF SeatingOf!Init
  <1>2. SeatsInv /\ AnswersAreTrue /\ [Next]_vars => [SeatingOf!Next]_(SeatingOf!vars)
    BY StepsAreGood, LimitsStay, ChangesSeating, SeatingSteps DEF Good
  <1> QED BY <1>1, <1>2, SeatsInvariant, PTL DEF Spec, ImplementsSeating, SeatingOf!Spec
=============================================================================
