---------------------------- MODULE HoldingsProofs ----------------------------
(***************************************************************************)
(* What the objects of the library hold for the client, for every number   *)
(* of objects, descriptors, tables, sessions, databases and statements.    *)
(* Each part has an invariant that its steps preserve and that implies     *)
(* what the composition says of it; the last section puts them together.   *)
(* Those of the statements of mysql, oracle and sqlite are in              *)
(* StatementProofs.                                                        *)
(***************************************************************************)
EXTENDS Holdings, StatementProofs, SequencesExt

-----------------------------------------------------------------------------
\* A ping of postgresql

PingShape(s) ==
    s = [next |-> s.next, pending |-> s.pending, come |-> s.come, consumed |-> s.consumed,
         read |-> s.read, asked |-> s.asked, lost |-> s.lost, got |-> s.got,
         clean |-> s.clean]

\* A ping that goes on asked for the results that are outstanding.
PingGood(s) ==
    /\ PingShape(s)
    /\ s.clean
    /\ s.got.asked = s.got.answer
    /\ s.asked # Answer!Idle => s.asked = s.pending

LEMMA PingInit == Answer!Init => PingGood(sys)
BY DEF Answer!Init, Answer!Idle, PingGood, PingShape

\* A ping that returns: without an answer, or with the end of its results.
LEMMA PingReturned ==
  ASSUME NEW s, NEW ok \in BOOLEAN, PingGood(sys), PingShape(s), s.got = sys.got,
         ok => s.pending = Answer!Idle /\ sys.asked # Answer!Idle
  PROVE  PingGood(Answer!Returned(s, ok))
<1> DEFINE t == Answer!Returned(s, ok)
<1>1. CASE ok
  <2>1. t = [s EXCEPT !.asked = 0, !.got = [asked |-> sys.asked, answer |-> sys.pending],
                      !.clean = TRUE]
    BY <1>1 DEF Answer!Returned, Answer!Idle
  <2> HIDE DEF t
  <2>2. /\ PingShape(t) /\ t.clean /\ t.asked = 0
        /\ t.got = [asked |-> sys.asked, answer |-> sys.pending]
    BY <2>1 DEF PingShape
  <2>3. PingGood(t)
    BY <1>1, <2>2 DEF PingGood, Answer!Idle
  <2>. QED
    BY <2>3 DEF t
<1>2. CASE ~ ok
  <2>1. t = [s EXCEPT !.asked = 0, !.clean = TRUE]
    BY <1>2 DEF Answer!Returned, Answer!Idle, PingShape
  <2> HIDE DEF t
  <2>2. PingShape(t) /\ t.clean /\ t.asked = 0 /\ t.got = sys.got
    BY <2>1 DEF PingShape
  <2>3. PingGood(t)
    BY <2>2 DEF PingGood, Answer!Idle
  <2>. QED
    BY <2>3 DEF t
<1>. QED
  BY <1>1, <1>2

LEMMA PingNext ==
  ASSUME PingGood(sys), Answer!Next
  PROVE  PingGood(sys')
<1>1. PingShape(sys)
  BY DEF PingGood
<1>2. CASE Answer!StartPing
  <2>1. CASE Answer!CanSend(sys)
    <3>1. sys' = [sys EXCEPT !.pending = sys.next, !.next = @ + 1, !.come = 0, !.consumed = 0,
                             !.read = 0, !.asked = sys.next]
      <4>1. sys' = [Answer!Sent(sys) EXCEPT !.asked = sys.next]
        BY <1>2, <2>1 DEF Answer!StartPing
      <4>. QED
        BY <1>1, <4>1 DEF Answer!Sent, PingShape
    <3>2. /\ PingShape(sys') /\ sys'.clean = sys.clean /\ sys'.got = sys.got
          /\ sys'.asked = sys.next /\ sys'.pending = sys.next
      BY <1>1, <3>1 DEF PingShape
    <3>. QED
      BY <3>2 DEF PingGood
  <2>2. CASE ~ Answer!CanSend(sys)
    BY <1>1, <1>2, <2>2, PingReturned DEF Answer!StartPing
  <2>. QED
    BY <2>1, <2>2
<1>3. CASE Answer!Poll
  <2>1. CASE sys.lost
    BY <1>1, <1>3, <2>1, PingReturned DEF Answer!Poll
  <2>2. CASE ~ sys.lost
    <3> DEFINE s == Answer!ConsumeInput(sys)
               t == IF Answer!IsBusy(s) \/ s.read > 0 THEN s ELSE Answer!RowRead(s)
               u == Answer!EndRead(t)
    <3>1. sys' = IF Answer!IsBusy(t) THEN t ELSE Answer!Returned(u, TRUE)
      BY <1>3, <2>2 DEF Answer!Poll, Answer!ReadAll
    <3>2. s = [sys EXCEPT !.consumed = sys.come]
      BY DEF Answer!ConsumeInput
    <3> HIDE DEF s
    <3>3. PingShape(s) /\ s.got = sys.got /\ s.clean = sys.clean /\ s.asked = sys.asked
          /\ s.pending = sys.pending
      BY <1>1, <3>2 DEF PingShape
    <3>4. t = s \/ t = [s EXCEPT !.read = 1]
      BY DEF Answer!RowRead
    <3> HIDE DEF t
    <3>5. PingShape(t) /\ t.got = s.got /\ t.clean = s.clean /\ t.asked = s.asked
          /\ t.pending = s.pending
      BY <3>3, <3>4 DEF PingShape
    <3>6. u = [t EXCEPT !.read = 2, !.pending = 0]
      BY DEF Answer!EndRead, Answer!Idle
    <3> HIDE DEF u
    <3>7. PingShape(u) /\ u.got = t.got /\ u.pending = 0
      BY <3>5, <3>6 DEF PingShape
    <3>8. PingGood(t)
      BY <3>3, <3>5 DEF PingGood
    <3>9. PingGood(Answer!Returned(u, TRUE))
      <4>1. sys.asked # Answer!Idle
        BY <1>3 DEF Answer!Poll
      <4>. QED
        BY <3>3, <3>5, <3>7, <4>1, PingReturned DEF Answer!Idle
    <3>. QED
      BY <3>1, <3>8, <3>9
  <2>. QED
    BY <2>1, <2>2
<1>4. CASE Answer!TimedOut
  BY <1>1, <1>4, PingReturned DEF Answer!TimedOut
<1>5. CASE Answer!Execute
  <2> DEFINE s == [sys EXCEPT !.pending = Answer!Idle]
             sent == Answer!Sent(s)
  <2>1. PingShape(s) /\ s.got = sys.got /\ s.next = sys.next /\ s.asked = sys.asked
    <3>1. s = [sys EXCEPT !.pending = Answer!Idle]
      OBVIOUS
    <3> HIDE DEF s
    <3>. QED
      BY <1>1, <3>1 DEF PingShape
  <2>2. sys.asked = 0
    BY <1>5 DEF Answer!Execute, Answer!Idle
  <2>3. CASE sys.lost
    BY <1>5, <2>1, <2>3, PingReturned DEF Answer!Execute
  <2>4. CASE ~ sys.lost
    <3>1. sys' = [sent EXCEPT !.pending = Answer!Idle, !.come = Answer!Results,
                              !.consumed = Answer!Results, !.read = Answer!Results,
                              !.clean = TRUE,
                              !.got = [asked |-> sys.next, answer |-> sent.pending]]
      BY <1>5, <2>4 DEF Answer!Execute
    <3>2. sent = [s EXCEPT !.pending = s.next, !.next = s.next + 1, !.come = 0,
                           !.consumed = 0, !.read = 0]
      <4> HIDE DEF s
      <4>. QED
        BY <2>1 DEF Answer!Sent, PingShape
    <3> HIDE DEF s, sent
    <3>3. PingShape(sent) /\ sent.pending = sys.next /\ sent.asked = 0
      BY <2>1, <2>2, <3>2 DEF PingShape
    <3>4. /\ PingShape(sys') /\ sys'.clean /\ sys'.asked = 0
          /\ sys'.got = [asked |-> sys.next, answer |-> sys.next]
      BY <3>1, <3>3 DEF PingShape
    <3>. QED
      BY <3>4 DEF PingGood, Answer!Idle
  <2>. QED
    BY <2>3, <2>4
<1>6. CASE Answer!ServerAnswers
  <2>1. sys' = [sys EXCEPT !.come = @ + 1]
    BY <1>6 DEF Answer!ServerAnswers
  <2>2. /\ PingShape(sys') /\ sys'.clean = sys.clean /\ sys'.got = sys.got
        /\ sys'.asked = sys.asked /\ sys'.pending = sys.pending
    BY <1>1, <2>1 DEF PingShape
  <2>. QED
    BY <2>2 DEF PingGood
<1>7. CASE Answer!ServerLoss
  <2>1. sys' = [sys EXCEPT !.lost = TRUE]
    BY <1>7 DEF Answer!ServerLoss
  <2>2. /\ PingShape(sys') /\ sys'.clean = sys.clean /\ sys'.got = sys.got
        /\ sys'.asked = sys.asked /\ sys'.pending = sys.pending
    BY <1>1, <2>1 DEF PingShape
  <2>. QED
    BY <2>2 DEF PingGood
<1>. QED
  BY <1>2, <1>3, <1>4, <1>5, <1>6, <1>7 DEF Answer!Next

LEMMA PingLegal == PingGood(sys) => Answer!HandlesLegal /\ Answer!DataStays
BY DEF PingGood, Answer!HandlesLegal, Answer!DataStays


-----------------------------------------------------------------------------
\* Iterators

IteratorGood(s) ==
    /\ s = [size |-> s.size, offset |-> s.offset, current |-> s.current]
    /\ s.offset < s.size => s.current = s.offset

LEMMA IteratorStart == IteratorInit => IteratorGood(sys)
BY DEF IteratorInit, IteratorGood

LEMMA OffsetLemma ==
  ASSUME NEW s, IteratorGood(s), NEW off
  PROVE  IteratorGood(SetOffset(s, off))
<1>1. CASE off = s.offset
  BY <1>1 DEF SetOffset
<1>2. CASE off # s.offset
  <2> DEFINE t == SetOffset(s, off)
  <2>1. t = [s EXCEPT !.offset = off, !.current = IF off < s.size THEN off ELSE s.current]
    BY <1>2 DEF SetOffset, Loaded
  <2> HIDE DEF t
  <2>2. /\ t = [size |-> s.size, offset |-> t.offset, current |-> t.current] /\ t.offset = off
        /\ t.current = IF off < s.size THEN off ELSE s.current
    BY <2>1 DEF IteratorGood
  <2>3. IteratorGood(t)
    BY <2>2 DEF IteratorGood
  <2>. QED
    BY <2>3 DEF t
<1>. QED
  BY <1>1, <1>2

LEMMA IteratorStep ==
  ASSUME IteratorGood(sys), IteratorNext
  PROVE  IteratorGood(sys')
BY OffsetLemma DEF IteratorNext, Step, Jump

-----------------------------------------------------------------------------
\* A statement of the replication driver

CopiesShape(s) ==
    /\ s = [bound |-> s.bound, rows |-> s.rows, given |-> s.given, spoilt |-> s.spoilt,
            differ |-> s.differ, log |-> s.log]
    /\ s.bound = [d \in Databases |-> s.bound[d]]
    /\ s.rows = [d \in Databases |-> s.rows[d]]
CopiesGood(s) ==
    /\ CopiesShape(s)
    /\ ~ s.spoilt => \A d \in Databases : s.bound[d] = s.given
    /\ ~ s.differ => \A d \in Databases : s.rows[d] = s.log

LEMMA CopiesInit == Copies!Init => CopiesGood(sys)
BY DEF Copies!Init, CopiesGood, CopiesShape

LEMMA CopiesSet ==
  ASSUME CopiesGood(sys), NEW v, NEW failing, Copies!SetHostVar(v, failing)
  PROVE  CopiesGood(sys')
<1>1. PICK bound : 
        /\ sys' = [sys EXCEPT !.bound = bound, !.given = v, !.spoilt = failing # 0]
        /\ bound = [d \in Databases |-> bound[d]]
        /\ failing = 0 => \A d \in Databases : bound[d] = v
  <2>1. PICK own \in {TRUE, FALSE} :
          sys' = [sys EXCEPT !.bound = [d \in Databases |->
                      IF Copies!Reaches(failing, d) \/ (d = failing /\ own) THEN v
                      ELSE sys.bound[d]],
                  !.given = v, !.spoilt = failing # 0]
    BY DEF Copies!SetHostVar
  <2> DEFINE b == [d \in Databases |->
                      IF Copies!Reaches(failing, d) \/ (d = failing /\ own) THEN v
                      ELSE sys.bound[d]]
  <2>2. b = [d \in Databases |-> b[d]] /\ (failing = 0 => \A d \in Databases : b[d] = v)
    BY DEF Copies!Reaches
  <2>3. sys' = [sys EXCEPT !.bound = b, !.given = v, !.spoilt = failing # 0]
    BY <2>1
  <2> HIDE DEF b
  <2>. QED
    BY <2>2, <2>3
<1>2. /\ sys'.bound = bound /\ sys'.rows = sys.rows /\ sys'.given = v
      /\ sys'.spoilt = (failing # 0)
      /\ sys'.differ = sys.differ /\ sys'.log = sys.log
      /\ sys' = [bound |-> sys'.bound, rows |-> sys'.rows, given |-> sys'.given,
                 spoilt |-> sys'.spoilt, differ |-> sys'.differ, log |-> sys'.log]
  BY <1>1 DEF CopiesGood, CopiesShape
<1>3. CopiesShape(sys')
  BY <1>1, <1>2 DEF CopiesGood, CopiesShape
<1>. QED
  BY <1>1, <1>2, <1>3 DEF CopiesGood

LEMMA CopiesNext ==
  ASSUME CopiesGood(sys), Copies!Next
  PROVE  CopiesGood(sys')
<1>1. PICK failing \in Databases \cup {0} :
        \/ \E v \in HostValues : Copies!SetHostVar(v, failing)
        \/ Copies!Clear(failing)
        \/ Copies!Execute(failing)
  BY DEF Copies!Next
<1>2. CASE Copies!Execute(failing)
  <2>1. CASE failing # 0
    BY <1>2, <2>1 DEF Copies!Execute
  <2>2. CASE failing = 0
    <3>1. sys' = [sys EXCEPT !.rows = [d \in Databases |-> Append(sys.rows[d], sys.bound[d])],
                             !.log = Append(sys.log, sys.given),
                             !.differ = sys.differ \/ sys.spoilt]
      BY <1>2, <2>2 DEF Copies!Execute, CopiesGood, CopiesShape
    <3>2. /\ sys'.bound = sys.bound /\ sys'.given = sys.given /\ sys'.spoilt = sys.spoilt
          /\ sys'.rows = [d \in Databases |-> Append(sys.rows[d], sys.bound[d])]
          /\ sys'.log = Append(sys.log, sys.given)
          /\ sys'.differ <=> sys.differ \/ sys.spoilt
          /\ CopiesShape(sys')
      BY <3>1 DEF CopiesGood, CopiesShape
    <3>. QED
      BY <3>2 DEF CopiesGood
  <2>. QED
    BY <2>1, <2>2
<1>. QED
  BY <1>1, <1>2, CopiesSet DEF Copies!Clear

LEMMA CopiesLegal == CopiesGood(sys) => Copies!DataStays
BY DEF CopiesGood, Copies!DataStays


-----------------------------------------------------------------------------
\* Table locks of mysql connections

LocksShape(s) ==
    s = [transactionActive |-> s.transactionActive, lockTablesQuery |-> s.lockTablesQuery,
         autocommit |-> s.autocommit, locks |-> s.locks, dirty |-> s.dirty, wants |-> s.wants,
         asked |-> s.asked, guarded |-> s.guarded, sound |-> s.sound]
Lockings == Tables \X Locks!Modes

\* A session that waits has nothing and asks for all of its list.
SessionGood(s) ==
    /\ LocksShape(s)
    /\ s.lockTablesQuery \in Seq(Lockings)
    /\ s.sound /\ s.wants = {} => s.locks = s.asked
    /\ s.sound /\ s.wants # {} => s.asked \subseteq s.wants
    /\ s.locks \subseteq Locks!ToSet(s.lockTablesQuery)
    /\ s.dirty => s.guarded \subseteq s.locks
    /\ s.wants # {} => s.locks = {} /\ ~ s.dirty /\ s.wants = Locks!ToSet(s.lockTablesQuery)
LocksGood(state) ==
    /\ state = [c \in Sessions |-> state[c]]
    /\ \A c \in Sessions : SessionGood(state[c])

LEMMA FreshGood == SessionGood(Locks!Fresh)
<1> DEFINE s == Locks!Fresh
<1>1. s = [transactionActive |-> 0, lockTablesQuery |-> << >>,
           autocommit |-> TRUE, locks |-> {}, dirty |-> FALSE, wants |-> {},
           asked |-> {}, guarded |-> {}, sound |-> TRUE]
  BY DEF Locks!Fresh
<1> HIDE DEF s
<1>2. SessionGood(s)
  BY <1>1 DEF SessionGood, LocksShape
<1>. QED
  BY <1>2 DEF s

LEMMA LocksInit == Locks!Init => LocksGood(sys)
BY FreshGood DEF Locks!Init, LocksGood

\* The list with one more table.
LEMMA ListLemma ==
  ASSUME NEW q \in Seq(Lockings), NEW l \in Lockings
  PROVE  /\ Append(q, l) \in Seq(Lockings)
         /\ Locks!ToSet(Append(q, l)) = Locks!ToSet(q) \cup {l}
<1>1. Len(Append(q, l)) = Len(q) + 1 /\ Len(q) \in Nat
      /\ \A i \in 1..Len(q) + 1 : Append(q, l)[i] = IF i <= Len(q) THEN q[i] ELSE l
  OBVIOUS
<1>2. DOMAIN q = 1..Len(q) /\ DOMAIN Append(q, l) = 1..(Len(q) + 1)
  BY <1>1
<1> DEFINE p == Append(q, l)
<1>3. l = p[Len(q) + 1] /\ \A i \in 1..Len(q) : q[i] = p[i]
  BY <1>1
<1>4. \A i \in 1..(Len(q) + 1) : i \in 1..Len(q) \/ i = Len(q) + 1
  BY <1>1
<1>5. p \in Seq(Lockings)
  OBVIOUS
<1> HIDE DEF p
<1>. QED
  BY <1>1, <1>2, <1>3, <1>4, <1>5 DEF Locks!ToSet, p

LEMMA LockTableGood ==
  ASSUME NEW s, SessionGood(s), s.wants = {}, NEW l \in Lockings
  PROVE  SessionGood(Locks!LockTable(s, l))
<1> DEFINE q == Append(s.lockTablesQuery, l)
           listed == [s EXCEPT !.lockTablesQuery = q]
           committed == Locks!Committed(listed)
           given == [committed EXCEPT !.locks = {}]
           t == Locks!LockTable(s, l)
<1>1. q \in Seq(Lockings) /\ Locks!ToSet(q) = Locks!ToSet(s.lockTablesQuery) \cup {l}
  BY ListLemma DEF SessionGood
<1> HIDE DEF q
<1>2. listed.lockTablesQuery = q /\ listed.locks = s.locks /\ listed.asked = s.asked
      /\ listed.sound = s.sound /\ listed.wants = {} /\ LocksShape(listed)
  <2>1. listed = [s EXCEPT !.lockTablesQuery = q]
    OBVIOUS
  <2> HIDE DEF listed
  <2>. QED
    BY <2>1 DEF SessionGood, LocksShape
<1>3. t = IF Locks!NamedTwice(listed.lockTablesQuery) THEN Locks!Failed(given)
          ELSE [given EXCEPT !.wants = Locks!ToSet(listed.lockTablesQuery)]
  BY DEF Locks!LockTable, Locks!LockTables, q
<1> HIDE DEF t, listed
<1>4. given.lockTablesQuery = q /\ given.locks = {} /\ given.asked = s.asked
      /\ given.sound = s.sound /\ given.wants = {} /\ ~ given.dirty /\ given.guarded = {}
      /\ LocksShape(given)
  <2>1. committed = [listed EXCEPT !.dirty = FALSE, !.guarded = {}]
    BY DEF Locks!Committed
  <2> HIDE DEF committed
  <2>2. committed.lockTablesQuery = q /\ committed.asked = s.asked
        /\ committed.sound = s.sound /\ committed.wants = {} /\ ~ committed.dirty
        /\ committed.guarded = {} /\ LocksShape(committed)
    BY <1>2, <2>1 DEF LocksShape
  <2>3. given = [committed EXCEPT !.locks = {}]
    OBVIOUS
  <2> HIDE DEF given
  <2>. QED
    BY <2>2, <2>3 DEF LocksShape
<1> HIDE DEF given
<1>5. CASE t = Locks!Failed(given)
  <2>1. t = [given EXCEPT !.sound = FALSE]
    BY <1>5 DEF Locks!Failed
  <2>2. t.lockTablesQuery = q /\ t.locks = {} /\ ~ t.sound /\ t.wants = {} /\ ~ t.dirty
        /\ LocksShape(t)
    BY <1>4, <2>1 DEF LocksShape
  <2>3. {} \subseteq Locks!ToSet(q)
    OBVIOUS
  <2>4. SessionGood(t)
    BY <1>1, <2>2, <2>3 DEF SessionGood
  <2>. QED
    BY <2>4 DEF t
<1>6. CASE t = [given EXCEPT !.wants = Locks!ToSet(listed.lockTablesQuery)]
  <2>1. t.lockTablesQuery = q /\ t.locks = {} /\ t.sound = s.sound /\ t.wants = Locks!ToSet(q)
        /\ ~ t.dirty /\ t.asked = s.asked /\ LocksShape(t)
    BY <1>2, <1>4, <1>6 DEF LocksShape
  <2>2. s.sound => s.asked \subseteq Locks!ToSet(q)
    BY <1>1 DEF SessionGood
  <2>3. Locks!ToSet(q) # {} /\ {} \subseteq Locks!ToSet(q)
    BY <1>1
  <2>4. SessionGood(t)
    BY <1>1, <2>1, <2>2, <2>3 DEF SessionGood
  <2>. QED
    BY <2>4 DEF t
<1>. QED
  BY <1>3, <1>5, <1>6 DEF t

LEMMA EndGood ==
  ASSUME NEW s, SessionGood(s), s.wants = {}, NEW failing
  PROVE  SessionGood(Locks!EndOutermost(s, failing))
<1> DEFINE down == [s EXCEPT !.transactionActive = IF @ = 0 THEN 0 ELSE @ - 1]
           locked == s.lockTablesQuery # << >>
           committed == Locks!Committed(down)
           ended == IF locked THEN Locks!Unlocked(committed) ELSE committed
           t == Locks!EndOutermost(s, failing)
<1> SUFFICES SessionGood(t)
  OBVIOUS
<1>1. \/ t = Locks!Failed(down)
      \/ t = Locks!Failed(committed)
      \/ t = Locks!Failed([ended EXCEPT !.asked = {}])
      \/ t = [ended EXCEPT !.autocommit = TRUE, !.asked = {}, !.sound = TRUE]
  BY DEF Locks!EndOutermost
<1> HIDE DEF t
<1>2. down = [s EXCEPT !.transactionActive = IF @ = 0 THEN 0 ELSE @ - 1]
  OBVIOUS
<1> HIDE DEF down
<1>3. down.lockTablesQuery = s.lockTablesQuery /\ down.locks = s.locks /\ down.wants = {}
      /\ down.dirty = s.dirty /\ down.guarded = s.guarded /\ LocksShape(down)
  BY <1>2 DEF SessionGood, LocksShape
<1>4. committed = [down EXCEPT !.dirty = FALSE, !.guarded = {}]
  BY DEF Locks!Committed
<1> HIDE DEF committed
<1>5. committed.lockTablesQuery = s.lockTablesQuery /\ committed.locks = s.locks
      /\ committed.wants = {} /\ ~ committed.dirty /\ LocksShape(committed)
  BY <1>3, <1>4 DEF LocksShape
<1>6. ended.lockTablesQuery = << >> /\ ended.locks = {} /\ ended.wants = {} /\ ~ ended.dirty
      /\ LocksShape(ended)
  <2>1. CASE locked
    <3>1. ended = [committed EXCEPT !.locks = {}, !.lockTablesQuery = << >>]
      BY <2>1 DEF Locks!Unlocked
    <3> HIDE DEF ended
    <3>. QED
      BY <1>5, <3>1 DEF LocksShape
  <2>2. CASE ~ locked
    <3>1. Locks!ToSet(s.lockTablesQuery) = {}
      BY <2>2 DEF Locks!ToSet
    <3>. QED
      BY <1>5, <2>2, <3>1 DEF SessionGood
  <2>. QED
    BY <2>1, <2>2
<1> HIDE DEF ended
<1>7. << >> \in Seq(Lockings) /\ {} \subseteq Locks!ToSet(<< >>)
  OBVIOUS
<1>8. CASE t = Locks!Failed(down)
  <2>1. t = [down EXCEPT !.sound = FALSE]
    BY <1>8 DEF Locks!Failed
  <2>2. t.lockTablesQuery = s.lockTablesQuery /\ t.locks = s.locks /\ t.wants = {}
        /\ t.dirty = s.dirty /\ t.guarded = s.guarded /\ ~ t.sound /\ LocksShape(t)
    BY <1>3, <2>1 DEF LocksShape
  <2>. QED
    BY <2>2 DEF SessionGood
<1>9. CASE t = Locks!Failed(committed)
  <2>1. t = [committed EXCEPT !.sound = FALSE]
    BY <1>9 DEF Locks!Failed
  <2>2. t.lockTablesQuery = s.lockTablesQuery /\ t.locks = s.locks /\ t.wants = {}
        /\ ~ t.dirty /\ ~ t.sound /\ LocksShape(t)
    BY <1>5, <2>1 DEF LocksShape
  <2>. QED
    BY <2>2 DEF SessionGood
<1>10. CASE t = Locks!Failed([ended EXCEPT !.asked = {}])
  <2>1. t = [[ended EXCEPT !.asked = {}] EXCEPT !.sound = FALSE]
    BY <1>10 DEF Locks!Failed
  <2>2. t.lockTablesQuery = << >> /\ t.locks = {} /\ t.wants = {}
        /\ ~ t.dirty /\ ~ t.sound /\ LocksShape(t)
    BY <1>6, <2>1 DEF LocksShape
  <2>. QED
    BY <1>7, <2>2 DEF SessionGood
<1>11. CASE t = [ended EXCEPT !.autocommit = TRUE, !.asked = {}, !.sound = TRUE]
  <2>1. t.lockTablesQuery = << >> /\ t.locks = {} /\ t.wants = {} /\ t.asked = {}
        /\ ~ t.dirty /\ LocksShape(t)
    BY <1>6, <1>11 DEF LocksShape
  <2>. QED
    BY <1>7, <2>1 DEF SessionGood
<1>. QED
  BY <1>1, <1>8, <1>9, <1>10, <1>11

\* One session changes at a time.
LEMMA ChangedGood ==
  ASSUME LocksGood(sys), NEW c \in Sessions, NEW s, SessionGood(s), Locks!Changed(c, s)
  PROVE  LocksGood(sys')
BY DEF LocksGood, Locks!Changed

LEMMA LocksNext ==
  ASSUME LocksGood(sys), Locks!Next
  PROVE  LocksGood(sys')
<1>1. PICK c \in Sessions :
        \/ \E fails \in BOOLEAN : Locks!BeginTransaction(c, fails)
        \/ \E t \in Tables, exclusive \in BOOLEAN : Locks!LockTableOf(c, Locks!Lock(t, exclusive))
        \/ \E failing \in {"none", "end", "unlock", "autocommit"} : Locks!EndTransaction(c, failing)
        \/ Locks!Execute(c)
        \/ Locks!Close(c)
        \/ Locks!Granted(c)
        \/ Locks!NotGranted(c)
  BY DEF Locks!Next
<1> DEFINE s == sys[c]
<1>2. SessionGood(s) /\ LocksShape(s)
  BY DEF LocksGood, SessionGood
<1>3. ASSUME NEW fails \in BOOLEAN, Locks!BeginTransaction(c, fails)
      PROVE  LocksGood(sys')
  <2> DEFINE t == [s EXCEPT !.transactionActive = @ + 1, !.autocommit = FALSE]
  <2>1. Locks!Changed(c, s) \/ Locks!Changed(c, t)
    BY <1>3 DEF Locks!BeginTransaction
  <2>2. SessionGood(t)
    <3>1. t = [s EXCEPT !.transactionActive = @ + 1, !.autocommit = FALSE]
      OBVIOUS
    <3> HIDE DEF s, t
    <3>2. /\ t.lockTablesQuery = s.lockTablesQuery /\ t.locks = s.locks /\ t.wants = s.wants
          /\ t.dirty = s.dirty /\ t.guarded = s.guarded /\ t.sound = s.sound
          /\ t.asked = s.asked /\ LocksShape(t)
      BY <1>2, <3>1 DEF LocksShape
    <3>. QED
      BY <1>2, <3>2 DEF SessionGood
  <2>. QED
    BY <1>2, <2>1, <2>2, ChangedGood
<1>4. ASSUME NEW t \in Tables, NEW exclusive \in BOOLEAN,
             Locks!LockTableOf(c, Locks!Lock(t, exclusive))
      PROVE  LocksGood(sys')
  <2>1. Locks!Lock(t, exclusive) \in Lockings
    BY DEF Locks!Lock, Lockings, Locks!Modes
  <2>2. s.wants = {} /\ Locks!Changed(c, Locks!LockTable(s, Locks!Lock(t, exclusive)))
    BY <1>4 DEF Locks!LockTableOf, Locks!Free
  <2>. QED
    BY <1>2, <2>1, <2>2, LockTableGood, ChangedGood
<1>5. ASSUME NEW failing, Locks!EndTransaction(c, failing)
      PROVE  LocksGood(sys')
  <2> DEFINE t == [s EXCEPT !.transactionActive = @ - 1]
  <2>1. /\ s.wants = {}
        /\ Locks!Changed(c, Locks!EndOutermost(s, failing)) \/ Locks!Changed(c, t)
    BY <1>5 DEF Locks!EndTransaction, Locks!Free
  <2>2. SessionGood(t)
    <3>1. t = [s EXCEPT !.transactionActive = @ - 1]
      OBVIOUS
    <3> HIDE DEF s, t
    <3>2. /\ t.lockTablesQuery = s.lockTablesQuery /\ t.locks = s.locks /\ t.wants = s.wants
          /\ t.dirty = s.dirty /\ t.guarded = s.guarded /\ t.sound = s.sound
          /\ t.asked = s.asked /\ LocksShape(t)
      BY <1>2, <3>1 DEF LocksShape
    <3>. QED
      BY <1>2, <3>2 DEF SessionGood
  <2>. QED
    BY <1>2, <2>1, <2>2, EndGood, ChangedGood
<1>6. CASE Locks!Execute(c)
  <2> DEFINE t == [s EXCEPT !.dirty = TRUE, !.guarded = s.locks]
  <2>1. s.wants = {} /\ Locks!Changed(c, t)
    BY <1>6 DEF Locks!Execute, Locks!Free
  <2>2. SessionGood(t)
    <3>1. t = [s EXCEPT !.dirty = TRUE, !.guarded = s.locks]
      OBVIOUS
    <3> HIDE DEF s, t
    <3>2. /\ t.lockTablesQuery = s.lockTablesQuery /\ t.locks = s.locks /\ t.wants = s.wants
          /\ t.guarded = s.locks /\ t.sound = s.sound
          /\ t.asked = s.asked /\ LocksShape(t)
      BY <1>2, <3>1 DEF LocksShape
    <3>. QED
      BY <1>2, <2>1, <3>2 DEF SessionGood
  <2>. QED
    BY <2>1, <2>2, ChangedGood
<1>7. CASE Locks!Close(c)
  BY <1>7, FreshGood, ChangedGood DEF Locks!Close
<1>8. CASE Locks!Granted(c)
  <2> DEFINE t == [s EXCEPT !.locks = s.locks \cup s.wants, !.asked = s.asked \cup s.wants,
                            !.wants = {}]
  <2>1. s.wants # {} /\ Locks!Changed(c, t)
    BY <1>8 DEF Locks!Granted, Locks!Free
  <2>2. SessionGood(t)
    <3>1. t = [s EXCEPT !.locks = s.locks \cup s.wants, !.asked = s.asked \cup s.wants,
                        !.wants = {}]
      OBVIOUS
    <3> HIDE DEF s, t
    <3>2. /\ t.lockTablesQuery = s.lockTablesQuery /\ t.locks = s.locks \cup s.wants
          /\ t.wants = {} /\ t.dirty = s.dirty /\ t.sound = s.sound
          /\ t.asked = s.asked \cup s.wants /\ LocksShape(t)
      BY <1>2, <3>1 DEF LocksShape
    <3>. QED
      BY <1>2, <2>1, <3>2 DEF SessionGood
  <2>. QED
    BY <2>1, <2>2, ChangedGood
<1>9. CASE Locks!NotGranted(c)
  <2> DEFINE u == [s EXCEPT !.wants = {}]
             t == Locks!Failed(u)
  <2>1. s.wants # {} /\ Locks!Changed(c, t)
    BY <1>9 DEF Locks!NotGranted, Locks!Free
  <2>2. SessionGood(t)
    <3>1. t = [[s EXCEPT !.wants = {}] EXCEPT !.sound = FALSE]
      BY DEF Locks!Failed
    <3> HIDE DEF s, t
    <3>2. /\ t.lockTablesQuery = s.lockTablesQuery /\ t.locks = s.locks
          /\ t.wants = {} /\ t.dirty = s.dirty /\ ~ t.sound /\ LocksShape(t)
      BY <1>2, <3>1 DEF LocksShape
    <3>. QED
      BY <1>2, <2>1, <3>2 DEF SessionGood
  <2>. QED
    BY <2>1, <2>2, ChangedGood
<1>. QED
  BY <1>1, <1>3, <1>4, <1>5, <1>6, <1>7, <1>8, <1>9

LEMMA LocksLegal == LocksGood(sys) => Locks!TablesLocked
BY DEF LocksGood, SessionGood, Locks!TablesLocked, Locks!Free, Locks!ToSet


-----------------------------------------------------------------------------
\* Connections of oracle

LoginShape(s) ==
    /\ s = [of |-> s.of, forked |-> s.forked, attached |-> s.attached, session |-> s.session,
            strangers |-> s.strangers, misuse |-> s.misuse, failing |-> s.failing,
            calls |-> s.calls, threw |-> s.threw]
    /\ s.of = [p \in Login!Processes |-> s.of[p]]

ObjectShape(o) ==
    o = [exists |-> o.exists, envhp |-> o.envhp, env |-> o.env, seqStmt |-> o.seqStmt,
         open |-> o.open, pid |-> o.pid]
\* The child's copy is the one that stays without an environment.
ObjectGood(o, p) ==
    /\ ObjectShape(o)
    /\ ~ o.exists => o = Login!NoObject
    /\ o.exists =>
         /\ o.pid = "parent" /\ o.seqStmt = o.open
         /\ p = "parent" => o.envhp = TRUE
         /\ \/ o.envhp = TRUE /\ o.env = TRUE
            \/ o.envhp = FALSE /\ o.env = FALSE /\ o.open = {}
LoginGood(s) ==
    /\ LoginShape(s)
    /\ s.threw = FALSE
    /\ s.misuse \subseteq {"freed after the environment"}
    /\ \A p \in Login!Processes : ObjectGood(s.of[p], p)
    /\ s.of["parent"].exists /\ ~ s.strangers => s.session

LEMMA NoObjectGood == ASSUME NEW p PROVE ObjectGood(Login!NoObject, p)
<1> DEFINE o == Login!NoObject
<1>1. o = [exists |-> FALSE, envhp |-> FALSE, env |-> FALSE, seqStmt |-> {}, open |-> {},
           pid |-> "none"]
  BY DEF Login!NoObject
<1> HIDE DEF o
<1>2. ~ o.exists /\ o = [exists |-> o.exists, envhp |-> o.envhp, env |-> o.env,
                         seqStmt |-> o.seqStmt, open |-> o.open, pid |-> o.pid]
  BY <1>1
<1>. QED
  BY <1>2 DEF ObjectGood, ObjectShape, o

LEMMA LoginInit == Login!Init => LoginGood(sys)
<1> SUFFICES ASSUME Login!Init
             PROVE  LoginGood(sys)
  OBVIOUS
<1>1. /\ sys.of = [p \in Login!Processes |-> Login!NoObject] /\ sys.threw = FALSE
      /\ sys.misuse = {} /\ LoginShape(sys)
  BY DEF Login!Init, LoginShape
<1>2. ~ Login!NoObject.exists /\ "parent" \in Login!Processes
  BY DEF Login!NoObject, Login!Processes
<1>. QED
  BY <1>1, <1>2, NoObjectGood DEF LoginGood

\* A call of OCI changes nothing that the program has.
LEMMA LoginCall ==
  ASSUME NEW s, LoginShape(s), s.threw = FALSE, NEW isOpen, isOpen = TRUE
  PROVE  LET t == Login!Call(s, isOpen)
         IN /\ LoginShape(t) /\ t.threw \in BOOLEAN
            /\ t.of = s.of /\ t.forked = s.forked /\ t.attached = s.attached
            /\ t.session = s.session /\ t.strangers = s.strangers /\ t.misuse = s.misuse
<1> DEFINE u == [s EXCEPT !.calls = s.calls + 1, !.misuse = s.misuse]
           t == Login!Call(s, isOpen)
<1>1. u = [s EXCEPT !.calls = s.calls + 1, !.misuse = s.misuse]
  OBVIOUS
<1>2. t = IF u.calls = s.failing THEN Login!Throw(u) ELSE u
  <2>1. t = LET v == [s EXCEPT !.calls = @ + 1,
                       !.misuse = IF isOpen THEN @ ELSE @ \cup {"closed handle"}]
            IN IF v.calls = v.failing THEN Login!Throw(v) ELSE v
    BY DEF Login!Call
  <2>2. u = [s EXCEPT !.calls = @ + 1, !.misuse = IF isOpen THEN @ ELSE @ \cup {"closed handle"}]
    BY DEF LoginShape
  <2>3. t = IF u.calls = u.failing THEN Login!Throw(u) ELSE u
    BY <2>1, <2>2
  <2> HIDE DEF u, t
  <2>4. u.failing = s.failing
    BY <1>1 DEF LoginShape
  <2>. QED
    BY <2>3, <2>4
<1> HIDE DEF u, t
<1>3. /\ LoginShape(u) /\ u.threw = FALSE
      /\ u.of = s.of /\ u.forked = s.forked /\ u.attached = s.attached
      /\ u.session = s.session /\ u.strangers = s.strangers /\ u.misuse = s.misuse
  BY <1>1 DEF LoginShape
<1>4. t = u \/ t = [u EXCEPT !.threw = TRUE]
  BY <1>2 DEF Login!Throw
<1>5. /\ LoginShape(t) /\ t.threw \in BOOLEAN
      /\ t.of = u.of /\ t.forked = u.forked /\ t.attached = u.attached
      /\ t.session = u.session /\ t.strangers = u.strangers /\ t.misuse = u.misuse
  BY <1>3, <1>4 DEF LoginShape
<1>6. /\ LoginShape(t) /\ t.threw \in BOOLEAN
      /\ t.of = s.of /\ t.forked = s.forked /\ t.attached = s.attached
      /\ t.session = s.session /\ t.strangers = s.strangers /\ t.misuse = s.misuse
  BY <1>3, <1>5
<1>. QED
  BY <1>6 DEF t

LoggingOn(o) ==
    /\ ObjectShape(o)
    /\ o.exists = FALSE /\ o.envhp = TRUE /\ o.env = TRUE /\ o.seqStmt = {} /\ o.open = {}

\* Between the calls of the constructor: what is there unless one of them threw.
Connecting(s, attached, session) ==
    /\ LoginShape(s)
    /\ s.threw \in BOOLEAN
    /\ s.misuse \subseteq {"freed after the environment"}
    /\ ObjectGood(s.of["child"], "child")
    /\ ~ s.threw => /\ LoggingOn(s.of["parent"])
                    /\ attached => s.attached = TRUE
                    /\ session => s.session = TRUE

LEMMA ConnectingAllocated ==
  ASSUME NEW s, NEW a, NEW b, Connecting(s, a, b), ~ s.threw
  PROVE  Connecting(Login!Allocated(s, "parent"), a, b)
<1>1. Login!Env(s, "parent") = TRUE
  <2>1. LoggingOn(s.of["parent"])
    BY DEF Connecting
  <2>. QED
    BY <2>1 DEF Login!Env, LoggingOn
<1> DEFINE t == Login!Call(s, Login!Env(s, "parent"))
<1>2. /\ LoginShape(t) /\ t.threw \in BOOLEAN /\ t.of = s.of
      /\ t.attached = s.attached /\ t.session = s.session /\ t.misuse = s.misuse
  BY <1>1, LoginCall DEF Connecting
<1>3. Login!Allocated(s, "parent") = t
  BY DEF Login!Allocated
<1> HIDE DEF t
<1>. QED
  BY <1>2, <1>3 DEF Connecting

LEMMA ConnectingAttached ==
  ASSUME NEW s, NEW a, NEW b, Connecting(s, a, b), ~ s.threw
  PROVE  Connecting(Login!AttachToServer(s, "parent"), TRUE, b)
<1>1. Login!Env(s, "parent") = TRUE
  <2>1. LoggingOn(s.of["parent"])
    BY DEF Connecting
  <2>. QED
    BY <2>1 DEF Login!Env, LoggingOn
<1> DEFINE t == Login!Call(s, Login!Env(s, "parent"))
           u == Login!AttachToServer(s, "parent")
<1>2. /\ LoginShape(t) /\ t.threw \in BOOLEAN /\ t.of = s.of
      /\ t.session = s.session /\ t.misuse = s.misuse
  BY <1>1, LoginCall DEF Connecting
<1>3. u = IF t.threw THEN t ELSE [t EXCEPT !.attached = TRUE]
  BY DEF Login!AttachToServer, Login!Then
<1> HIDE DEF t, u
<1>4. /\ LoginShape(u) /\ u.threw = t.threw /\ u.of = t.of
      /\ u.session = t.session /\ u.misuse = t.misuse /\ (~ u.threw => u.attached = TRUE)
  BY <1>2, <1>3 DEF LoginShape
<1>5. Connecting(u, TRUE, b)
  BY <1>2, <1>4 DEF Connecting
<1>. QED
  BY <1>5 DEF u

LEMMA ConnectingSession ==
  ASSUME NEW s, NEW b, Connecting(s, TRUE, b), ~ s.threw
  PROVE  Connecting(Login!BeginSession(s, "parent"), TRUE, TRUE)
<1>1. (Login!Env(s, "parent") /\ s.attached) = TRUE
  <2>1. LoggingOn(s.of["parent"]) /\ s.attached = TRUE
    BY DEF Connecting
  <2>. QED
    BY <2>1 DEF Login!Env, LoggingOn
<1> DEFINE t == Login!Call(s, Login!Env(s, "parent") /\ s.attached)
           u == Login!BeginSession(s, "parent")
<1>2. /\ LoginShape(t) /\ t.threw \in BOOLEAN /\ t.of = s.of
      /\ t.attached = s.attached /\ t.misuse = s.misuse
  BY <1>1, LoginCall DEF Connecting
<1>3. u = IF t.threw THEN t ELSE [t EXCEPT !.session = TRUE]
  BY DEF Login!BeginSession, Login!Then
<1> HIDE DEF t, u
<1>4. /\ LoginShape(u) /\ u.threw = t.threw /\ u.of = t.of
      /\ u.attached = t.attached /\ u.misuse = t.misuse /\ (~ u.threw => u.session = TRUE)
  BY <1>2, <1>3 DEF LoginShape
<1>5. Connecting(u, TRUE, TRUE)
  BY <1>2, <1>4 DEF Connecting
<1>. QED
  BY <1>5 DEF u

LEMMA LogsOn == LoggingOn([Login!NoObject EXCEPT !.envhp = TRUE, !.env = TRUE])
<1> SUFFICES ASSUME NEW none, NEW o, none = Login!NoObject,
                    o = [none EXCEPT !.envhp = TRUE, !.env = TRUE]
             PROVE  LoggingOn(o)
  OBVIOUS
<1>1. none = [exists |-> FALSE, envhp |-> FALSE, env |-> FALSE, seqStmt |-> {}, open |-> {},
              pid |-> "none"]
  BY DEF Login!NoObject
<1>2. ObjectShape(none) /\ none.exists = FALSE /\ none.seqStmt = {} /\ none.open = {}
  BY <1>1 DEF ObjectShape
<1>. QED
  BY <1>2 DEF LoggingOn, ObjectShape

LEMMA ConnectingEnvironment ==
  ASSUME NEW s, LoginShape(s), s.threw = FALSE, s.misuse \subseteq {"freed after the environment"},
         ObjectGood(s.of["child"], "child"), s.of["parent"] = Login!NoObject
  PROVE  Connecting(Login!CreateEnvironment(s, "parent"), FALSE, FALSE)
<1> DEFINE t == Login!Call(s, TRUE)
           u == Login!CreateEnvironment(s, "parent")
<1>1. /\ LoginShape(t) /\ t.threw \in BOOLEAN /\ t.of = s.of /\ t.misuse = s.misuse
  BY LoginCall
<1>2. u = IF t.threw THEN t ELSE [t EXCEPT !.of["parent"].envhp = TRUE, !.of["parent"].env = TRUE]
  BY DEF Login!CreateEnvironment, Login!Then
<1> HIDE DEF t, u
<1>3. t.of["parent"] = Login!NoObject
  BY <1>1
<1>4. CASE ~ t.threw
  <2> DEFINE o == [t.of["parent"] EXCEPT !.envhp = TRUE, !.env = TRUE]
  <2>1. u = [t EXCEPT !.of = [t.of EXCEPT !["parent"] = o]]
    <3> DEFINE v == [t EXCEPT !.of["parent"].envhp = TRUE]
               w == [t.of["parent"] EXCEPT !.envhp = TRUE]
    <3>1. u = [v EXCEPT !.of = [v.of EXCEPT !["parent"] = [v.of["parent"] EXCEPT !.env = TRUE]]]
      BY <1>2, <1>4
    <3>2. v = [t EXCEPT !.of = [t.of EXCEPT !["parent"] = w]] /\ o = [w EXCEPT !.env = TRUE]
      OBVIOUS
    <3> HIDE DEF v, o, w
    <3>3. v.of = [t.of EXCEPT !["parent"] = w] /\ v.of["parent"] = w
      BY <1>1, <3>2 DEF LoginShape, Login!Processes
    <3>4. u = [v EXCEPT !.of = [v.of EXCEPT !["parent"] = o]]
      BY <3>1, <3>2, <3>3
    <3>5. [v.of EXCEPT !["parent"] = o] = [t.of EXCEPT !["parent"] = o]
      BY <1>1, <3>3 DEF LoginShape, Login!Processes
    <3>6. [v EXCEPT !.of = [t.of EXCEPT !["parent"] = o]] = [t EXCEPT !.of = [t.of EXCEPT !["parent"] = o]]
      BY <1>1, <3>2 DEF LoginShape
    <3>. QED
      BY <3>4, <3>5, <3>6
  <2>2. LoggingOn(o)
    BY <1>3, LogsOn
  <2> HIDE DEF o
  <2>3. /\ LoginShape(u) /\ u.of = [t.of EXCEPT !["parent"] = o] /\ u.threw = t.threw
        /\ u.misuse = t.misuse
    BY <1>1, <2>1 DEF LoginShape, Login!Processes
  <2>4. u.of["parent"] = o /\ u.of["child"] = t.of["child"]
    BY <1>1, <2>3 DEF LoginShape, Login!Processes
  <2>5. Connecting(u, FALSE, FALSE)
    BY <1>1, <2>2, <2>3, <2>4 DEF Connecting
  <2>. QED
    BY <2>5 DEF u
<1>5. CASE t.threw
  <2>1. Connecting(u, FALSE, FALSE)
    BY <1>1, <1>2, <1>5 DEF Connecting
  <2>. QED
    BY <2>1 DEF u
<1>. QED
  BY <1>1, <1>4, <1>5

LEMMA Connected ==
  ASSUME NEW s, LoginShape(s), s.threw = FALSE, s.misuse \subseteq {"freed after the environment"},
         ObjectGood(s.of["child"], "child"), s.of["parent"] = Login!NoObject
  PROVE  Connecting(Login!Logon(s, "parent"), TRUE, TRUE)
<1> DEFINE a == Login!CreateEnvironment(s, "parent")
           b1 == IF a.threw THEN a ELSE Login!Allocated(a, "parent")
           b == IF b1.threw THEN b1 ELSE Login!Allocated(b1, "parent")
           c == IF b.threw THEN b ELSE Login!AttachToServer(b, "parent")
           d1 == IF c.threw THEN c ELSE Login!Allocated(c, "parent")
           d == IF d1.threw THEN d1 ELSE Login!Allocated(d1, "parent")
           e == IF d.threw THEN d ELSE Login!BeginSession(d, "parent")
<1>1. Login!Logon(s, "parent") = IF e.threw THEN e ELSE Login!Allocated(e, "parent")
  <2>1. b = Login!Then(a, LAMBDA t : Login!Then(Login!Allocated(t, "parent"),
                                         LAMBDA u : Login!Allocated(u, "parent")))
    BY DEF Login!Then
  <2>2. d = Login!Then(c, LAMBDA t : Login!Then(Login!Allocated(t, "parent"),
                                         LAMBDA u : Login!Allocated(u, "parent")))
    BY DEF Login!Then
  <2>3. c = Login!Then(b, LAMBDA t : Login!AttachToServer(t, "parent"))
    BY DEF Login!Then
  <2>. QED
    BY DEF Login!Logon, Login!Then
<1>2. Connecting(a, FALSE, FALSE)
  BY ConnectingEnvironment
<1> HIDE DEF a
<1>3. Connecting(b1, FALSE, FALSE)
  BY <1>2, ConnectingAllocated
<1> HIDE DEF b1
<1>4. Connecting(b, FALSE, FALSE)
  BY <1>3, ConnectingAllocated
<1> HIDE DEF b
<1>5. Connecting(c, TRUE, FALSE)
  <2>1. CASE b.threw
    BY <1>4, <2>1 DEF Connecting
  <2>2. CASE ~ b.threw
    BY <1>4, <2>2, ConnectingAttached
  <2>. QED
    BY <2>1, <2>2
<1> HIDE DEF c
<1>6. Connecting(d1, TRUE, FALSE)
  BY <1>5, ConnectingAllocated
<1> HIDE DEF d1
<1>7. Connecting(d, TRUE, FALSE)
  BY <1>6, ConnectingAllocated
<1> HIDE DEF d
<1>8. Connecting(e, TRUE, TRUE)
  <2>1. CASE d.threw
    BY <1>7, <2>1 DEF Connecting
  <2>2. CASE ~ d.threw
    BY <1>7, <2>2, ConnectingSession
  <2>. QED
    BY <2>1, <2>2
<1> HIDE DEF e
<1>. QED
  BY <1>1, <1>8, ConnectingAllocated

LEMMA LoginBegin ==
  ASSUME NEW s, LoginShape(s), NEW k
  PROVE  LET t == Login!Begin(s, k)
         IN /\ LoginShape(t) /\ t.threw = FALSE
            /\ t.of = s.of /\ t.forked = s.forked /\ t.attached = s.attached
            /\ t.session = s.session /\ t.strangers = s.strangers /\ t.misuse = s.misuse
<1> SUFFICES ASSUME NEW t, t = Login!Begin(s, k)
             PROVE  /\ LoginShape(t) /\ t.threw = FALSE
                    /\ t.of = s.of /\ t.forked = s.forked /\ t.attached = s.attached
                    /\ t.session = s.session /\ t.strangers = s.strangers /\ t.misuse = s.misuse
  OBVIOUS
<1>1. t = [s EXCEPT !.failing = k, !.calls = 0, !.threw = FALSE]
  BY DEF Login!Begin
<1>. QED
  BY <1>1 DEF LoginShape

LEMMA LoginEnds ==
  ASSUME NEW t, LoginShape(t), Login!Ends(t)
  PROVE  /\ LoginShape(sys') /\ sys'.threw = FALSE
         /\ sys'.of = t.of /\ sys'.forked = t.forked /\ sys'.attached = t.attached
         /\ sys'.session = t.session /\ sys'.strangers = t.strangers /\ sys'.misuse = t.misuse
<1>1. sys' = [t EXCEPT !.failing = 0, !.calls = 0, !.threw = FALSE]
  BY DEF Login!Ends, Login!Finished
<1>. QED
  BY <1>1 DEF LoginShape

LEMMA LoginConstruct ==
  ASSUME LoginGood(sys), NEW k, Login!Construct(k)
  PROVE  LoginGood(sys')
<1> DEFINE s1 == [sys EXCEPT !.attached = FALSE, !.session = FALSE]
           s == Login!Begin(s1, k)
           t == Login!Logon(s, "parent")
           u == IF t.threw THEN [t EXCEPT !.of["parent"] = Login!NoObject]
                ELSE [t EXCEPT !.of["parent"].exists = TRUE, !.of["parent"].pid = "parent"]
<1>1. Login!Ends(u)
  BY DEF Login!Construct
<1>a. s1 = [sys EXCEPT !.attached = FALSE, !.session = FALSE]
  OBVIOUS
<1> HIDE DEF s1
<1>2. LoginShape(s1) /\ s1.of = sys.of /\ s1.misuse = sys.misuse
  BY <1>a DEF LoginGood, LoginShape
<1>3. LoginShape(s) /\ s.threw = FALSE /\ s.of = sys.of /\ s.misuse = sys.misuse
  BY <1>2, LoginBegin
<1> HIDE DEF s
<1>4. s.of["parent"] = Login!NoObject /\ ObjectGood(s.of["child"], "child")
  <2>1. ~ sys.of["parent"].exists
    BY DEF Login!Construct
  <2>2. ObjectGood(sys.of["parent"], "parent") /\ ObjectGood(sys.of["child"], "child")
    BY DEF LoginGood, Login!Processes
  <2>. QED
    BY <1>3, <2>1, <2>2 DEF ObjectGood
<1>5. Connecting(t, TRUE, TRUE)
  BY <1>3, <1>4, Connected DEF LoginGood
<1>b. u = IF t.threw THEN [t EXCEPT !.of["parent"] = Login!NoObject]
          ELSE [t EXCEPT !.of["parent"].exists = TRUE, !.of["parent"].pid = "parent"]
  OBVIOUS
<1> HIDE DEF t, u
<1>6. LoginShape(t) /\ ObjectGood(t.of["child"], "child") /\ t.misuse \subseteq {"freed after the environment"}
  BY <1>5 DEF Connecting
<1>7. CASE t.threw
  <2>1. u = [t EXCEPT !.of = [t.of EXCEPT !["parent"] = Login!NoObject]]
    BY <1>7, <1>b
  <2>2. /\ LoginShape(u) /\ u.of["parent"] = Login!NoObject /\ u.of["child"] = t.of["child"]
        /\ u.misuse = t.misuse
    BY <1>6, <2>1 DEF LoginShape, Login!Processes
  <2>3. /\ LoginShape(sys') /\ sys'.threw = FALSE /\ sys'.of = u.of /\ sys'.misuse = u.misuse
    BY <1>1, <2>2, LoginEnds
  <2>4. ~ Login!NoObject.exists
    BY DEF Login!NoObject
  <2>. QED
    BY <1>6, <2>2, <2>3, <2>4, NoObjectGood DEF LoginGood, Login!Processes
<1>8. CASE ~ t.threw
  <2> DEFINE w == [t.of["parent"] EXCEPT !.exists = TRUE]
             o == [w EXCEPT !.pid = "parent"]
             v == [t EXCEPT !.of = [t.of EXCEPT !["parent"] = w]]
  <2>1. v.of["parent"] = w /\ v.of = [t.of EXCEPT !["parent"] = w]
    BY <1>6 DEF LoginShape, Login!Processes
  <2>2. u = [v EXCEPT !.of = [v.of EXCEPT !["parent"] = [v.of["parent"] EXCEPT !.pid = "parent"]]]
    BY <1>8, <1>b
  <2>3. u = [v EXCEPT !.of = [v.of EXCEPT !["parent"] = o]]
    BY <2>1, <2>2
  <2>4. LoggingOn(t.of["parent"]) /\ t.session = TRUE
    BY <1>5, <1>8 DEF Connecting
  <2>5. /\ o.exists = TRUE /\ ObjectShape(o) /\ o.pid = "parent" /\ o.seqStmt = o.open
        /\ o.envhp = TRUE /\ o.env = TRUE
    <3>1. w = [t.of["parent"] EXCEPT !.exists = TRUE] /\ o = [w EXCEPT !.pid = "parent"]
      OBVIOUS
    <3> HIDE DEF w, o
    <3>2. LoggingOn([w EXCEPT !.exists = FALSE]) /\ ObjectShape(w) /\ w.exists = TRUE
      BY <2>4, <3>1 DEF LoggingOn, ObjectShape
    <3>3. w.seqStmt = {} /\ w.open = {} /\ w.envhp = TRUE /\ w.env = TRUE
      BY <2>4, <3>1 DEF LoggingOn, ObjectShape
    <3>. QED
      BY <3>1, <3>2, <3>3 DEF ObjectShape
  <2>6. v = [t EXCEPT !.of = [t.of EXCEPT !["parent"] = w]]
    OBVIOUS
  <2> HIDE DEF o, w, v
  <2>7. LoginShape(v) /\ v.of["child"] = t.of["child"] /\ v.misuse = t.misuse /\ v.session = t.session
    BY <1>6, <2>6 DEF LoginShape, Login!Processes
  <2>8. /\ LoginShape(u) /\ u.of["parent"] = o /\ u.of["child"] = v.of["child"]
        /\ u.misuse = v.misuse /\ u.session = v.session
    BY <2>3, <2>7 DEF LoginShape, Login!Processes
  <2>9. /\ LoginShape(sys') /\ sys'.threw = FALSE /\ sys'.of = u.of /\ sys'.misuse = u.misuse
        /\ sys'.session = u.session
    BY <1>1, <2>8, LoginEnds
  <2>10. ObjectGood(o, "parent")
    BY <2>5 DEF ObjectGood
  <2>. QED
    BY <1>6, <2>4, <2>7, <2>8, <2>9, <2>10 DEF LoginGood, Login!Processes
<1>. QED
  BY <1>7, <1>8


\* What a failed call of the destructor does is logged.
LEMMA LoginDone ==
  ASSUME NEW s, LoginShape(s), s.threw = FALSE, NEW p, s.of[p].env = TRUE
  PROVE  \A u \in {Login!EndSession(s, p), Login!DetachFromServer(s, p)} :
           /\ LoginShape(u) /\ u.threw = FALSE /\ u.of = s.of
           /\ u.strangers = s.strangers /\ u.misuse = s.misuse
<1> SUFFICES ASSUME NEW u, u = Login!EndSession(s, p) \/ u = Login!DetachFromServer(s, p)
             PROVE  /\ LoginShape(u) /\ u.threw = FALSE /\ u.of = s.of
                    /\ u.strangers = s.strangers /\ u.misuse = s.misuse
  OBVIOUS
<1>1. Login!Env(s, p) = TRUE
  BY DEF Login!Env
<1> DEFINE t == Login!Call(s, Login!Env(s, p))
<1>2. /\ LoginShape(t) /\ t.threw \in BOOLEAN /\ t.of = s.of
      /\ t.strangers = s.strangers /\ t.misuse = s.misuse
  BY <1>1, LoginCall
<1>3. \/ t.threw /\ u = [t EXCEPT !.threw = FALSE]
      \/ ~ t.threw /\ u = [t EXCEPT !.session = FALSE]
      \/ ~ t.threw /\ u = [t EXCEPT !.attached = FALSE, !.session = FALSE]
  BY DEF Login!EndSession, Login!DetachFromServer
<1> HIDE DEF t
<1>4. /\ LoginShape(u) /\ u.threw = FALSE /\ u.of = t.of
      /\ u.strangers = t.strangers /\ u.misuse = t.misuse
  BY <1>2, <1>3 DEF LoginShape
<1>. QED
  BY <1>2, <1>4

Late(s) == s.misuse \subseteq {"freed after the environment"}
SetObject(s, p, o) == [s EXCEPT !.of = [s.of EXCEPT ![p] = o]]

\* Objects change one at a time.
LEMMA LoginSetObject ==
  ASSUME NEW s, LoginShape(s), NEW p \in Login!Processes, NEW o
  PROVE  LET t == SetObject(s, p, o)
         IN /\ LoginShape(t) /\ t.threw = s.threw /\ t.misuse = s.misuse
            /\ t.of[p] = o
            /\ \A q \in Login!Processes : q # p => t.of[q] = s.of[q]
            /\ t.forked = s.forked /\ t.attached = s.attached
            /\ t.session = s.session /\ t.strangers = s.strangers
<1> SUFFICES ASSUME NEW t, t = SetObject(s, p, o)
             PROVE  /\ LoginShape(t) /\ t.threw = s.threw /\ t.misuse = s.misuse
                    /\ t.of[p] = o
                    /\ \A q \in Login!Processes : q # p => t.of[q] = s.of[q]
                    /\ t.forked = s.forked /\ t.attached = s.attached
                    /\ t.session = s.session /\ t.strangers = s.strangers
  OBVIOUS
<1>0. t = [s EXCEPT !.of = [s.of EXCEPT ![p] = o]]
  BY DEF SetObject
<1>1. /\ LoginShape(t) /\ t.threw = s.threw /\ t.misuse = s.misuse
      /\ t.of = [s.of EXCEPT ![p] = o]
      /\ t.forked = s.forked /\ t.attached = s.attached
      /\ t.session = s.session /\ t.strangers = s.strangers
  BY <1>0 DEF LoginShape
<1>2. t.of[p] = o /\ \A q \in Login!Processes : q # p => t.of[q] = s.of[q]
  BY <1>1 DEF LoginShape
<1>. QED
  BY <1>1, <1>2

LEMMA LoginFreeEnvironment ==
  ASSUME NEW s, LoginShape(s), NEW p \in Login!Processes, ObjectShape(s.of[p])
  PROVE  LET t == Login!FreeEnvironment(s, p)
         IN /\ LoginShape(t) /\ t.threw = s.threw /\ t.misuse = s.misuse
            /\ ObjectShape(t.of[p]) /\ t.of[p].env = FALSE /\ t.of[p].open = {}
            /\ t.of[p].exists = s.of[p].exists /\ t.of[p].pid = s.of[p].pid
            /\ t.of[p].envhp = s.of[p].envhp /\ t.of[p].seqStmt = s.of[p].seqStmt
            /\ \A q \in Login!Processes : q # p => t.of[q] = s.of[q]
            /\ t.session = s.session /\ t.strangers = s.strangers
<1> SUFFICES ASSUME NEW t, t = Login!FreeEnvironment(s, p)
             PROVE  /\ LoginShape(t) /\ t.threw = s.threw /\ t.misuse = s.misuse
                    /\ ObjectShape(t.of[p]) /\ t.of[p].env = FALSE /\ t.of[p].open = {}
                    /\ t.of[p].exists = s.of[p].exists /\ t.of[p].pid = s.of[p].pid
                    /\ t.of[p].envhp = s.of[p].envhp /\ t.of[p].seqStmt = s.of[p].seqStmt
                    /\ \A q \in Login!Processes : q # p => t.of[q] = s.of[q]
                    /\ t.session = s.session /\ t.strangers = s.strangers
  OBVIOUS
<1> DEFINE w == [s.of[p] EXCEPT !.env = FALSE]
           o == [w EXCEPT !.open = {}]
           v == SetObject(s, p, w)
<1>1. t = [v EXCEPT !.of = [v.of EXCEPT ![p] = [v.of[p] EXCEPT !.open = {}]]]
  BY DEF SetObject, Login!FreeEnvironment
<1>2. o = [w EXCEPT !.open = {}] /\ w = [s.of[p] EXCEPT !.env = FALSE]
  OBVIOUS
<1>v. v = SetObject(s, p, w)
  OBVIOUS
<1> HIDE DEF v, w, o
<1>3. /\ LoginShape(v) /\ v.of[p] = w /\ v.threw = s.threw /\ v.misuse = s.misuse
      /\ \A q \in Login!Processes : q # p => v.of[q] = s.of[q]
      /\ v.session = s.session /\ v.strangers = s.strangers
  BY <1>v, LoginSetObject
<1>4. t = SetObject(v, p, o)
  BY <1>1, <1>2, <1>3 DEF SetObject
<1>5. /\ LoginShape(t) /\ t.of[p] = o /\ t.threw = v.threw /\ t.misuse = v.misuse
      /\ \A q \in Login!Processes : q # p => t.of[q] = v.of[q]
      /\ t.session = v.session /\ t.strangers = v.strangers
  BY <1>3, <1>4, LoginSetObject
<1>6. /\ ObjectShape(w) /\ w.env = FALSE /\ w.exists = s.of[p].exists /\ w.pid = s.of[p].pid
      /\ w.envhp = s.of[p].envhp /\ w.seqStmt = s.of[p].seqStmt
  BY <1>2 DEF ObjectShape
<1>7. /\ ObjectShape(o) /\ o.env = FALSE /\ o.exists = w.exists /\ o.pid = w.pid
      /\ o.envhp = w.envhp /\ o.seqStmt = w.seqStmt /\ o.open = {}
  BY <1>2, <1>6 DEF ObjectShape
<1>. QED
  BY <1>3, <1>5, <1>6, <1>7

LEMMA LoginFreeStatements ==
  ASSUME NEW s, LoginShape(s), NEW p \in Login!Processes, ObjectShape(s.of[p]),
         Late(s)
  PROVE  LET t == Login!FreeStatements(s, p)
         IN /\ LoginShape(t) /\ t.threw = s.threw
            /\ Late(t)
            /\ ObjectShape(t.of[p]) /\ t.of[p].seqStmt = {} /\ t.of[p].open = {}
            /\ t.of[p].exists = s.of[p].exists /\ t.of[p].pid = s.of[p].pid
            /\ t.of[p].envhp = s.of[p].envhp /\ t.of[p].env = s.of[p].env
            /\ \A q \in Login!Processes : q # p => t.of[q] = s.of[q]
            /\ t.session = s.session /\ t.strangers = s.strangers
<1> SUFFICES ASSUME NEW t, t = Login!FreeStatements(s, p)
             PROVE  /\ LoginShape(t) /\ t.threw = s.threw
                    /\ Late(t)
                    /\ ObjectShape(t.of[p]) /\ t.of[p].seqStmt = {} /\ t.of[p].open = {}
                    /\ t.of[p].exists = s.of[p].exists /\ t.of[p].pid = s.of[p].pid
                    /\ t.of[p].envhp = s.of[p].envhp /\ t.of[p].env = s.of[p].env
                    /\ \A q \in Login!Processes : q # p => t.of[q] = s.of[q]
                    /\ t.session = s.session /\ t.strangers = s.strangers
  OBVIOUS
<1> DEFINE r == IF s.of[p].seqStmt \subseteq s.of[p].open THEN s
                ELSE Login!Misuse(s, "freed after the environment")
           w == [r.of[p] EXCEPT !.seqStmt = {}]
           o == [w EXCEPT !.open = {}]
           v == SetObject(r, p, w)
<1>1. t = [v EXCEPT !.of = [v.of EXCEPT ![p] = [v.of[p] EXCEPT !.open = {}]]]
  BY DEF SetObject, Login!FreeStatements
<1>2. /\ o = [w EXCEPT !.open = {}]
      /\ w = [r.of[p] EXCEPT !.seqStmt = {}]
  OBVIOUS
<1>v. v = SetObject(r, p, w)
  OBVIOUS
<1>r. r = s \/ r = [s EXCEPT !.misuse = s.misuse \cup {"freed after the environment"}]
  BY DEF Login!Misuse
<1> HIDE DEF r, v, w, o
<1>3. /\ LoginShape(r) /\ r.threw = s.threw /\ r.of = s.of
      /\ Late(r)
      /\ r.session = s.session /\ r.strangers = s.strangers
  BY <1>r DEF LoginShape, Late
<1>4. /\ LoginShape(v) /\ v.of[p] = w /\ v.threw = r.threw /\ v.misuse = r.misuse
      /\ \A q \in Login!Processes : q # p => v.of[q] = r.of[q]
      /\ v.session = r.session /\ v.strangers = r.strangers
  BY <1>v, <1>3, LoginSetObject
<1>5. t = SetObject(v, p, o)
  BY <1>1, <1>2, <1>4 DEF SetObject
<1>6. /\ LoginShape(t) /\ t.of[p] = o /\ t.threw = v.threw /\ t.misuse = v.misuse
      /\ \A q \in Login!Processes : q # p => t.of[q] = v.of[q]
      /\ t.session = v.session /\ t.strangers = v.strangers
  BY <1>4, <1>5, LoginSetObject
<1>7. /\ ObjectShape(w) /\ w.seqStmt = {} /\ w.exists = s.of[p].exists /\ w.pid = s.of[p].pid
      /\ w.envhp = s.of[p].envhp /\ w.env = s.of[p].env
  BY <1>2, <1>3 DEF ObjectShape
<1>8. /\ ObjectShape(o) /\ o.env = w.env /\ o.exists = w.exists /\ o.pid = w.pid
      /\ o.envhp = w.envhp /\ o.seqStmt = {} /\ o.open = {}
  BY <1>2, <1>7 DEF ObjectShape
<1>9. Late(t)
  BY <1>3, <1>4, <1>6 DEF Late
<1>. QED
  BY <1>3, <1>4, <1>6, <1>7, <1>8, <1>9

LEMMA LoginDestroy ==
  ASSUME LoginGood(sys), NEW p \in Login!Processes, NEW k, Login!Destroy(p, k)
  PROVE  LoginGood(sys')
<1> DEFINE s == Login!Begin(sys, k)
           d == Login!DetachFromServer(Login!EndSession(s, p), p)
           t == IF ~ s.of[p].envhp THEN s ELSE Login!FreeEnvironment(d, p)
           f == Login!FreeStatements(t, p)
           stranger == s.of[p].envhp /\ s.of[p].pid # p
           u == [f EXCEPT !.of[p] = Login!NoObject, !.strangers = @ \/ stranger]
<1>1. Login!Ends(u) /\ sys.of[p].exists
  BY DEF Login!Destroy
<1>2. LoginShape(s) /\ s.threw = FALSE /\ s.of = sys.of /\ s.misuse = sys.misuse
      /\ s.strangers = sys.strangers /\ s.session = sys.session
  BY LoginBegin DEF LoginGood
<1> HIDE DEF s
<1>3. ObjectGood(s.of[p], p) /\ s.of[p].exists /\ ObjectShape(s.of[p])
  BY <1>1, <1>2 DEF LoginGood, ObjectGood
<1>4. /\ LoginShape(t) /\ t.threw = FALSE /\ t.misuse = s.misuse /\ ObjectShape(t.of[p])
      /\ \A q \in Login!Processes : q # p => t.of[q] = s.of[q]
      /\ t.strangers = s.strangers
      /\ ~ s.of[p].envhp => t.session = s.session
  <2>1. CASE ~ s.of[p].envhp
    BY <1>2, <1>3, <2>1
  <2>2. CASE s.of[p].envhp
    <3> DEFINE e == Login!EndSession(s, p)
    <3>1. s.of[p].env = TRUE
      BY <1>3, <2>2 DEF ObjectGood
    <3>2. /\ LoginShape(e) /\ e.threw = FALSE /\ e.of = s.of
          /\ e.strangers = s.strangers /\ e.misuse = s.misuse
      BY <1>2, <3>1, LoginDone
    <3> HIDE DEF e
    <3> DEFINE g == Login!DetachFromServer(e, p)
    <3>3. /\ LoginShape(g) /\ g.threw = FALSE /\ g.of = s.of
          /\ g.strangers = s.strangers /\ g.misuse = s.misuse
      BY <3>1, <3>2, LoginDone
    <3>4. d = g
      BY DEF e
    <3> HIDE DEF g, d
    <3>5. t = Login!FreeEnvironment(g, p)
      BY <2>2, <3>4
    <3> HIDE DEF t
    <3>6. ObjectShape(g.of[p])
      BY <1>3, <3>3
    <3>7. /\ LoginShape(t) /\ t.threw = g.threw /\ t.misuse = g.misuse
          /\ ObjectShape(t.of[p])
          /\ \A q \in Login!Processes : q # p => t.of[q] = g.of[q]
          /\ t.strangers = g.strangers
      BY <3>3, <3>5, <3>6, LoginFreeEnvironment
    <3>. QED
      BY <2>2, <3>3, <3>7
  <2>. QED
    BY <2>1, <2>2
<1> HIDE DEF t
<1>5. /\ LoginShape(f) /\ f.threw = FALSE /\ Late(f)
      /\ \A q \in Login!Processes : q # p => f.of[q] = t.of[q]
      /\ f.strangers = t.strangers /\ f.session = t.session
  <2>1. Late(t)
    BY <1>2, <1>4 DEF LoginGood, Late
  <2>. QED
    BY <1>4, <2>1, LoginFreeStatements
<1> DEFINE g == SetObject(f, p, Login!NoObject)
<1>6. u = [g EXCEPT !.strangers = g.strangers \/ stranger]
  BY DEF SetObject
<1>7. g = SetObject(f, p, Login!NoObject)
  OBVIOUS
<1> HIDE DEF f, g
<1>8. /\ LoginShape(g) /\ g.of[p] = Login!NoObject /\ g.threw = FALSE /\ g.misuse = f.misuse
      /\ \A q \in Login!Processes : q # p => g.of[q] = f.of[q]
      /\ g.session = f.session /\ g.strangers = f.strangers
  BY <1>5, <1>7, LoginSetObject
<1> HIDE DEF u
<1>9. /\ LoginShape(u) /\ u.of = g.of /\ u.misuse = g.misuse /\ u.session = g.session
      /\ u.strangers = (g.strangers \/ stranger)
  BY <1>6, <1>8 DEF LoginShape
<1>10. /\ LoginShape(sys') /\ sys'.threw = FALSE /\ sys'.of = u.of /\ sys'.misuse = u.misuse
       /\ sys'.session = u.session /\ sys'.strangers = u.strangers
  BY <1>1, <1>9, LoginEnds
<1>11. \A q \in Login!Processes : ObjectGood(sys'.of[q], q)
  <2>1. \A q \in Login!Processes : q # p => sys'.of[q] = sys.of[q]
    BY <1>2, <1>4, <1>5, <1>8, <1>9, <1>10
  <2>2. sys'.of[p] = Login!NoObject
    BY <1>8, <1>9, <1>10
  <2>. QED
    BY <2>1, <2>2, NoObjectGood DEF LoginGood
<1>12. sys'.of["parent"].exists /\ ~ sys'.strangers => sys'.session
  <2>1. CASE p = "parent"
    <3>1. ~ Login!NoObject.exists
      BY DEF Login!NoObject
    <3>. QED
      BY <1>8, <1>9, <1>10, <2>1, <3>1
  <2>2. CASE p # "parent"
    <3>1. s.of[p].pid = "parent"
      BY <1>3 DEF ObjectGood
    <3>2. CASE s.of[p].envhp
      <4>1. stranger
        BY <2>2, <3>1, <3>2
      <4>2. sys'.strangers
        BY <1>9, <1>10, <4>1
      <4>. QED
        BY <4>2
    <3>3. CASE ~ s.of[p].envhp
      <4>1. ~ stranger
        BY <3>3
      <4> HIDE DEF stranger
      <4>2. sys'.session = sys.session /\ (sys'.strangers <=> sys.strangers)
        BY <1>2, <1>4, <1>5, <1>8, <1>9, <1>10, <3>3, <4>1
      <4>3. "parent" \in Login!Processes /\ p # "parent"
        BY <2>2 DEF Login!Processes
      <4>4. sys'.of["parent"] = sys.of["parent"]
        BY <1>2, <1>4, <1>5, <1>8, <1>9, <1>10, <4>3
      <4>. QED
        BY <4>2, <4>4 DEF LoginGood
    <3>. QED
      BY <3>2, <3>3
  <2>. QED
    BY <2>1, <2>2
<1>13. sys'.misuse \subseteq {"freed after the environment"}
  BY <1>5, <1>8, <1>9, <1>10 DEF Late
<1>. QED
  BY <1>10, <1>11, <1>12, <1>13 DEF LoginGood


\* In the child the connection goes without a word to the server.
LEMMA LoginPing ==
  ASSUME LoginGood(sys), NEW p \in Login!Processes, Login!Ping(p)
  PROVE  LoginGood(sys')
<1> DEFINE s == Login!Begin(sys, 0)
           f == Login!FreeStatements(s, p)
           e == Login!FreeEnvironment(f, p)
           o == [e.of[p] EXCEPT !.envhp = FALSE]
           u == SetObject(e, p, o)
<1>1. Login!Ends(u) /\ sys.of[p].exists /\ sys.of[p].pid # p
  BY DEF Login!Ping, SetObject
<1>2. o = [e.of[p] EXCEPT !.envhp = FALSE]
  OBVIOUS
<1>3. LoginShape(s) /\ s.threw = FALSE /\ s.of = sys.of /\ s.misuse = sys.misuse
      /\ s.strangers = sys.strangers /\ s.session = sys.session
  BY LoginBegin DEF LoginGood
<1> HIDE DEF s
<1>4. ObjectShape(s.of[p]) /\ sys.of[p].pid = "parent"
  BY <1>1, <1>3 DEF LoginGood, ObjectGood
<1>5. Late(s)
  BY <1>3 DEF LoginGood, Late
<1>6. /\ LoginShape(f) /\ f.threw = s.threw /\ Late(f) /\ ObjectShape(f.of[p])
      /\ f.of[p].seqStmt = {} /\ f.of[p].exists = s.of[p].exists /\ f.of[p].pid = s.of[p].pid
      /\ \A q \in Login!Processes : q # p => f.of[q] = s.of[q]
      /\ f.session = s.session /\ f.strangers = s.strangers
  BY <1>3, <1>4, <1>5, LoginFreeStatements
<1> HIDE DEF f
<1>7. /\ LoginShape(e) /\ e.threw = f.threw /\ e.misuse = f.misuse /\ ObjectShape(e.of[p])
      /\ e.of[p].seqStmt = f.of[p].seqStmt /\ e.of[p].exists = f.of[p].exists
      /\ e.of[p].pid = f.of[p].pid /\ e.of[p].env = FALSE /\ e.of[p].open = {}
      /\ \A q \in Login!Processes : q # p => e.of[q] = f.of[q]
      /\ e.session = f.session /\ e.strangers = f.strangers
  <2>1. LoginShape(f) /\ ObjectShape(f.of[p])
    BY <1>6
  <2>. QED
    BY <2>1, LoginFreeEnvironment
<1> HIDE DEF e, o
<1>8. /\ ObjectShape(o) /\ o.envhp = FALSE /\ o.env = FALSE /\ o.open = {}
      /\ o.seqStmt = e.of[p].seqStmt /\ o.exists = e.of[p].exists /\ o.pid = e.of[p].pid
  BY <1>2, <1>7 DEF ObjectShape
<1>9. /\ LoginShape(u) /\ u.threw = e.threw /\ u.misuse = e.misuse /\ u.of[p] = o
      /\ \A q \in Login!Processes : q # p => u.of[q] = e.of[q]
      /\ u.session = e.session /\ u.strangers = e.strangers
  BY <1>7, LoginSetObject
<1> HIDE DEF u
<1>10. /\ LoginShape(sys') /\ sys'.threw = FALSE
       /\ sys'.of = u.of /\ sys'.session = u.session /\ sys'.strangers = u.strangers
       /\ sys'.misuse = u.misuse
  BY <1>1, <1>9, LoginEnds
<1>11. p # "parent"
  BY <1>1, <1>4
<1>12. ObjectGood(sys'.of[p], p)
  <2>1. o.exists /\ o.pid = "parent" /\ o.seqStmt = {}
    BY <1>1, <1>3, <1>4, <1>6, <1>7, <1>8
  <2>2. ObjectGood(o, p)
    BY <1>8, <1>11, <2>1 DEF ObjectGood
  <2>. QED
    BY <1>9, <1>10, <2>2
<1>13. \A q \in Login!Processes : q # p => sys'.of[q] = sys.of[q]
  BY <1>3, <1>6, <1>7, <1>9, <1>10
<1>14. \A q \in Login!Processes : ObjectGood(sys'.of[q], q)
  BY <1>12, <1>13 DEF LoginGood
<1>15. sys'.of["parent"].exists /\ ~ sys'.strangers => sys'.session
  <2>1. "parent" \in Login!Processes
    BY DEF Login!Processes
  <2>2. sys'.session = sys.session /\ sys'.strangers = sys.strangers
    BY <1>3, <1>6, <1>7, <1>9, <1>10
  <2>. QED
    BY <1>11, <1>13, <2>1, <2>2 DEF LoginGood
<1>16. sys'.misuse \subseteq {"freed after the environment"}
  BY <1>6, <1>7, <1>9, <1>10 DEF Late
<1>. QED
  BY <1>10, <1>14, <1>15, <1>16 DEF LoginGood

Remembered(s, p, name) ==
    [s EXCEPT !.of[p].seqStmt = @ \cup {name}, !.of[p].open = @ \cup {name}]

\* A statement that is remembered has a handle.
LEMMA LoginRemember ==
  ASSUME NEW s, LoginShape(s), NEW p \in Login!Processes, ObjectShape(s.of[p]), NEW name,
         s.of[p].seqStmt = s.of[p].open
  PROVE  LET t == Remembered(s, p, name)
         IN /\ LoginShape(t) /\ t.threw = s.threw /\ t.misuse = s.misuse
            /\ ObjectShape(t.of[p]) /\ t.of[p].seqStmt = t.of[p].open
            /\ name \in t.of[p].open
            /\ t.of[p].exists = s.of[p].exists /\ t.of[p].pid = s.of[p].pid
            /\ t.of[p].env = s.of[p].env /\ t.of[p].envhp = s.of[p].envhp
            /\ \A q \in Login!Processes : q # p => t.of[q] = s.of[q]
            /\ t.session = s.session /\ t.strangers = s.strangers
<1> DEFINE t == Remembered(s, p, name)
           w == [s.of[p] EXCEPT !.seqStmt = s.of[p].seqStmt \cup {name}]
           o == [w EXCEPT !.open = w.open \cup {name}]
           v == SetObject(s, p, w)
<1>1. t = [v EXCEPT !.of = [v.of EXCEPT ![p] = [v.of[p] EXCEPT !.open = v.of[p].open \cup {name}]]]
  BY DEF SetObject, Remembered
<1>2. o = [w EXCEPT !.open = w.open \cup {name}]
  OBVIOUS
<1>3. w = [s.of[p] EXCEPT !.seqStmt = s.of[p].seqStmt \cup {name}]
  OBVIOUS
<1> HIDE DEF t, w, o
<1>4. /\ LoginShape(v) /\ v.of[p] = w /\ v.threw = s.threw /\ v.misuse = s.misuse
      /\ \A q \in Login!Processes : q # p => v.of[q] = s.of[q]
      /\ v.session = s.session /\ v.strangers = s.strangers
  BY LoginSetObject
<1> HIDE DEF v
<1>5. t = SetObject(v, p, o)
  BY <1>1, <1>2, <1>4 DEF SetObject
<1>6. /\ LoginShape(t) /\ t.of[p] = o /\ t.threw = v.threw /\ t.misuse = v.misuse
      /\ \A q \in Login!Processes : q # p => t.of[q] = v.of[q]
      /\ t.session = v.session /\ t.strangers = v.strangers
  BY <1>4, <1>5, LoginSetObject
<1>7. /\ ObjectShape(w) /\ w.seqStmt = s.of[p].seqStmt \cup {name} /\ w.exists = s.of[p].exists
      /\ w.pid = s.of[p].pid /\ w.envhp = s.of[p].envhp /\ w.env = s.of[p].env
      /\ w.open = s.of[p].open
  BY <1>3 DEF ObjectShape
<1>8. /\ ObjectShape(o) /\ o.env = w.env /\ o.exists = w.exists /\ o.pid = w.pid
      /\ o.envhp = w.envhp /\ o.seqStmt = w.seqStmt /\ o.open = w.open \cup {name}
  BY <1>2, <1>7 DEF ObjectShape
<1>9. o.seqStmt = o.open /\ name \in o.open
  BY <1>7, <1>8
<1>10. /\ LoginShape(t) /\ t.threw = s.threw /\ t.misuse = s.misuse
       /\ ObjectShape(t.of[p]) /\ t.of[p].seqStmt = t.of[p].open
       /\ name \in t.of[p].open
       /\ t.of[p].exists = s.of[p].exists /\ t.of[p].pid = s.of[p].pid
       /\ t.of[p].env = s.of[p].env /\ t.of[p].envhp = s.of[p].envhp
       /\ \A q \in Login!Processes : q # p => t.of[q] = s.of[q]
       /\ t.session = s.session /\ t.strangers = s.strangers
  BY <1>4, <1>6, <1>7, <1>8, <1>9
<1>. QED
  BY <1>10 DEF t

LEMMA LoginLastInsertId ==
  ASSUME LoginGood(sys), NEW p \in Login!Processes, NEW name, NEW k, Login!LastInsertId(p, name, k)
  PROVE  LoginGood(sys')
<1> DEFINE s == Login!Begin(sys, k)
           c == Login!Call(s, Login!Env(s, p))
           r == Remembered(c, p, name)
           t == IF name \in s.of[p].seqStmt THEN s ELSE IF c.threw THEN c ELSE r
           u == IF t.threw THEN t ELSE Login!Call(t, name \in t.of[p].open)
           \* between the calls
           Between(x) ==
             /\ LoginShape(x) /\ x.threw \in BOOLEAN /\ x.misuse = sys.misuse
             /\ ObjectShape(x.of[p]) /\ x.of[p].exists = TRUE /\ x.of[p].pid = p
             /\ x.of[p].env = TRUE /\ x.of[p].envhp = TRUE /\ x.of[p].seqStmt = x.of[p].open
             /\ \A q \in Login!Processes : q # p => x.of[q] = sys.of[q]
             /\ x.session = sys.session /\ x.strangers = sys.strangers
<1>1. Login!Ends(u) /\ sys.of[p].exists /\ sys.of[p].pid = p
  BY DEF Login!LastInsertId, Login!Then, Remembered
<1>2. LoginShape(s) /\ s.threw = FALSE /\ s.of = sys.of /\ s.misuse = sys.misuse
      /\ s.strangers = sys.strangers /\ s.session = sys.session
  BY LoginBegin DEF LoginGood
<1> HIDE DEF s
<1>3. /\ p = "parent" /\ ObjectShape(s.of[p]) /\ s.of[p].exists /\ s.of[p].pid = p
      /\ s.of[p].env = TRUE /\ s.of[p].envhp = TRUE /\ s.of[p].seqStmt = s.of[p].open
  BY <1>1, <1>2 DEF LoginGood, ObjectGood
<1>4. Between(s)
  <2>1. s.of[p].exists \in BOOLEAN => s.of[p].exists = TRUE
    BY <1>3
  <2>2. s.of[p].exists = TRUE
    BY <1>3
  <2>. QED
    BY <1>2, <1>3, <2>2
<1>5. Between(c)
  <2>1. Login!Env(s, p) = TRUE
    BY <1>3 DEF Login!Env
  <2>2. /\ LoginShape(c) /\ c.threw \in BOOLEAN /\ c.of = s.of /\ c.session = s.session
        /\ c.strangers = s.strangers /\ c.misuse = s.misuse
    BY <1>2, <2>1, LoginCall
  <2> HIDE DEF c
  <2>. QED
    BY <1>4, <2>2
<1> HIDE DEF c
<1>6. Between(r) /\ name \in r.of[p].open
  <2>1. /\ LoginShape(r) /\ r.threw = c.threw /\ r.misuse = c.misuse
        /\ ObjectShape(r.of[p]) /\ r.of[p].seqStmt = r.of[p].open
        /\ name \in r.of[p].open
        /\ r.of[p].exists = c.of[p].exists /\ r.of[p].pid = c.of[p].pid
        /\ r.of[p].env = c.of[p].env /\ r.of[p].envhp = c.of[p].envhp
        /\ \A q \in Login!Processes : q # p => r.of[q] = c.of[q]
        /\ r.session = c.session /\ r.strangers = c.strangers
    <3>1. LoginShape(c) /\ ObjectShape(c.of[p]) /\ c.of[p].seqStmt = c.of[p].open
      BY <1>5
    <3> HIDE DEF Between
    <3>. QED
      BY <3>1, LoginRemember
  <2> HIDE DEF r
  <2>. QED
    BY <1>5, <2>1
<1> HIDE DEF r
<1>7. Between(t) /\ (~ t.threw => name \in t.of[p].open)
  <2>1. name \in s.of[p].seqStmt => name \in s.of[p].open
    BY <1>3
  <2> HIDE DEF Between
  <2>. QED
    BY <1>4, <1>5, <1>6, <2>1
<1> HIDE DEF t
<1>8. Between(u)
  <2>1. CASE t.threw
    BY <1>7, <2>1
  <2>2. CASE ~ t.threw
    <3>1. (name \in t.of[p].open) = TRUE /\ t.threw = FALSE /\ LoginShape(t)
      BY <1>7, <2>2
    <3> DEFINE d == Login!Call(t, name \in t.of[p].open)
    <3>2. /\ LoginShape(d) /\ d.threw \in BOOLEAN /\ d.of = t.of /\ d.session = t.session
          /\ d.strangers = t.strangers /\ d.misuse = t.misuse
      BY <3>1, LoginCall
    <3>3. u = d
      BY <2>2
    <3> HIDE DEF d, u
    <3>. QED
      BY <1>7, <3>2, <3>3
  <2>. QED
    BY <2>1, <2>2
<1> HIDE DEF u
<1>9. /\ LoginShape(sys') /\ sys'.threw = FALSE
      /\ sys'.of = u.of /\ sys'.session = u.session /\ sys'.strangers = u.strangers
      /\ sys'.misuse = u.misuse
  BY <1>1, <1>8, LoginEnds
<1>10. ObjectGood(sys'.of[p], p)
  BY <1>3, <1>8, <1>9 DEF ObjectGood
<1>11. \A q \in Login!Processes : q # p => sys'.of[q] = sys.of[q]
  BY <1>8, <1>9
<1>12. \A q \in Login!Processes : ObjectGood(sys'.of[q], q)
  BY <1>10, <1>11 DEF LoginGood
<1>13. sys'.of["parent"].exists /\ ~ sys'.strangers => sys'.session
  <2>1. sys'.session = sys.session /\ sys'.strangers = sys.strangers
    BY <1>8, <1>9
  <2>2. sys.of["parent"].exists
    BY <1>1, <1>3
  <2>. QED
    BY <2>1, <2>2 DEF LoginGood
<1>14. sys'.misuse \subseteq {"freed after the environment"}
  BY <1>8, <1>9 DEF LoginGood
<1>. QED
  BY <1>9, <1>12, <1>13, <1>14 DEF LoginGood

LEMMA LoginFork == ASSUME LoginGood(sys), Login!Fork PROVE LoginGood(sys')
<1> DEFINE u == SetObject(sys, "child", sys.of["parent"])
<1>1. sys' = [u EXCEPT !.forked = TRUE] /\ sys.of["parent"].exists
  BY DEF Login!Fork, SetObject
<1>2. "child" \in Login!Processes /\ "parent" \in Login!Processes
  BY DEF Login!Processes
<1>3. /\ LoginShape(u) /\ u.threw = sys.threw /\ u.misuse = sys.misuse
      /\ u.of["child"] = sys.of["parent"] /\ u.of["parent"] = sys.of["parent"]
      /\ u.session = sys.session /\ u.strangers = sys.strangers
  <2>1. LoginShape(sys) /\ "child" # "parent"
    BY DEF LoginGood
  <2> HIDE DEF u
  <2>2. u = SetObject(sys, "child", sys.of["parent"])
    BY DEF u
  <2>. QED
    BY <1>2, <2>1, <2>2, LoginSetObject
<1> HIDE DEF u
<1>4. /\ LoginShape(sys') /\ sys'.threw = u.threw /\ sys'.misuse = u.misuse /\ sys'.of = u.of
      /\ sys'.session = u.session /\ sys'.strangers = u.strangers
  BY <1>1, <1>3 DEF LoginShape
<1>5. ObjectGood(sys.of["parent"], "parent") /\ ObjectGood(sys.of["parent"], "child")
  BY <1>1, <1>2 DEF LoginGood, ObjectGood
<1>6. \A q \in Login!Processes : ObjectGood(sys'.of[q], q)
  BY <1>3, <1>4, <1>5 DEF Login!Processes
<1>. QED
  BY <1>3, <1>4, <1>6 DEF LoginGood

LEMMA LoginNext == LoginGood(sys) /\ Login!Next => LoginGood(sys')
BY LoginConstruct, LoginDestroy, LoginPing, LoginLastInsertId, LoginFork DEF Login!Next

LEMMA LoginLegal == LoginGood(sys) => Login!HandlesLegal
<1> SUFFICES ASSUME LoginGood(sys)
             PROVE  Login!HandlesLegal
  OBVIOUS
<1>1. ASSUME NEW p \in Login!Processes
      PROVE  LET object == sys.of[p]
             IN /\ object.open \subseteq object.seqStmt
                /\ object.env = object.envhp
                /\ object.exists /\ object.envhp => object.seqStmt = object.open
  <2>1. ObjectGood(sys.of[p], p)
    BY DEF LoginGood
  <2>2. CASE sys.of[p].exists
    BY <2>1, <2>2 DEF ObjectGood
  <2>3. CASE ~ sys.of[p].exists
    <3>1. sys.of[p] = Login!NoObject
      BY <2>1, <2>3 DEF ObjectGood
    <3>2. sys.of[p].open = {} /\ sys.of[p].env = sys.of[p].envhp
      BY <3>1 DEF Login!NoObject
    <3>. QED
      BY <2>3, <3>2
  <2>. QED
    BY <2>2, <2>3
<1>. QED
  BY <1>1 DEF LoginGood, Login!HandlesLegal


-----------------------------------------------------------------------------
\* Timestamps of oracle

HolderShape(x) == x = [live |-> x.live, datetime |-> x.datetime, release |-> x.release, said |-> x.said]

\* A descriptor is one of a row or belongs to the object that releases it.
HolderGood(x, open, leaked) ==
    /\ HolderShape(x)
    /\ x.release \in BOOLEAN
    /\ ~ x.live => x = Stamp!Absent
    /\ x.datetime # 0 =>
         \/ x.release /\ x.datetime \in open /\ x.datetime \notin Foreign /\ x.datetime \notin leaked
         \/ ~ x.release /\ x.datetime \in Foreign
Owner(x) == x.release /\ x.datetime # 0
Possession(obj, open, leaked) ==
    /\ On(obj, Objects)
    /\ Foreign \subseteq open /\ open \subseteq Descriptors /\ leaked \subseteq open
    /\ \A o \in Objects : HolderGood(obj[o], open, leaked)
    /\ \A o, p \in Objects :
         Owner(obj[o]) /\ Owner(obj[p]) /\ obj[o].datetime = obj[p].datetime => o = p
    /\ \A d \in open : d \notin Foreign /\ d \notin leaked =>
         \E o \in Objects : Owner(obj[o]) /\ obj[o].datetime = d

\* What the objects show, but for one of them perhaps.
Shown(x, data) == x.said # 0 => x.datetime \in Descriptors /\ data[x.datetime] = x.said
Shows(obj, data, X) ==
    /\ On(data, Descriptors)
    /\ \A o \in Objects : o \notin X => Shown(obj[o], data)
    /\ \A d \in Foreign : data[d] = Stamp!ForeignMoment

LEMMA HolderWider ==
  ASSUME NEW x, NEW open, NEW leaked, HolderGood(x, open, leaked),
         NEW more, open \subseteq more, NEW lost,
         Owner(x) => x.datetime \notin lost
  PROVE  HolderGood(x, more, lost)
BY DEF HolderGood, Owner

\* An object that owns nothing is changed, and owns nothing afterwards.
LEMMA PossessionOther ==
  ASSUME NEW obj, NEW open, NEW leaked, Possession(obj, open, leaked), NEW o \in Objects,
         ~ Owner(obj[o]), NEW x, HolderGood(x, open, leaked), ~ Owner(x)
  PROVE  Possession(Put(obj, o, x), open, leaked)
<1> DEFINE g == Put(obj, o, x)
<1>1. On(g, Objects) /\ g[o] = x /\ \A p \in Objects : p # o => g[p] = obj[p]
  BY PutAt DEF Possession
<1> HIDE DEF g
<1>2. \A p \in Objects : HolderGood(g[p], open, leaked)
  BY <1>1 DEF Possession
<1>3. \A p, q \in Objects :
         Owner(g[p]) /\ Owner(g[q]) /\ g[p].datetime = g[q].datetime => p = q
  BY <1>1 DEF Possession
<1>4. \A d \in open : d \notin Foreign /\ d \notin leaked =>
         \E p \in Objects : Owner(g[p]) /\ g[p].datetime = d
  BY <1>1 DEF Possession
<1>5. Possession(g, open, leaked)
  BY <1>1, <1>2, <1>3, <1>4 DEF Possession
<1>. QED
  BY <1>5 DEF g

\* An object gets a descriptor of its own.
LEMMA PossessionAlloc ==
  ASSUME NEW obj, NEW open, NEW leaked, Possession(obj, open, leaked), NEW o \in Objects,
         ~ Owner(obj[o]), NEW d \in Descriptors, d \notin open,
         NEW x, HolderShape(x), x.live, x.release = TRUE, x.datetime = d
  PROVE  Possession(Put(obj, o, x), open \cup {d}, leaked)
<1> DEFINE g == Put(obj, o, x)
           more == open \cup {d}
<1>1. On(g, Objects) /\ g[o] = x /\ \A p \in Objects : p # o => g[p] = obj[p]
  BY PutAt DEF Possession
<1>2. d # 0 /\ d \in more /\ open \subseteq more /\ more \subseteq Descriptors
      /\ d \notin Foreign /\ d \notin leaked /\ Foreign \subseteq more /\ leaked \subseteq more
      /\ \A e \in more : e = d \/ e \in open
  BY StampAssumption DEF Possession
<1> HIDE DEF g, more
<1>3. HolderGood(x, more, leaked) /\ Owner(x)
  BY <1>2 DEF HolderGood, Owner
<1>4. \A p \in Objects : p # o => HolderGood(obj[p], more, leaked)
  <2> SUFFICES ASSUME NEW p \in Objects
               PROVE  HolderGood(obj[p], more, leaked)
    OBVIOUS
  <2>1. HolderGood(obj[p], open, leaked)
    BY DEF Possession
  <2>. QED
    BY <1>2, <2>1 DEF HolderGood
<1>5. \A p \in Objects : Owner(obj[p]) => obj[p].datetime # d
  BY <1>2 DEF Possession, HolderGood, Owner
<1>6. \A p, q \in Objects :
         Owner(g[p]) /\ Owner(g[q]) /\ g[p].datetime = g[q].datetime => p = q
  BY <1>1, <1>5 DEF Possession
<1>7. \A e \in more : e \notin Foreign /\ e \notin leaked =>
         \E p \in Objects : Owner(g[p]) /\ g[p].datetime = e
  BY <1>1, <1>2, <1>3 DEF Possession
<1>8. \A p \in Objects : HolderGood(g[p], more, leaked)
  BY <1>1, <1>3, <1>4
<1>9. Possession(g, more, leaked)
  BY <1>1, <1>2, <1>6, <1>7, <1>8 DEF Possession
<1>. QED
  BY <1>9 DEF g, more

\* An object loses its descriptor: it was released, or nobody has it any more.
LEMMA PossessionLost ==
  ASSUME NEW obj, NEW open, NEW leaked, Possession(obj, open, leaked), NEW o \in Objects,
         Owner(obj[o]), NEW x, HolderShape(x), x.release \in BOOLEAN, ~ x.live => x = Stamp!Absent,
         x.datetime = 0
  PROVE  /\ Possession(Put(obj, o, x), open \ {obj[o].datetime}, leaked)
         /\ Possession(Put(obj, o, x), open, leaked \cup {obj[o].datetime})
<1> DEFINE g == Put(obj, o, x)
           d == obj[o].datetime
           less == open \ {d}
           lost == leaked \cup {d}
<1>1. On(g, Objects) /\ g[o] = x /\ \A p \in Objects : p # o => g[p] = obj[p]
  BY PutAt DEF Possession
<1>2. d \in open /\ d \notin Foreign /\ d \notin leaked
  BY DEF Possession, HolderGood, Owner
<1>3. less \subseteq open /\ d \notin less /\ (\A e \in open : e # d => e \in less)
      /\ Foreign \subseteq less /\ less \subseteq Descriptors /\ leaked \subseteq less
  BY <1>2 DEF Possession
<1>4. lost \subseteq open /\ d \in lost /\ leaked \subseteq lost /\ (\A e \in lost : e = d \/ e \in leaked)
  BY <1>2 DEF Possession
<1>5. \A p \in Objects : p # o /\ Owner(obj[p]) => obj[p].datetime # d
  BY DEF Possession
<1>5a. obj[o].datetime = d
  OBVIOUS
<1> HIDE DEF g, less, lost, d
<1>6. \A p \in Objects : HolderGood(g[p], less, leaked) /\ HolderGood(g[p], open, lost)
  <2>1. HolderGood(x, less, leaked) /\ HolderGood(x, open, lost)
    BY DEF HolderGood
  <2>2. ASSUME NEW p \in Objects, p # o
        PROVE  HolderGood(obj[p], less, leaked) /\ HolderGood(obj[p], open, lost)
    <3>1. HolderGood(obj[p], open, leaked)
      BY DEF Possession
    <3>2. Owner(obj[p]) => obj[p].datetime # d
      BY <1>5, <2>2
    <3>. QED
      BY <1>3, <1>4, <3>1, <3>2 DEF HolderGood, Owner
  <2>. QED
    BY <1>1, <2>1, <2>2
<1>7. ~ Owner(x)
  BY DEF Owner
<1>8. \A p, q \in Objects :
         Owner(g[p]) /\ Owner(g[q]) /\ g[p].datetime = g[q].datetime => p = q
  BY <1>1, <1>7 DEF Possession
<1>9. \A e \in open : e # d /\ e \notin Foreign /\ e \notin leaked =>
         \E p \in Objects : Owner(g[p]) /\ g[p].datetime = e
  BY <1>1, <1>5a DEF Possession
<1>10. Possession(g, less, leaked)
  BY <1>1, <1>3, <1>6, <1>8, <1>9 DEF Possession
<1>11. Foreign \subseteq open /\ open \subseteq Descriptors
  BY DEF Possession
<1>12. Possession(g, open, lost)
  BY <1>1, <1>4, <1>6, <1>8, <1>9, <1>11 DEF Possession
<1>. QED
  BY <1>10, <1>12 DEF g, less, lost, d

\* Only what an object shows changes.
LEMMA PossessionSame ==
  ASSUME NEW obj, NEW open, NEW leaked, Possession(obj, open, leaked), NEW o \in Objects,
         NEW x, HolderShape(x), x.live, x.release = obj[o].release, x.datetime = obj[o].datetime
  PROVE  Possession(Put(obj, o, x), open, leaked)
<1> DEFINE g == Put(obj, o, x)
<1>1. On(g, Objects) /\ g[o] = x /\ \A p \in Objects : p # o => g[p] = obj[p]
  BY PutAt DEF Possession
<1> HIDE DEF g
<1>2. Owner(x) <=> Owner(obj[o])
  BY DEF Owner
<1>3. HolderGood(x, open, leaked)
  <2>1. HolderGood(obj[o], open, leaked)
    BY DEF Possession
  <2>. QED
    BY <2>1 DEF HolderGood
<1>4. \A p \in Objects : HolderGood(g[p], open, leaked)
  BY <1>1, <1>3 DEF Possession
<1>5. \A p \in Objects : (Owner(g[p]) <=> Owner(obj[p])) /\ g[p].datetime = obj[p].datetime
  BY <1>1, <1>2
<1>6. \A p, q \in Objects :
         Owner(g[p]) /\ Owner(g[q]) /\ g[p].datetime = g[q].datetime => p = q
  BY <1>5 DEF Possession
<1>7. \A d \in open : d \notin Foreign /\ d \notin leaked =>
         \E p \in Objects : Owner(g[p]) /\ g[p].datetime = d
  BY <1>5 DEF Possession
<1>8. Possession(g, open, leaked)
  BY <1>1, <1>4, <1>6, <1>7 DEF Possession
<1>. QED
  BY <1>8 DEF g

\* A descriptor that only this object may have is written or released.
LEMMA ShowsWritten ==
  ASSUME NEW obj, NEW data, NEW o \in Objects, On(obj, Objects), Shows(obj, data, {o}),
         NEW d \in Descriptors, d \notin Foreign, \A p \in Objects : p # o => obj[p].datetime # d,
         NEW m, NEW x, x.said # 0 => x.datetime = d /\ x.said = m
  PROVE  Shows(Put(obj, o, x), Put(data, d, m), {})
<1> DEFINE g == Put(obj, o, x)
           h == Put(data, d, m)
<1>1. On(g, Objects) /\ g[o] = x /\ \A p \in Objects : p # o => g[p] = obj[p]
  BY PutAt
<1>2. On(h, Descriptors) /\ h[d] = m /\ \A e \in Descriptors : e # d => h[e] = data[e]
  BY PutAt DEF Shows
<1> HIDE DEF g, h
<1>3. \A e \in Foreign : h[e] = Stamp!ForeignMoment
  BY <1>2, StampAssumption DEF Shows
<1>4. Shown(x, h)
  BY <1>2 DEF Shown
<1>5. ASSUME NEW p \in Objects, p # o
      PROVE  Shown(obj[p], h)
  <2>1. Shown(obj[p], data)
    BY <1>5 DEF Shows
  <2>. QED
    BY <1>2, <1>5, <2>1 DEF Shown
<1>6. \A p \in Objects : Shown(g[p], h)
  BY <1>1, <1>4, <1>5
<1>7. Shows(g, h, {})
  BY <1>2, <1>3, <1>6 DEF Shows
<1>. QED
  BY <1>7 DEF g, h

LEMMA ShowsOther ==
  ASSUME NEW obj, NEW data, NEW o \in Objects, On(obj, Objects), Shows(obj, data, {o}),
         NEW x, Shown(x, data)
  PROVE  Shows(Put(obj, o, x), data, {})
<1> DEFINE g == Put(obj, o, x)
<1>1. g[o] = x /\ \A p \in Objects : p # o => g[p] = obj[p]
  BY PutAt
<1> HIDE DEF g
<1>2. Shows(g, data, {})
  BY <1>1 DEF Shows
<1>. QED
  BY <1>2 DEF g

LEMMA ShowsLess ==
  ASSUME NEW obj, NEW data, NEW o, Shows(obj, data, {})
  PROVE  Shows(obj, data, {o})
BY DEF Shows


StampShape(s) ==
    s = [obj |-> s.obj, open |-> s.open, leaked |-> s.leaked, data |-> s.data,
         misuse |-> s.misuse, failing |-> s.failing, calls |-> s.calls, threw |-> s.threw]

\* Between the calls of a function the object that it is about may show
\* something else than it should.
StampKept(s, X) ==
    /\ StampShape(s)
    /\ s.misuse = {}
    /\ s.threw \in BOOLEAN
    /\ Possession(s.obj, s.open, s.leaked)
    /\ Shows(s.obj, s.data, X)
StampGood(s) == StampKept(s, {}) /\ s.threw = FALSE
Same(s, t) ==
    /\ t.obj = s.obj /\ t.open = s.open /\ t.leaked = s.leaked /\ t.data = s.data
    /\ t.misuse = s.misuse

Changed(s, u, obj, open, leaked, data) ==
    /\ StampShape(u) /\ u.misuse = s.misuse
    /\ u.obj = obj /\ u.open = open /\ u.leaked = leaked /\ u.data = data

LEMMA StampSame ==
  ASSUME NEW s, NEW t, NEW X, StampKept(s, X), StampShape(t), Same(s, t), t.threw \in BOOLEAN
  PROVE  StampKept(t, X)
BY DEF StampKept, Same

LEMMA StampCall ==
  ASSUME NEW s, StampShape(s), s.threw = FALSE, NEW isOpen, isOpen = TRUE
  PROVE  LET t == Stamp!Call(s, isOpen)
         IN StampShape(t) /\ t.threw \in BOOLEAN /\ Same(s, t)
<1> SUFFICES ASSUME NEW t, t = Stamp!Call(s, isOpen)
             PROVE  StampShape(t) /\ t.threw \in BOOLEAN /\ Same(s, t)
  OBVIOUS
<1> DEFINE u == [s EXCEPT !.calls = s.calls + 1, !.misuse = s.misuse]
<1>1. u = [s EXCEPT !.calls = s.calls + 1, !.misuse = s.misuse]
  OBVIOUS
<1>2. t = u \/ t = [u EXCEPT !.threw = TRUE]
  <2>1. u = [s EXCEPT !.calls = @ + 1, !.misuse = IF isOpen THEN @ ELSE @ \cup {"closed handle"}]
    BY DEF StampShape
  <2> HIDE DEF u
  <2>. QED
    BY <2>1 DEF Stamp!Call, Stamp!Throw
<1> HIDE DEF u
<1>3. StampShape(u) /\ u.threw = FALSE /\ Same(s, u)
  BY <1>1 DEF StampShape, Same
<1>. QED
  BY <1>2, <1>3 DEF StampShape, Same

LEMMA StampBegin ==
  ASSUME NEW s, StampShape(s), NEW k
  PROVE  LET t == Stamp!Begin(s, k)
         IN StampShape(t) /\ t.threw = FALSE /\ Same(s, t)
<1> SUFFICES ASSUME NEW t, t = Stamp!Begin(s, k)
             PROVE  StampShape(t) /\ t.threw = FALSE /\ Same(s, t)
  OBVIOUS
<1>1. t = [s EXCEPT !.failing = k, !.calls = 0, !.threw = FALSE]
  BY DEF Stamp!Begin
<1>. QED
  BY <1>1 DEF StampShape, Same

LEMMA StampEnds ==
  ASSUME NEW t, StampKept(t, {}), Stamp!Ends(t)
  PROVE  StampGood(sys')
<1>1. sys' = [t EXCEPT !.failing = 0, !.calls = 0, !.threw = FALSE]
  BY DEF Stamp!Ends, Stamp!Finished
<1>2. StampShape(sys') /\ sys'.threw = FALSE /\ Same(t, sys')
  BY <1>1 DEF StampShape, Same, StampKept
<1>. QED
  BY <1>2, StampSame DEF StampGood

\* How the functions change an object and the data.
PutObject(s, o, x) == [s EXCEPT !.obj = Put(@, o, x)]
LEMMA StampPut ==
  ASSUME NEW s, StampShape(s), NEW o, NEW x
  PROVE  LET t == PutObject(s, o, x)
         IN t.threw = s.threw /\ Changed(s, t, Put(s.obj, o, x), s.open, s.leaked, s.data)
<1> SUFFICES ASSUME NEW t, t = PutObject(s, o, x)
             PROVE  t.threw = s.threw /\ Changed(s, t, Put(s.obj, o, x), s.open, s.leaked, s.data)
  OBVIOUS
<1>1. t = [s EXCEPT !.obj = Put(s.obj, o, x)]
  BY DEF PutObject
<1>. QED
  BY <1>1 DEF StampShape, Changed

\* Holders with one component changed.
Pointing(x, d) == [x EXCEPT !.datetime = d]
Saying(x, m) == [x EXCEPT !.said = m]
Releasing(x) == [x EXCEPT !.release = TRUE]
LEMMA HolderPointing ==
  ASSUME NEW x, HolderShape(x), NEW d
  PROVE  LET y == Pointing(x, d)
         IN /\ HolderShape(y) /\ y.datetime = d
            /\ y.live = x.live /\ y.release = x.release /\ y.said = x.said
<1> SUFFICES ASSUME NEW y, y = Pointing(x, d)
             PROVE  /\ HolderShape(y) /\ y.datetime = d
                    /\ y.live = x.live /\ y.release = x.release /\ y.said = x.said
  OBVIOUS
<1>1. y = [x EXCEPT !.datetime = d]
  BY DEF Pointing
<1>. QED
  BY <1>1 DEF HolderShape

LEMMA HolderSaying ==
  ASSUME NEW x, HolderShape(x), NEW d
  PROVE  LET y == Saying(x, d)
         IN /\ HolderShape(y) /\ y.said = d
            /\ y.live = x.live /\ y.release = x.release /\ y.datetime = x.datetime
<1> SUFFICES ASSUME NEW y, y = Saying(x, d)
             PROVE  /\ HolderShape(y) /\ y.said = d
                    /\ y.live = x.live /\ y.release = x.release /\ y.datetime = x.datetime
  OBVIOUS
<1>1. y = [x EXCEPT !.said = d]
  BY DEF Saying
<1>. QED
  BY <1>1 DEF HolderShape

LEMMA HolderReleasing ==
  ASSUME NEW x, HolderShape(x)
  PROVE  LET y == Releasing(x)
         IN /\ HolderShape(y) /\ y.release = TRUE
            /\ y.live = x.live /\ y.said = x.said /\ y.datetime = x.datetime
<1> SUFFICES ASSUME NEW y, y = Releasing(x)
             PROVE  /\ HolderShape(y) /\ y.release = TRUE
                    /\ y.live = x.live /\ y.said = x.said /\ y.datetime = x.datetime
  OBVIOUS
<1>1. y = [x EXCEPT !.release = TRUE]
  BY DEF Releasing
<1>. QED
  BY <1>1 DEF HolderShape

LEMMA AbsentHolder ==
  /\ HolderShape(Stamp!Absent) /\ Stamp!Absent.live = FALSE /\ Stamp!Absent.datetime = 0
  /\ Stamp!Absent.release = FALSE /\ Stamp!Absent.said = 0
<1> SUFFICES ASSUME NEW x, x = Stamp!Absent
             PROVE  /\ HolderShape(x) /\ x.live = FALSE /\ x.datetime = 0
                    /\ x.release = FALSE /\ x.said = 0
  OBVIOUS
<1>1. x = [live |-> FALSE, datetime |-> 0, release |-> FALSE, said |-> 0]
  BY DEF Stamp!Absent, Stamp!None, Stamp!Unset
<1>. QED
  BY <1>1 DEF HolderShape

LEMMA StampInit == Stamp!Init => StampGood(sys)
<1> SUFFICES ASSUME Stamp!Init
             PROVE  StampGood(sys)
  OBVIOUS
<1>1. /\ sys.obj = [o \in Objects |-> Stamp!Absent] /\ sys.open = Foreign /\ sys.leaked = {}
      /\ sys.data = [d \in Descriptors |-> IF d \in Foreign THEN Stamp!ForeignMoment ELSE Stamp!Unset]
      /\ sys.misuse = {} /\ sys.threw = FALSE
  BY DEF Stamp!Init
<1>2. StampShape(sys)
  BY DEF Stamp!Init, StampShape
<1>3. On(sys.obj, Objects) /\ On(sys.data, Descriptors)
      /\ (\A o \in Objects : sys.obj[o] = Stamp!Absent)
      /\ (\A d \in Foreign : sys.data[d] = Stamp!ForeignMoment)
  BY <1>1, StampAssumption DEF On
<1>4. HolderGood(Stamp!Absent, Foreign, {}) /\ ~ Owner(Stamp!Absent)
  BY AbsentHolder DEF HolderGood, Owner
<1>5. Possession(sys.obj, sys.open, sys.leaked)
  BY <1>1, <1>3, <1>4, StampAssumption DEF Possession
<1>6. Shows(sys.obj, sys.data, {})
  BY <1>3, AbsentHolder DEF Shows, Shown
<1>. QED
  BY <1>1, <1>2, <1>5, <1>6 DEF StampGood, StampKept


LEMMA PutPut ==
  ASSUME NEW f, NEW S, On(f, S), NEW x \in S, NEW v, NEW w
  PROVE  Put(Put(f, x, v), x, w) = Put(f, x, w)
<1>1. f = [y \in S |-> f[y]]
  BY DEF On
<1>. QED
  BY <1>1 DEF Put

LEMMA OwnerAlone ==
  ASSUME NEW obj, NEW open, NEW leaked, Possession(obj, open, leaked), NEW o \in Objects, Owner(obj[o])
  PROVE  /\ obj[o].datetime \in Descriptors /\ obj[o].datetime \in open
         /\ obj[o].datetime \notin Foreign /\ obj[o].live /\ HolderShape(obj[o])
         /\ \A p \in Objects : p # o => obj[p].datetime # obj[o].datetime
<1>1. HolderGood(obj[o], open, leaked)
  BY DEF Possession
<1>2. obj[o].live
  BY <1>1, AbsentHolder DEF HolderGood, Owner
<1>3. /\ obj[o].datetime \in open /\ obj[o].datetime \notin Foreign /\ HolderShape(obj[o])
  BY <1>1 DEF HolderGood, Owner
<1>4. \A p \in Objects : p # o => obj[p].datetime # obj[o].datetime
  <2> SUFFICES ASSUME NEW p \in Objects, p # o, obj[p].datetime = obj[o].datetime
               PROVE  FALSE
    OBVIOUS
  <2>1. HolderGood(obj[p], open, leaked)
    BY DEF Possession
  <2>2. Owner(obj[p])
    BY <1>3, <2>1 DEF HolderGood, Owner
  <2>. QED
    BY <2>2 DEF Possession
<1>. QED
  BY <1>2, <1>3, <1>4 DEF Possession

LEMMA StampMore == ASSUME NEW s, NEW o, StampKept(s, {}) PROVE StampKept(s, {o})
BY ShowsLess DEF StampKept

\* The object is given a descriptor that nobody has.
Placed(s, o, d, x, u) ==
    /\ ~ Owner(s.obj[o]) /\ d \in Descriptors /\ d \notin s.open
    /\ HolderShape(x) /\ x.live /\ x.release = TRUE /\ x.datetime = d
    /\ u.threw = FALSE
    /\ Changed(s, u, Put(s.obj, o, x), s.open \cup {d}, s.leaked, Put(s.data, d, 0))
LEMMA StampPlaced ==
  ASSUME NEW s, StampKept(s, {}), NEW o \in Objects, NEW d, NEW x, NEW u, Placed(s, o, d, x, u)
  PROVE  /\ StampKept(u, {o}) /\ Owner(u.obj[o])
         /\ \A p \in Objects : p # o => u.obj[p] = s.obj[p]
<1>a. /\ ~ Owner(s.obj[o]) /\ d \in Descriptors /\ d \notin s.open
      /\ HolderShape(x) /\ x.live /\ x.release = TRUE /\ x.datetime = d /\ u.threw = FALSE
      /\ Changed(s, u, Put(s.obj, o, x), s.open \cup {d}, s.leaked, Put(s.data, d, 0))
  BY DEF Placed
<1>0. /\ StampShape(u) /\ u.misuse = s.misuse /\ u.leaked = s.leaked
      /\ u.obj = Put(s.obj, o, x) /\ u.open = s.open \cup {d} /\ u.data = Put(s.data, d, 0)
  BY <1>a DEF Changed
<1>1. Possession(s.obj, s.open, s.leaked)
  BY DEF StampKept
<1>2. Possession(u.obj, u.open, u.leaked)
  <2>1. Possession(Put(s.obj, o, x), s.open \cup {d}, s.leaked)
    BY <1>1, <1>a, PossessionAlloc
  <2>. QED
    BY <1>0, <2>1
<1>3. u.obj[o] = x /\ \A p \in Objects : p # o => u.obj[p] = s.obj[p]
  BY <1>0, <1>1, PutAt DEF Possession
<1>4. d # 0 /\ Owner(x)
  BY <1>a, StampAssumption DEF Owner
<1>5. On(s.data, Descriptors) /\ (\A e \in Foreign : s.data[e] = Stamp!ForeignMoment)
      /\ \A p \in Objects : Shown(s.obj[p], s.data)
  BY DEF StampKept, Shows
<1>6. On(u.data, Descriptors) /\ \A e \in Descriptors : e # d => u.data[e] = s.data[e]
  BY <1>0, <1>5, <1>a, PutAt
<1>7. d \notin Foreign /\ Foreign \subseteq Descriptors
  BY <1>1, <1>a, StampAssumption DEF Possession
<1>8. ASSUME NEW p \in Objects, p # o
      PROVE  Shown(u.obj[p], u.data)
  <2>1. HolderGood(s.obj[p], s.open, s.leaked) /\ Foreign \subseteq s.open
    BY <1>1 DEF Possession
  <2>2. s.obj[p].datetime # d
    BY <1>4, <1>a, <2>1 DEF HolderGood
  <2>3. Shown(s.obj[p], s.data) /\ u.obj[p] = s.obj[p]
    BY <1>3, <1>5, <1>8
  <2>. QED
    BY <1>6, <2>2, <2>3 DEF Shown
<1>9. Shows(u.obj, u.data, {o})
  BY <1>5, <1>6, <1>7, <1>8 DEF Shows
<1>. QED
  BY <1>0, <1>2, <1>3, <1>4, <1>9, <1>a DEF StampKept

\* The object is given data, which it shows.
LEMMA StampSays ==
  ASSUME NEW s, NEW o \in Objects, StampKept(s, {o}), Owner(s.obj[o]), NEW m,
         NEW u, u.threw \in BOOLEAN,
         Changed(s, u, Put(s.obj, o, Saying(s.obj[o], m)), s.open, s.leaked,
                 Put(s.data, s.obj[o].datetime, m))
  PROVE  StampKept(u, {}) /\ Owner(u.obj[o])
<1>0. /\ StampShape(u) /\ u.misuse = s.misuse /\ u.leaked = s.leaked /\ u.open = s.open
      /\ u.obj = Put(s.obj, o, Saying(s.obj[o], m)) /\ u.data = Put(s.data, s.obj[o].datetime, m)
  BY DEF Changed
<1> DEFINE x == Saying(s.obj[o], m)
           d == s.obj[o].datetime
<1>1. Possession(s.obj, s.open, s.leaked) /\ Shows(s.obj, s.data, {o}) /\ On(s.obj, Objects)
  BY DEF StampKept, Possession
<1>2. /\ d \in Descriptors /\ d \notin Foreign /\ s.obj[o].live /\ HolderShape(s.obj[o])
      /\ \A p \in Objects : p # o => s.obj[p].datetime # d
  <2>1. /\ s.obj[o].datetime \in Descriptors /\ s.obj[o].datetime \notin Foreign
        /\ s.obj[o].live /\ HolderShape(s.obj[o])
    BY <1>1, OwnerAlone
  <2>2. \A p \in Objects : p # o => s.obj[p].datetime # s.obj[o].datetime
    BY <1>1, OwnerAlone
  <2>. QED
    BY <2>1, <2>2
<1>3. /\ HolderShape(x) /\ x.said = m
      /\ x.live = s.obj[o].live /\ x.release = s.obj[o].release /\ x.datetime = d
  <2>1. HolderShape(s.obj[o])
    BY <1>2
  <2>. QED
    BY <2>1, HolderSaying
<1>4. u.obj = Put(s.obj, o, x) /\ u.data = Put(s.data, d, m)
  BY <1>0
<1>4a. s.obj[o].datetime = d
  OBVIOUS
<1> HIDE DEF x, d
<1>5. x.live
  BY <1>2, <1>3
<1>6. Possession(Put(s.obj, o, x), s.open, s.leaked)
  BY <1>1, <1>3, <1>4a, <1>5, PossessionSame
<1>7. Shows(Put(s.obj, o, x), Put(s.data, d, m), {})
  BY <1>1, <1>2, <1>3, ShowsWritten
<1>8. u.obj[o] = x
  BY <1>1, <1>4, PutAt
<1>9. Owner(x)
  BY <1>3, <1>4a DEF Owner
<1>. QED
  BY <1>0, <1>4, <1>6, <1>7, <1>8, <1>9 DEF StampKept

\* The object is changed and owns nothing, before and after.
Harmless(x, data) ==
    \/ x.datetime = 0 /\ x.said = 0
    \/ x.datetime \in Foreign /\ x.release = FALSE /\ x.said = data[x.datetime]
Other(s, o, x, u) ==
    /\ ~ Owner(s.obj[o]) /\ HolderShape(x) /\ x.release \in BOOLEAN /\ (~ x.live => x = Stamp!Absent)
    /\ Harmless(x, s.data)
    /\ u.threw \in BOOLEAN /\ Changed(s, u, Put(s.obj, o, x), s.open, s.leaked, s.data)
LEMMA StampOther ==
  ASSUME NEW s, NEW o \in Objects, StampKept(s, {o}), NEW x, NEW u, Other(s, o, x, u)
  PROVE  /\ StampKept(u, {}) /\ u.obj[o] = x
         /\ \A p \in Objects : p # o => u.obj[p] = s.obj[p]
<1>a. /\ ~ Owner(s.obj[o]) /\ HolderShape(x) /\ x.release \in BOOLEAN /\ (~ x.live => x = Stamp!Absent)
      /\ Harmless(x, s.data)
      /\ u.threw \in BOOLEAN /\ Changed(s, u, Put(s.obj, o, x), s.open, s.leaked, s.data)
  BY DEF Other
<1>0. /\ StampShape(u) /\ u.misuse = s.misuse /\ u.leaked = s.leaked
      /\ u.open = s.open /\ u.obj = Put(s.obj, o, x) /\ u.data = s.data
  BY <1>a DEF Changed
<1>1. Possession(s.obj, s.open, s.leaked) /\ Shows(s.obj, s.data, {o}) /\ On(s.obj, Objects)
  BY DEF StampKept, Possession
<1>2. HolderGood(x, s.open, s.leaked) /\ ~ Owner(x)
  BY <1>a DEF HolderGood, Owner, Harmless
<1>3. Possession(Put(s.obj, o, x), s.open, s.leaked)
  BY <1>1, <1>2, <1>a, PossessionOther
<1>4. Shown(x, s.data)
  BY <1>a, StampAssumption DEF Shown, Harmless
<1>5. Shows(Put(s.obj, o, x), s.data, {})
  BY <1>1, <1>4, ShowsOther
<1>6. u.obj[o] = x /\ \A p \in Objects : p # o => u.obj[p] = s.obj[p]
  BY <1>0, <1>1, PutAt
<1>. QED
  BY <1>0, <1>3, <1>5, <1>6, <1>a DEF StampKept

\* The object loses its descriptor, which is released or leaked.
Lost(s, o, x, u) ==
    /\ Owner(s.obj[o]) /\ HolderShape(x) /\ x.release \in BOOLEAN /\ (~ x.live => x = Stamp!Absent)
    /\ x.datetime = 0 /\ x.said = 0 /\ u.threw \in BOOLEAN
    /\ \/ Changed(s, u, Put(s.obj, o, x), s.open \ {s.obj[o].datetime}, s.leaked,
                  Put(s.data, s.obj[o].datetime, 0))
       \/ Changed(s, u, Put(s.obj, o, x), s.open, s.leaked \cup {s.obj[o].datetime}, s.data)
LEMMA StampLost ==
  ASSUME NEW s, NEW o \in Objects, StampKept(s, {o}), NEW x, NEW u, Lost(s, o, x, u)
  PROVE  StampKept(u, {})
<1>a. /\ Owner(s.obj[o]) /\ HolderShape(x) /\ x.release \in BOOLEAN /\ (~ x.live => x = Stamp!Absent)
      /\ x.datetime = 0 /\ x.said = 0 /\ u.threw \in BOOLEAN
  BY DEF Lost
<1>b. \/ Changed(s, u, Put(s.obj, o, x), s.open \ {s.obj[o].datetime}, s.leaked,
                 Put(s.data, s.obj[o].datetime, 0))
      \/ Changed(s, u, Put(s.obj, o, x), s.open, s.leaked \cup {s.obj[o].datetime}, s.data)
  BY DEF Lost
<1> DEFINE d == s.obj[o].datetime
<1>1. Possession(s.obj, s.open, s.leaked) /\ Shows(s.obj, s.data, {o}) /\ On(s.obj, Objects)
  BY DEF StampKept, Possession
<1>2. /\ d \in Descriptors /\ d \notin Foreign
      /\ \A p \in Objects : p # o => s.obj[p].datetime # d
  BY <1>1, <1>a, OwnerAlone
<1>3. /\ Possession(Put(s.obj, o, x), s.open \ {d}, s.leaked)
      /\ Possession(Put(s.obj, o, x), s.open, s.leaked \cup {d})
  BY <1>1, <1>a, PossessionLost
<1> HIDE DEF d
<1>4. Shows(Put(s.obj, o, x), Put(s.data, d, 0), {})
  BY <1>1, <1>2, <1>a, ShowsWritten
<1>5. Shown(x, s.data)
  BY <1>a DEF Shown
<1>6. Shows(Put(s.obj, o, x), s.data, {})
  BY <1>1, <1>5, ShowsOther
<1>. QED
  BY <1>3, <1>4, <1>6, <1>a, <1>b DEF StampKept, Changed, d


\* There is room for one more descriptor.
StampRoom(s) == \E d \in Descriptors : d \notin s.open

LEMMA RoomIsRoom ==
  ASSUME NEW s, StampKept(s, {}), Cardinality(s.open) < Cardinality(Descriptors)
  PROVE  StampRoom(s)
<1> SUFFICES ASSUME ~ StampRoom(s)
             PROVE  FALSE
  OBVIOUS
<1>1. s.open = Descriptors
  BY DEF StampRoom, StampKept, Possession
<1>2. Cardinality(Descriptors) \in Nat
  BY StampAssumption, FS_CardinalityType
<1>. QED
  BY <1>1, <1>2

LEMMA StampAlloc ==
  ASSUME NEW s, StampShape(s), s.threw = FALSE, StampRoom(s), NEW o \in Objects
  PROVE  LET t == Stamp!OciDescriptorAlloc(s, o)
         IN /\ StampShape(t) /\ t.threw \in BOOLEAN
            /\ t.threw => Same(s, t)
            /\ ~ t.threw => \E d \in Descriptors :
                 /\ d \notin s.open
                 /\ Changed(s, t, Put(s.obj, o, Pointing(s.obj[o], d)), s.open \cup {d}, s.leaked,
                            Put(s.data, d, 0))
<1> SUFFICES ASSUME NEW t, t = Stamp!OciDescriptorAlloc(s, o)
             PROVE  /\ StampShape(t) /\ t.threw \in BOOLEAN
                    /\ t.threw => Same(s, t)
                    /\ ~ t.threw => \E d \in Descriptors :
                         /\ d \notin s.open
                         /\ Changed(s, t, Put(s.obj, o, Pointing(s.obj[o], d)), s.open \cup {d},
                                    s.leaked, Put(s.data, d, 0))
  OBVIOUS
<1> DEFINE c == Stamp!Call(s, TRUE)
           d == CHOOSE x \in Descriptors : x \notin s.open
<1>1. StampShape(c) /\ c.threw \in BOOLEAN /\ Same(s, c)
  BY StampCall
<1>2. d \in Descriptors /\ d \notin s.open
  BY DEF StampRoom
<1>3. t = IF c.threw THEN c
          ELSE [c EXCEPT !.obj[o].datetime = d, !.open = @ \cup {d}, !.data[d] = 0]
  BY DEF Stamp!OciDescriptorAlloc, Stamp!Unset
<1> HIDE DEF c, d
<1>4. CASE c.threw
  BY <1>1, <1>3, <1>4
<1>5. CASE ~ c.threw
  <2>1. t = [c EXCEPT !.obj = Put(c.obj, o, Pointing(c.obj[o], d)), !.open = c.open \cup {d},
                      !.data = Put(c.data, d, 0)]
    BY <1>1, <1>3, <1>5 DEF StampShape, Put, Pointing
  <2>2. /\ StampShape(t) /\ t.threw = c.threw /\ t.misuse = c.misuse /\ t.leaked = c.leaked
        /\ t.obj = Put(c.obj, o, Pointing(c.obj[o], d))
        /\ t.open = c.open \cup {d} /\ t.data = Put(c.data, d, 0)
    BY <1>1, <2>1 DEF StampShape
  <2>. QED
    BY <1>1, <1>2, <1>5, <2>2 DEF Same, Changed
<1>. QED
  BY <1>4, <1>5

\* What an object points to and releases is open.
LEMMA StampOpen ==
  ASSUME NEW s, NEW X, StampKept(s, X), NEW o \in Objects, s.obj[o].datetime # 0
  PROVE  s.obj[o].datetime \in s.open
<1>1. HolderGood(s.obj[o], s.open, s.leaked) /\ Foreign \subseteq s.open
  BY DEF StampKept, Possession
<1>. QED
  BY <1>1 DEF HolderGood

LEMMA StampHolder ==
  ASSUME NEW s, NEW X, StampKept(s, X), NEW o \in Objects
  PROVE  /\ HolderShape(s.obj[o]) /\ s.obj[o].release \in BOOLEAN
         /\ ~ s.obj[o].live => s.obj[o] = Stamp!Absent
         /\ Owner(s.obj[o]) => s.obj[o].live
<1>1. HolderGood(s.obj[o], s.open, s.leaked)
  BY DEF StampKept, Possession
<1>. QED
  BY <1>1, AbsentHolder DEF HolderGood, Owner

\* The function writes to a descriptor that the object owns.
LEMMA StampWritten ==
  ASSUME NEW s, NEW o \in Objects, StampKept(s, {o}), s.threw = FALSE, Owner(s.obj[o]), NEW m
  PROVE  LET t == Stamp!Written(s, o, m)
         IN StampKept(t, {}) /\ Owner(t.obj[o])
<1> SUFFICES ASSUME NEW t, t = Stamp!Written(s, o, m)
             PROVE  StampKept(t, {}) /\ Owner(t.obj[o])
  OBVIOUS
<1> DEFINE c == Stamp!Call(s, s.obj[o].datetime \in s.open)
<1>1. s.obj[o].datetime \in s.open
  BY StampOpen DEF Owner
<1>2. StampShape(s) /\ (s.obj[o].datetime \in s.open) = TRUE
  BY <1>1 DEF StampKept
<1>3. StampShape(c) /\ c.threw \in BOOLEAN /\ Same(s, c)
  BY <1>2, StampCall
<1>4. t = IF c.threw THEN [c EXCEPT !.obj[o].said = 0]
          ELSE [c EXCEPT !.data[c.obj[o].datetime] = m, !.obj[o].said = m]
  <2>1. Stamp!At(s, o) = s.obj[o].datetime /\ Stamp!At(c, o) = c.obj[o].datetime
    BY DEF Stamp!At
  <2>2. c.obj[o].datetime = s.obj[o].datetime
    BY <1>3 DEF Same
  <2>. QED
    BY <2>1, <2>2 DEF Stamp!Written, Stamp!Unset
<1> HIDE DEF c
<1>5. StampKept(c, {o})
  BY <1>3, StampSame
<1>6. Owner(c.obj[o]) /\ On(c.obj, Objects) /\ HolderShape(c.obj[o])
  BY <1>3, <1>5, StampHolder DEF Same, StampKept, Possession
<1>7. CASE c.threw
  <2>1. t = [c EXCEPT !.obj = Put(c.obj, o, Saying(c.obj[o], 0))]
    BY <1>3, <1>4, <1>7 DEF StampShape, Put, Saying
  <2>2. t = PutObject(c, o, Saying(c.obj[o], 0))
    BY <2>1 DEF PutObject
  <2>3. /\ StampShape(t) /\ t.threw = c.threw /\ t.misuse = c.misuse
        /\ t.obj = Put(c.obj, o, Saying(c.obj[o], 0)) /\ t.open = c.open /\ t.leaked = c.leaked
        /\ t.data = c.data
    BY <1>3, <2>2, StampPut DEF Changed
  <2> DEFINE x == Saying(c.obj[o], 0)
  <2>4. /\ HolderShape(x) /\ x.said = 0 /\ x.live = c.obj[o].live
        /\ x.release = c.obj[o].release /\ x.datetime = c.obj[o].datetime
    BY <1>6, HolderSaying
  <2> HIDE DEF x
  <2>5. c.obj[o].live
    BY <1>5, <1>6, StampHolder
  <2>6. Possession(c.obj, c.open, c.leaked) /\ Shows(c.obj, c.data, {o})
    BY <1>5 DEF StampKept
  <2>6a. x.live
    BY <2>4, <2>5
  <2>7. Possession(Put(c.obj, o, x), c.open, c.leaked)
    BY <2>4, <2>6a, <2>6, PossessionSame
  <2>8. Shown(x, c.data)
    BY <2>4 DEF Shown
  <2>9. Shows(Put(c.obj, o, x), c.data, {})
    BY <1>6, <2>6, <2>8, ShowsOther
  <2>10. t.obj = Put(c.obj, o, x)
    BY <2>3 DEF x
  <2>11. t.obj[o] = x
    BY <1>6, <2>10, PutAt
  <2>12. Owner(t.obj[o])
    BY <1>6, <2>4, <2>11 DEF Owner
  <2>13. StampKept(t, {})
    BY <1>3, <1>5, <2>3, <2>7, <2>9, <2>10 DEF StampKept
  <2>. QED
    BY <2>12, <2>13
<1>8. CASE ~ c.threw
  <2>1. t = [c EXCEPT !.obj = Put(c.obj, o, Saying(c.obj[o], m)),
                      !.data = Put(c.data, c.obj[o].datetime, m)]
    BY <1>3, <1>4, <1>8 DEF StampShape, Put, Saying
  <2>2. /\ StampShape(t) /\ t.threw = c.threw /\ t.misuse = c.misuse
        /\ t.obj = Put(c.obj, o, Saying(c.obj[o], m)) /\ t.open = c.open /\ t.leaked = c.leaked
        /\ t.data = Put(c.data, c.obj[o].datetime, m)
    BY <1>3, <2>1 DEF StampShape
  <2>3. t.threw \in BOOLEAN
    BY <1>3, <2>2
  <2>4. Changed(c, t, Put(c.obj, o, Saying(c.obj[o], m)), c.open, c.leaked,
                Put(c.data, c.obj[o].datetime, m))
    BY <2>2 DEF Changed
  <2>. QED
    BY <1>5, <1>6, <2>3, <2>4, StampSays
<1>. QED
  BY <1>7, <1>8

\* An object that releases nothing gets a descriptor.
LEMMA StampAllocOwned ==
  ASSUME NEW s, StampKept(s, {}), s.threw = FALSE, StampRoom(s), NEW o \in Objects,
         ~ Owner(s.obj[o]), s.obj[o].live, s.obj[o].release = TRUE
  PROVE  LET t == Stamp!OciDescriptorAlloc(s, o)
         IN /\ StampKept(t, {o}) /\ t.threw \in BOOLEAN
            /\ t.threw => Same(s, t)
            /\ ~ t.threw => /\ Owner(t.obj[o])
                            /\ \A p \in Objects : p # o => t.obj[p] = s.obj[p]
<1> DEFINE t == Stamp!OciDescriptorAlloc(s, o)
<1>0. StampShape(s)
  BY DEF StampKept
<1>1. /\ StampShape(t) /\ t.threw \in BOOLEAN
      /\ t.threw => Same(s, t)
      /\ ~ t.threw => \E d \in Descriptors :
           /\ d \notin s.open
           /\ Changed(s, t, Put(s.obj, o, Pointing(s.obj[o], d)), s.open \cup {d}, s.leaked,
                      Put(s.data, d, 0))
  BY <1>0, StampAlloc
<1> HIDE DEF t
<1>2. CASE t.threw
  <2>1. StampKept(t, {})
    BY <1>1, <1>2, StampSame
  <2>2. StampKept(t, {o})
    BY <2>1, StampMore
  <2>. QED
    BY <1>1, <1>2, <2>2 DEF t
<1>3. CASE ~ t.threw
  <2>1. PICK d \in Descriptors :
          /\ d \notin s.open
          /\ Changed(s, t, Put(s.obj, o, Pointing(s.obj[o], d)), s.open \cup {d}, s.leaked,
                     Put(s.data, d, 0))
    BY <1>1, <1>3
  <2> DEFINE x == Pointing(s.obj[o], d)
  <2>2. HolderShape(s.obj[o])
    BY StampHolder
  <2>3. /\ HolderShape(x) /\ x.datetime = d
        /\ x.live = s.obj[o].live /\ x.release = s.obj[o].release
    BY <2>2, HolderPointing
  <2>4. Changed(s, t, Put(s.obj, o, x), s.open \cup {d}, s.leaked, Put(s.data, d, 0))
    BY <2>1
  <2> HIDE DEF x
  <2>6. t.threw = FALSE /\ d \notin s.open
    BY <1>1, <1>3, <2>1
  <2>7. /\ StampKept(t, {o}) /\ Owner(t.obj[o])
        /\ \A p \in Objects : p # o => t.obj[p] = s.obj[p]
    <3>1. Placed(s, o, d, x, t)
      BY <2>3, <2>4, <2>6 DEF Placed
    <3>. QED
      BY <3>1, StampPlaced
  <2>. QED
    BY <1>3, <2>6, <2>7 DEF t
<1>. QED
  BY <1>2, <1>3


\* A new object.
Fresh(x) == HolderShape(x) /\ x.live = TRUE /\ x.datetime = 0 /\ x.said = 0

LEMMA StampFresh ==
  ASSUME NEW s, StampKept(s, {}), NEW o \in Objects, ~ s.obj[o].live,
         NEW x, Fresh(x), x.release \in BOOLEAN
  PROVE  LET t == PutObject(s, o, x)
         IN /\ StampKept(t, {}) /\ t.threw = s.threw /\ t.open = s.open /\ t.data = s.data
            /\ t.obj[o] = x
            /\ \A p \in Objects : p # o => t.obj[p] = s.obj[p]
<1> DEFINE t == PutObject(s, o, x)
<1>1. StampShape(s)
  BY DEF StampKept
<1>2. t.threw = s.threw /\ Changed(s, t, Put(s.obj, o, x), s.open, s.leaked, s.data)
  BY <1>1, StampPut
<1> HIDE DEF t
<1>3. ~ Owner(s.obj[o]) /\ StampKept(s, {o})
  BY StampHolder, StampMore
<1>4. t.threw \in BOOLEAN /\ HolderShape(x) /\ x.live /\ x.datetime = 0 /\ x.said = 0
  BY <1>2 DEF StampKept, Fresh
<1>5. /\ StampKept(t, {}) /\ t.obj[o] = x
      /\ \A p \in Objects : p # o => t.obj[p] = s.obj[p]
  <2>1. Other(s, o, x, t)
    BY <1>2, <1>3, <1>4 DEF Other, Harmless
  <2>. QED
    BY <1>3, <2>1, StampOther
<1>6. t.open = s.open /\ t.data = s.data
  BY <1>2 DEF Changed
<1>. QED
  BY <1>2, <1>5, <1>6 DEF t

LEMMA StampNewObject ==
  ASSUME NEW s, StampKept(s, {}), NEW o \in Objects, ~ s.obj[o].live, NEW release \in BOOLEAN
  PROVE  LET t == Stamp!NewObject(s, o, release)
         IN /\ StampKept(t, {}) /\ t.threw = s.threw /\ t.open = s.open /\ t.data = s.data
            /\ Fresh(t.obj[o]) /\ t.obj[o].release = release
            /\ \A p \in Objects : p # o => t.obj[p] = s.obj[p]
<1> DEFINE x == [Stamp!Absent EXCEPT !.live = TRUE, !.release = release]
           t == PutObject(s, o, x)
<1>1. Stamp!NewObject(s, o, release) = t
  BY DEF Stamp!NewObject, PutObject, Put
<1>2. Fresh(x) /\ x.release = release
  <2> SUFFICES ASSUME NEW none, none = Stamp!Absent, NEW y,
                      y = [none EXCEPT !.live = TRUE, !.release = release]
               PROVE  Fresh(y) /\ y.release = release
    OBVIOUS
  <2>1. HolderShape(none) /\ none.datetime = 0 /\ none.said = 0
    BY AbsentHolder
  <2>. QED
    BY <2>1 DEF Fresh, HolderShape
<1> HIDE DEF x
<1>3. x.release \in BOOLEAN
  BY <1>2
<1>4. /\ StampKept(t, {}) /\ t.threw = s.threw /\ t.open = s.open /\ t.data = s.data
      /\ t.obj[o] = x /\ \A p \in Objects : p # o => t.obj[p] = s.obj[p]
  BY <1>2, <1>3, StampFresh
<1> HIDE DEF t
<1>. QED
  BY <1>1, <1>2, <1>4

\* A constructor that throws leaves no object, and loses its descriptor.
LEMMA StampConstructed ==
  ASSUME NEW s, NEW o \in Objects, StampKept(s, {o}), ~ s.threw => StampKept(s, {}),
         s.obj[o].datetime # 0 => Owner(s.obj[o])
  PROVE  StampKept(Stamp!Constructed(s, o), {})
<1> SUFFICES ASSUME NEW t, t = Stamp!Constructed(s, o)
             PROVE  StampKept(t, {})
  OBVIOUS
<1>1. CASE ~ s.threw
  BY <1>1 DEF Stamp!Constructed
<1>2. CASE s.threw
  <2> DEFINE lost == s.leaked \cup ({s.obj[o].datetime} \ {0})
             x == Stamp!Absent
  <2>1. t = [s EXCEPT !.leaked = lost, !.obj = Put(s.obj, o, x)]
    BY <1>2 DEF Stamp!Constructed, Stamp!At, Stamp!None, Put, StampKept, StampShape
  <2>2. HolderShape(x) /\ ~ x.live /\ x.datetime = 0 /\ x.release = FALSE /\ x.said = 0
    BY AbsentHolder
  <2>3. x = Stamp!Absent
    OBVIOUS
  <2> HIDE DEF x, lost
  <2>4. StampShape(s) /\ s.threw \in BOOLEAN
    BY DEF StampKept
  <2>5. /\ StampShape(t) /\ t.threw = s.threw /\ t.misuse = s.misuse
        /\ t.obj = Put(s.obj, o, x) /\ t.open = s.open /\ t.leaked = lost
        /\ t.data = s.data
    BY <2>1, <2>4 DEF StampShape
  <2>5a. Changed(s, t, Put(s.obj, o, x), s.open, lost, s.data)
    BY <2>5 DEF Changed
  <2>6. CASE s.obj[o].datetime # 0
    <3>1. lost = s.leaked \cup {s.obj[o].datetime}
      BY <2>6 DEF lost
    <3>2. Owner(s.obj[o]) /\ x.release \in BOOLEAN /\ t.threw \in BOOLEAN
      BY <2>2, <2>4, <2>5, <2>6
    <3>3. Changed(s, t, Put(s.obj, o, x), s.open, s.leaked \cup {s.obj[o].datetime}, s.data)
      BY <2>5a, <3>1
    <3>. QED
      <4>1. Lost(s, o, x, t)
        BY <2>2, <2>3, <3>2, <3>3 DEF Lost
      <4>. QED
        BY <4>1, StampLost
  <2>7. CASE s.obj[o].datetime = 0
    <3>1. lost = s.leaked
      BY <2>7 DEF lost
    <3>2. Possession(s.obj, s.open, s.leaked) /\ Shows(s.obj, s.data, {o}) /\ On(s.obj, Objects)
      BY DEF StampKept, Possession
    <3>3. ~ Owner(s.obj[o]) /\ ~ Owner(x) /\ HolderGood(x, s.open, s.leaked)
      BY <2>2, <2>3, <2>7 DEF Owner, HolderGood
    <3>4. Shown(x, s.data)
      BY <2>2 DEF Shown
    <3>5. Possession(Put(s.obj, o, x), s.open, s.leaked)
      BY <3>2, <3>3, PossessionOther
    <3>6. Shows(Put(s.obj, o, x), s.data, {})
      BY <3>2, <3>4, ShowsOther
    <3>. QED
      BY <2>4, <2>5, <3>1, <3>5, <3>6 DEF StampKept
  <2>. QED
    BY <2>6, <2>7
<1>. QED
  BY <1>1, <1>2

\* The constructors from a point in time, and from another object.
LEMMA StampFromDatetime ==
  ASSUME NEW s, StampKept(s, {}), s.threw = FALSE, StampRoom(s), NEW o \in Objects,
         ~ s.obj[o].live, NEW m
  PROVE  StampKept(Stamp!FromDatetime(s, o, m), {})
<1> DEFINE n == Stamp!NewObject(s, o, TRUE)
           a == Stamp!OciDescriptorAlloc(n, o)
           b == IF a.threw THEN a ELSE Stamp!Written(a, o, m)
<1>1. Stamp!FromDatetime(s, o, m) = Stamp!Constructed(b, o)
  BY DEF Stamp!FromDatetime, Stamp!Then, Stamp!OciConstruct
<1>2. /\ StampKept(n, {}) /\ n.threw = s.threw /\ n.open = s.open
      /\ Fresh(n.obj[o]) /\ n.obj[o].release = TRUE
  BY StampNewObject
<1> HIDE DEF n
<1>3. ~ Owner(n.obj[o]) /\ n.obj[o].live /\ n.obj[o].release = TRUE /\ n.obj[o].datetime = 0
  BY <1>2 DEF Owner, Fresh
<1>4. StampRoom(n) /\ n.threw = FALSE
  BY <1>2 DEF StampRoom
<1>5. /\ StampKept(a, {o}) /\ a.threw \in BOOLEAN /\ (a.threw => Same(n, a))
      /\ (~ a.threw => Owner(a.obj[o]))
  BY <1>2, <1>3, <1>4, StampAllocOwned
<1> HIDE DEF a
<1>6. StampKept(b, {o}) /\ (~ b.threw => StampKept(b, {})) /\ (b.obj[o].datetime # 0 => Owner(b.obj[o]))
  <2>1. CASE a.threw
    BY <1>3, <1>5, <2>1 DEF Same
  <2>2. CASE ~ a.threw
    <3>1. a.threw = FALSE /\ Owner(a.obj[o])
      BY <1>5, <2>2
    <3> DEFINE w == Stamp!Written(a, o, m)
    <3>2. StampKept(w, {}) /\ Owner(w.obj[o])
      BY <1>5, <3>1, StampWritten
    <3>3. b = w
      BY <2>2
    <3> HIDE DEF w, b
    <3>. QED
      BY <3>2, <3>3, StampMore
  <2>. QED
    BY <2>1, <2>2
<1> HIDE DEF b
<1>. QED
  BY <1>1, <1>6, StampConstructed

LEMMA StampCopyOf ==
  ASSUME NEW s, StampKept(s, {}), s.threw = FALSE, StampRoom(s), NEW o \in Objects,
         NEW p \in Objects, ~ s.obj[o].live, s.obj[p].live
  PROVE  StampKept(Stamp!CopyOf(s, o, p), {})
<1> DEFINE n == Stamp!NewObject(s, o, TRUE)
           a == Stamp!OciDescriptorAlloc(n, o)
           src == a.obj[p].datetime
           b == IF a.threw THEN a ELSE Stamp!OciAssign(a, o, src)
<1>0. p # o
  OBVIOUS
<1>1. Stamp!CopyOf(s, o, p) = IF s.obj[p].datetime = 0 THEN n ELSE Stamp!Constructed(b, o)
  BY DEF Stamp!CopyOf, Stamp!Then, Stamp!At, Stamp!None
<1>2. /\ StampKept(n, {}) /\ n.threw = s.threw /\ n.open = s.open
      /\ Fresh(n.obj[o]) /\ n.obj[o].release = TRUE /\ n.obj[p] = s.obj[p]
  BY <1>0, StampNewObject
<1> HIDE DEF n
<1>3. ~ Owner(n.obj[o]) /\ n.obj[o].live /\ n.obj[o].release = TRUE /\ n.obj[o].datetime = 0
  BY <1>2 DEF Owner, Fresh
<1>4. StampRoom(n) /\ n.threw = FALSE
  BY <1>2 DEF StampRoom
<1>5. /\ StampKept(a, {o}) /\ a.threw \in BOOLEAN /\ (a.threw => Same(n, a))
      /\ (~ a.threw => Owner(a.obj[o]) /\ a.obj[p] = n.obj[p])
  BY <1>0, <1>2, <1>3, <1>4, StampAllocOwned
<1> HIDE DEF a
<1>6. CASE s.obj[p].datetime # 0
  <2>1. StampKept(b, {o}) /\ (~ b.threw => StampKept(b, {})) /\ (b.obj[o].datetime # 0 => Owner(b.obj[o]))
    <3>1. CASE a.threw
      BY <1>3, <1>5, <3>1 DEF Same
    <3>2. CASE ~ a.threw
      <4>1. a.threw = FALSE /\ Owner(a.obj[o]) /\ a.obj[p].datetime # 0
        BY <1>2, <1>5, <1>6, <3>2
      <4>2. src \in a.open
        BY <1>5, <4>1, StampOpen
      <4> DEFINE w == Stamp!Written(a, o, a.data[src])
      <4>3. b = w
        BY <3>2, <4>2 DEF Stamp!OciAssign
      <4>4. StampKept(w, {}) /\ Owner(w.obj[o])
        BY <1>5, <4>1, StampWritten
      <4> HIDE DEF w, b
      <4>. QED
        BY <4>3, <4>4, StampMore
    <3>. QED
      BY <3>1, <3>2
  <2> HIDE DEF b
  <2>2. StampKept(Stamp!Constructed(b, o), {})
    BY <2>1, StampConstructed
  <2>. QED
    BY <1>1, <1>6, <2>2
<1>7. CASE s.obj[p].datetime = 0
  BY <1>1, <1>2, <1>7
<1>. QED
  BY <1>6, <1>7

LEMMA StampViewOf ==
  ASSUME NEW s, StampKept(s, {}), NEW o \in Objects, ~ s.obj[o].live, NEW d \in Foreign
  PROVE  StampKept(Stamp!ViewOf(s, o, d), {}) /\ Stamp!ViewOf(s, o, d).threw = s.threw
<1> SUFFICES ASSUME NEW t, t = Stamp!ViewOf(s, o, d)
             PROVE  StampKept(t, {}) /\ t.threw = s.threw
  OBVIOUS
<1> DEFINE n == Stamp!NewObject(s, o, FALSE)
           y == Pointing(n.obj[o], d)
           x == Saying(y, s.data[d])
<1>1. /\ StampKept(n, {}) /\ n.threw = s.threw /\ n.data = s.data
      /\ Fresh(n.obj[o]) /\ n.obj[o].release = FALSE
  BY StampNewObject
<1>2. t = [[n EXCEPT !.obj[o].datetime = d] EXCEPT !.obj[o].said = s.data[d]]
  BY DEF Stamp!ViewOf
<1> HIDE DEF n
<1>3. StampShape(n) /\ On(n.obj, Objects)
  BY <1>1 DEF StampKept, Possession
<1>4. t = PutObject(n, o, x)
  <2> DEFINE v == PutObject(n, o, y)
  <2>1. v = [n EXCEPT !.obj[o].datetime = d]
    BY <1>3 DEF PutObject, Put, Pointing, StampShape
  <2>2. v.obj = Put(n.obj, o, y)
    BY <1>3, StampPut DEF Changed
  <2>3. v.obj[o] = y
    BY <1>3, <2>2, PutAt
  <2>4. t = [v EXCEPT !.obj[o].said = s.data[d]]
    BY <1>2, <2>1
  <2>5. t = PutObject(v, o, Saying(v.obj[o], s.data[d]))
    <3>1. StampShape(v)
      BY <1>3, StampPut DEF Changed
    <3>. QED
      BY <2>4, <3>1 DEF PutObject, Put, Saying, StampShape
  <2> HIDE DEF v, y
  <2>6. t = PutObject(v, o, x)
    BY <2>3, <2>5
  <2>7. Put(v.obj, o, x) = Put(n.obj, o, x)
    BY <1>3, <2>2, PutPut
  <2>8. v = [n EXCEPT !.obj = v.obj]
    BY <1>3, <2>2 DEF v, PutObject, StampShape
  <2>9. [v EXCEPT !.obj = Put(v.obj, o, x)] = [n EXCEPT !.obj = Put(v.obj, o, x)]
    BY <1>3, <2>8 DEF StampShape
  <2>. QED
    BY <2>6, <2>7, <2>9 DEF PutObject
<1>5. HolderShape(n.obj[o]) /\ n.obj[o].live = TRUE /\ n.obj[o].release = FALSE /\ n.obj[o].datetime = 0
  BY <1>1 DEF Fresh
<1>6. HolderShape(y) /\ y.datetime = d /\ y.live = TRUE /\ y.release = FALSE
  BY <1>5, HolderPointing
<1> HIDE DEF y
<1>7. HolderShape(x) /\ x.datetime = d /\ x.live = TRUE /\ x.release = FALSE /\ x.said = s.data[d]
  BY <1>6, HolderSaying
<1> HIDE DEF x
<1>8. t.threw = n.threw /\ Changed(n, t, Put(n.obj, o, x), n.open, n.leaked, n.data)
  BY <1>3, <1>4, StampPut
<1>9. /\ ~ Owner(n.obj[o]) /\ StampKept(n, {o}) /\ t.threw \in BOOLEAN /\ x.release \in BOOLEAN
      /\ x.live /\ x.datetime \in Foreign /\ x.release = FALSE /\ x.said = n.data[x.datetime]
  BY <1>1, <1>5, <1>7, <1>8, StampMore DEF Owner, StampKept
<1>10. StampKept(t, {})
  <2>1. Other(n, o, x, t)
    BY <1>7, <1>8, <1>9 DEF Other, Harmless
  <2>. QED
    BY <1>9, <2>1, StampOther
<1>. QED
  BY <1>1, <1>8, <1>10


\* An object that does not own its descriptor gets one of its own.
LEMMA StampOwned ==
  ASSUME NEW s, StampKept(s, {}), s.threw = FALSE, StampRoom(s), NEW o \in Objects, s.obj[o].live
  PROVE  LET t == Stamp!Owned(s, o)
         IN /\ StampKept(t, {o}) /\ t.threw \in BOOLEAN
            /\ t.threw => StampKept(t, {})
            /\ ~ t.threw => Owner(t.obj[o])
            /\ ~ t.threw => \A p \in Objects : p # o => t.obj[p] = s.obj[p]
<1> DEFINE t == Stamp!Owned(s, o)
<1>1. StampShape(s) /\ HolderShape(s.obj[o]) /\ s.obj[o].release \in BOOLEAN /\ On(s.obj, Objects)
  BY StampHolder DEF StampKept, Possession
<1>2. CASE Owner(s.obj[o])
  <2>1. t = s
    BY <1>2 DEF Stamp!Owned, Stamp!At, Stamp!None, Owner
  <2>2. StampKept(s, {o})
    BY StampMore
  <2> HIDE DEF t
  <2>. QED
    BY <1>2, <2>1, <2>2 DEF t
<1>3. CASE ~ Owner(s.obj[o])
  <2> DEFINE a == Stamp!OciDescriptorAlloc(s, o)
  <2>1. t = IF a.threw THEN a ELSE [a EXCEPT !.obj[o].release = TRUE]
    BY <1>1, <1>3 DEF Stamp!Owned, Stamp!At, Stamp!None, Stamp!Then, Owner
  <2>2. /\ StampShape(a) /\ a.threw \in BOOLEAN
        /\ a.threw => Same(s, a)
        /\ ~ a.threw => \E d \in Descriptors :
             /\ d \notin s.open
             /\ Changed(s, a, Put(s.obj, o, Pointing(s.obj[o], d)), s.open \cup {d}, s.leaked,
                        Put(s.data, d, 0))
    BY <1>1, StampAlloc
  <2> HIDE DEF a, t
  <2>3. CASE a.threw
    <3>1. t = a /\ StampKept(a, {})
      BY <2>1, <2>2, <2>3, StampSame
    <3>2. StampKept(a, {o})
      BY <3>1, StampMore
    <3>. QED
      BY <2>2, <2>3, <3>1, <3>2 DEF t
  <2>4. CASE ~ a.threw
    <3>1. PICK d \in Descriptors :
            /\ d \notin s.open
            /\ Changed(s, a, Put(s.obj, o, Pointing(s.obj[o], d)), s.open \cup {d}, s.leaked,
                       Put(s.data, d, 0))
      BY <2>2, <2>4
    <3> DEFINE y == Pointing(s.obj[o], d)
               x == Releasing(y)
    <3>2. /\ HolderShape(y) /\ y.datetime = d /\ y.live = s.obj[o].live /\ y.said = s.obj[o].said
      BY <1>1, HolderPointing
    <3>3. Changed(s, a, Put(s.obj, o, y), s.open \cup {d}, s.leaked, Put(s.data, d, 0))
      BY <3>1
    <3> HIDE DEF y
    <3>4. /\ HolderShape(x) /\ x.release = TRUE /\ x.datetime = d /\ x.live = s.obj[o].live
      BY <3>2, HolderReleasing
    <3>5. a.obj = Put(s.obj, o, y) /\ a.misuse = s.misuse /\ a.open = s.open \cup {d}
          /\ a.leaked = s.leaked /\ a.data = Put(s.data, d, 0)
      BY <3>3 DEF Changed
    <3>6. a.obj[o] = y
      BY <1>1, <3>5, PutAt
    <3>7. t = [a EXCEPT !.obj = Put(a.obj, o, Releasing(a.obj[o]))]
      BY <2>1, <2>2, <2>4 DEF Put, Releasing, StampShape
    <3>8. t = [a EXCEPT !.obj = Put(a.obj, o, x)]
      BY <3>6, <3>7
    <3> HIDE DEF x
    <3>9. Put(a.obj, o, x) = Put(s.obj, o, x)
      BY <1>1, <3>5, PutPut
    <3>10. StampShape(t) /\ t.obj = Put(a.obj, o, x) /\ t.misuse = a.misuse /\ t.open = a.open
           /\ t.leaked = a.leaked /\ t.data = a.data /\ t.threw = a.threw
      BY <2>2, <3>8 DEF StampShape
    <3>11. Changed(s, t, Put(s.obj, o, x), s.open \cup {d}, s.leaked, Put(s.data, d, 0))
      BY <3>5, <3>9, <3>10 DEF Changed
    <3>12. x.live
      BY <3>4
    <3>13. Placed(s, o, d, x, t)
      BY <1>3, <2>2, <2>4, <3>1, <3>4, <3>10, <3>11, <3>12 DEF Placed
    <3>14. /\ StampKept(t, {o}) /\ Owner(t.obj[o])
           /\ \A p \in Objects : p # o => t.obj[p] = s.obj[p]
      <4>1. StampKept(s, {})
        OBVIOUS
      <4>2. o \in Objects
        OBVIOUS
      <4> HIDE DEF x
      <4>3. StampKept(t, {o})
        BY <4>1, <4>2, <3>13, StampPlaced
      <4>4. Owner(t.obj[o])
        BY <4>1, <4>2, <3>13, StampPlaced
      <4>5. t.obj = Put(s.obj, o, x)
        BY <3>11 DEF Changed
      <4>6. \A p \in Objects : p # o => t.obj[p] = s.obj[p]
        BY <1>1, <4>5, PutAt
      <4>. QED
        BY <4>3, <4>4, <4>6
    <3>. QED
      BY <2>2, <2>4, <3>10, <3>14 DEF t
  <2>. QED
    BY <2>3, <2>4
<1>. QED
  BY <1>2, <1>3

LEMMA StampAssignDatetime ==
  ASSUME NEW s, StampKept(s, {}), s.threw = FALSE, StampRoom(s), NEW o \in Objects, s.obj[o].live,
         NEW m
  PROVE  StampKept(Stamp!AssignDatetime(s, o, m), {})
<1> DEFINE a == Stamp!Owned(s, o)
           w == Stamp!Written(a, o, m)
<1>1. Stamp!AssignDatetime(s, o, m) = IF a.threw THEN a ELSE w
  BY DEF Stamp!AssignDatetime, Stamp!Then, Stamp!OciConstruct
<1>2. /\ StampKept(a, {o}) /\ a.threw \in BOOLEAN
      /\ a.threw => StampKept(a, {})
      /\ ~ a.threw => Owner(a.obj[o])
  BY StampOwned
<1> HIDE DEF a
<1>3. CASE a.threw
  BY <1>1, <1>2, <1>3
<1>4. CASE ~ a.threw
  <2>1. a.threw = FALSE /\ Owner(a.obj[o])
    BY <1>2, <1>4
  <2>2. StampKept(w, {})
    BY <1>2, <2>1, StampWritten
  <2>. QED
    BY <1>1, <1>4, <2>2
<1>. QED
  BY <1>3, <1>4

\* The object gives up its descriptor, which is released when it owned it.
GivenUp(s, o, r, x, t) ==
    /\ s.obj[o].datetime # 0
    /\ r = IF s.obj[o].release THEN Stamp!OciDescriptorFree(s, o) ELSE s
    /\ HolderShape(x) /\ x.release \in BOOLEAN /\ (~ x.live => x = Stamp!Absent)
    /\ x.datetime = 0 /\ x.said = 0
    /\ t = PutObject(r, o, x)
LEMMA StampReleased ==
  ASSUME NEW s, StampKept(s, {}), NEW o \in Objects, NEW r, NEW x, NEW t, GivenUp(s, o, r, x, t)
  PROVE  StampKept(t, {}) /\ t.threw = s.threw
<1>a. /\ s.obj[o].datetime # 0
      /\ r = IF s.obj[o].release THEN Stamp!OciDescriptorFree(s, o) ELSE s
      /\ HolderShape(x) /\ x.release \in BOOLEAN /\ (~ x.live => x = Stamp!Absent)
      /\ x.datetime = 0 /\ x.said = 0
  BY DEF GivenUp
<1>b. t = [r EXCEPT !.obj = Put(@, o, x)]
  BY DEF GivenUp, PutObject
<1>1. StampShape(s) /\ StampKept(s, {o}) /\ s.threw \in BOOLEAN
  BY StampMore DEF StampKept
<1>2. CASE s.obj[o].release
  <2>1. s.obj[o].datetime \in s.open
    BY <1>a, StampOpen
  <2>2. r = [s EXCEPT !.open = s.open \ {s.obj[o].datetime}, !.data = Put(s.data, s.obj[o].datetime, 0)]
    BY <1>1, <1>2, <1>a, <2>1 DEF Stamp!OciDescriptorFree, Stamp!At, Stamp!Unset, Put, StampShape
  <2>3. /\ StampShape(r) /\ r.obj = s.obj /\ r.misuse = s.misuse /\ r.leaked = s.leaked
        /\ r.threw = s.threw
        /\ r.open = s.open \ {s.obj[o].datetime} /\ r.data = Put(s.data, s.obj[o].datetime, 0)
    BY <1>1, <2>2 DEF StampShape
  <2>4. /\ StampShape(t) /\ t.obj = Put(r.obj, o, x) /\ t.misuse = r.misuse /\ t.leaked = r.leaked
        /\ t.open = r.open /\ t.data = r.data /\ t.threw = r.threw
    BY <1>b, <2>3 DEF StampShape
  <2>5. Changed(s, t, Put(s.obj, o, x), s.open \ {s.obj[o].datetime}, s.leaked,
                Put(s.data, s.obj[o].datetime, 0))
    BY <2>3, <2>4 DEF Changed
  <2>6. Owner(s.obj[o])
    BY <1>2, <1>a DEF Owner
  <2>7. t.threw = s.threw
    BY <2>3, <2>4
  <2>8. Lost(s, o, x, t)
    BY <1>1, <1>a, <2>5, <2>6, <2>7 DEF Lost
  <2>. QED
    BY <1>1, <2>7, <2>8, StampLost
<1>3. CASE ~ s.obj[o].release
  <2>1. r = s
    BY <1>3, <1>a
  <2>2. /\ StampShape(t) /\ t.obj = Put(s.obj, o, x) /\ t.misuse = s.misuse /\ t.leaked = s.leaked
        /\ t.open = s.open /\ t.data = s.data /\ t.threw = s.threw
    BY <1>1, <1>b, <2>1 DEF StampShape
  <2>3. Changed(s, t, Put(s.obj, o, x), s.open, s.leaked, s.data)
    BY <2>2 DEF Changed
  <2>4. ~ Owner(s.obj[o])
    BY <1>3 DEF Owner
  <2>5. Other(s, o, x, t)
    BY <1>1, <1>a, <2>2, <2>3, <2>4 DEF Other, Harmless
  <2>. QED
    BY <1>1, <2>2, <2>5, StampOther
<1>. QED
  BY <1>2, <1>3


PointedAndSaid(n, o, d, m, t) == t = [n EXCEPT !.obj[o].datetime = d, !.obj[o].said = m]
LEMMA PointThenSay ==
  ASSUME NEW n, StampShape(n), On(n.obj, Objects), NEW o \in Objects, NEW d, NEW m,
         NEW t, PointedAndSaid(n, o, d, m, t)
  PROVE  t = PutObject(n, o, Saying(Pointing(n.obj[o], d), m))
<1> DEFINE y == Pointing(n.obj[o], d)
           v == [n EXCEPT !.obj = Put(n.obj, o, y)]
<1>1. v = [n EXCEPT !.obj[o].datetime = d]
  BY DEF Put, Pointing, StampShape
<1>2. StampShape(v) /\ v.obj = Put(n.obj, o, y)
  BY DEF StampShape
<1>3. v.obj[o] = y
  BY <1>2, PutAt
<1>4. t = [v EXCEPT !.obj[o].said = m]
  BY <1>1 DEF PointedAndSaid
<1>5. v = [n EXCEPT !.obj = v.obj]
  BY <1>2
<1>6. y = Pointing(n.obj[o], d)
  OBVIOUS
<1> HIDE DEF v, y
<1>7. t = [v EXCEPT !.obj = Put(v.obj, o, Saying(v.obj[o], m))]
  BY <1>2, <1>4 DEF Put, Saying, StampShape
<1>8. t = [v EXCEPT !.obj = Put(v.obj, o, Saying(y, m))]
  BY <1>3, <1>7
<1>9. Put(v.obj, o, Saying(y, m)) = Put(n.obj, o, Saying(y, m))
  BY <1>2, PutPut
<1>10. t = [n EXCEPT !.obj = Put(v.obj, o, Saying(y, m))]
  BY <1>5, <1>8 DEF StampShape
<1>. QED
  BY <1>6, <1>9, <1>10 DEF PutObject

\* Assignment from another object.
LEMMA StampAssignFrom ==
  ASSUME NEW s, StampKept(s, {}), s.threw = FALSE, StampRoom(s), NEW o \in Objects, NEW p \in Objects,
         s.obj[o].live, s.obj[p].live
  PROVE  StampKept(Stamp!AssignFrom(s, o, p), {})
<1>1. CASE s.obj[p].datetime # 0
  <2> DEFINE a == Stamp!Owned(s, o)
             src == a.obj[p].datetime
             b == Stamp!OciAssign(a, o, src)
             w == Stamp!Written(a, o, a.data[src])
  <2>1. Stamp!AssignFrom(s, o, p) = IF a.threw THEN a ELSE b
    BY <1>1 DEF Stamp!AssignFrom, Stamp!At, Stamp!None, Stamp!Then
  <2>2. /\ StampKept(a, {o}) /\ a.threw \in BOOLEAN
        /\ a.threw => StampKept(a, {})
        /\ ~ a.threw => Owner(a.obj[o])
        /\ ~ a.threw => \A q \in Objects : q # o => a.obj[q] = s.obj[q]
    BY StampOwned
  <2> HIDE DEF a
  <2>3. CASE a.threw
    BY <2>1, <2>2, <2>3
  <2>4. CASE ~ a.threw
    <3>1. a.threw = FALSE /\ Owner(a.obj[o]) /\ a.obj[p].datetime # 0
      BY <1>1, <2>2, <2>4 DEF Owner
    <3>2. src \in a.open
      BY <2>2, <3>1, StampOpen
    <3>3. b = w
      BY <3>2 DEF Stamp!OciAssign
    <3>4. StampKept(w, {})
      BY <2>2, <3>1, StampWritten
    <3>. QED
      BY <2>1, <2>4, <3>3, <3>4
  <2>. QED
    BY <2>3, <2>4
<1>2. CASE s.obj[p].datetime = 0 /\ s.obj[o].datetime = 0
  BY <1>2 DEF Stamp!AssignFrom, Stamp!At, Stamp!None
<1>3. CASE s.obj[p].datetime = 0 /\ s.obj[o].datetime # 0
  <2> DEFINE r == IF s.obj[o].release THEN Stamp!OciDescriptorFree(s, o) ELSE s
             t == Stamp!AssignFrom(s, o, p)
             y == Pointing(s.obj[o], 0)
             x == Saying(y, 0)
  <2>1. t = [r EXCEPT !.obj[o].datetime = 0, !.obj[o].said = 0]
    BY <1>3 DEF Stamp!AssignFrom, Stamp!At, Stamp!None, Stamp!Unset, Stamp!Released
  <2>2. HolderShape(s.obj[o]) /\ s.obj[o].release \in BOOLEAN
    BY StampHolder
  <2>3. /\ HolderShape(y) /\ y.datetime = 0 /\ y.live = s.obj[o].live /\ y.release = s.obj[o].release
    BY <2>2, HolderPointing
  <2> HIDE DEF y
  <2>4. /\ HolderShape(x) /\ x.datetime = 0 /\ x.said = 0 /\ x.live = y.live
        /\ x.release = y.release
    BY <2>3, HolderSaying
  <2>5. r = IF s.obj[o].release THEN Stamp!OciDescriptorFree(s, o) ELSE s
    OBVIOUS
  <2>6. StampShape(s) /\ On(s.obj, Objects) /\ s.obj[o].datetime \in s.open
    BY <1>3, StampOpen DEF StampKept, Possession
  <2>7. StampShape(r) /\ r.obj = s.obj
    BY <2>6 DEF Stamp!OciDescriptorFree, Stamp!At, StampShape
  <2>8. x = Saying(Pointing(r.obj[o], 0), 0)
    BY <2>7 DEF y
  <2> HIDE DEF r, x, t
  <2>9. t = PutObject(r, o, x)
    <3>1. On(r.obj, Objects) /\ StampShape(r)
      BY <2>6, <2>7
    <3>2. PointedAndSaid(r, o, 0, 0, t)
      BY <2>1 DEF PointedAndSaid
    <3>. QED
      BY <2>8, <3>1, <3>2, PointThenSay
  <2>10. x.release \in BOOLEAN /\ (~ x.live => x = Stamp!Absent)
    BY <2>2, <2>3, <2>4
  <2>11. StampKept(t, {})
    <3>1. GivenUp(s, o, r, x, t)
      BY <1>3, <2>4, <2>5, <2>9, <2>10 DEF GivenUp
    <3>. QED
      BY <3>1, StampReleased
  <2>. QED
    BY <2>11 DEF t
<1>. QED
  BY <1>1, <1>2, <1>3

\* A fetch fills what a define refers to.
LEMMA StampReference ==
  ASSUME NEW s, StampKept(s, {}), s.threw = FALSE, StampRoom(s), NEW o \in Objects, s.obj[o].live,
         s.obj[o].datetime = 0 \/ s.obj[o].release
  PROVE  LET t == Stamp!Reference(s, o)
         IN /\ StampKept(t, {o}) /\ t.threw \in BOOLEAN
            /\ t.threw => StampKept(t, {})
            /\ ~ t.threw => Owner(t.obj[o])
<1> DEFINE t == Stamp!Reference(s, o)
<1>1. CASE s.obj[o].datetime # 0
  <2>1. t = s
    BY <1>1 DEF Stamp!Reference, Stamp!At, Stamp!None
  <2>2. StampKept(s, {o}) /\ Owner(s.obj[o])
    BY <1>1, StampMore DEF Owner
  <2> HIDE DEF t
  <2>. QED
    BY <2>1, <2>2 DEF t
<1>2. CASE s.obj[o].datetime = 0
  <2> DEFINE x == Releasing(s.obj[o])
             n == PutObject(s, o, x)
  <2>1. StampShape(s) /\ HolderShape(s.obj[o]) /\ On(s.obj, Objects) /\ StampKept(s, {o})
    BY StampHolder, StampMore DEF StampKept, Possession
  <2>2. s.obj[o].said = 0
    <3>1. Shown(s.obj[o], s.data)
      BY DEF StampKept, Shows
    <3>. QED
      BY <1>2, <3>1, StampAssumption DEF Shown
  <2>3. t = Stamp!OciDescriptorAlloc(n, o)
    <3>1. n = [s EXCEPT !.obj[o].release = TRUE]
      BY <2>1 DEF PutObject, Put, Releasing, StampShape
    <3>. QED
      BY <1>2, <3>1 DEF Stamp!Reference, Stamp!At, Stamp!None
  <2>4. /\ HolderShape(x) /\ x.release = TRUE
        /\ x.live = s.obj[o].live /\ x.said = s.obj[o].said /\ x.datetime = s.obj[o].datetime
    BY <2>1, HolderReleasing
  <2> HIDE DEF x
  <2>5. n.threw = s.threw /\ Changed(s, n, Put(s.obj, o, x), s.open, s.leaked, s.data)
    BY <2>1, StampPut
  <2> HIDE DEF n, t
  <2>6. n.open = s.open /\ n.threw = FALSE
    BY <2>5 DEF Changed
  <2>7. Other(s, o, x, n)
    BY <1>2, <2>2, <2>4, <2>5, <2>6 DEF Other, Harmless, Owner
  <2>8. StampKept(n, {}) /\ n.obj[o] = x
    BY <2>1, <2>7, StampOther
  <2>9. /\ StampRoom(n) /\ ~ Owner(n.obj[o]) /\ n.obj[o].live /\ n.obj[o].release = TRUE
    BY <1>2, <2>4, <2>6, <2>8 DEF StampRoom, Owner
  <2>10. /\ StampKept(t, {o}) /\ t.threw \in BOOLEAN
         /\ t.threw => Same(n, t)
         /\ ~ t.threw => Owner(t.obj[o])
    BY <2>3, <2>6, <2>8, <2>9, StampAllocOwned
  <2>11. t.threw => StampKept(t, {})
    <3>1. StampShape(t)
      BY <2>10 DEF StampKept
    <3>. QED
      BY <2>8, <2>10, <3>1, StampSame
  <2>. QED
    BY <2>10, <2>11 DEF t
<1>. QED
  BY <1>1, <1>2

LEMMA StampFetchInto ==
  ASSUME NEW s, StampKept(s, {}), s.threw = FALSE, StampRoom(s), NEW o \in Objects, s.obj[o].live,
         s.obj[o].datetime = 0 \/ s.obj[o].release, NEW m
  PROVE  StampKept(Stamp!FetchInto(s, o, m), {})
<1> DEFINE a == Stamp!Reference(s, o)
           t == Stamp!FetchInto(s, o, m)
<1>1. t = IF a.threw THEN a ELSE [a EXCEPT !.data[a.obj[o].datetime] = m, !.obj[o].said = m]
  BY DEF Stamp!FetchInto, Stamp!Then, Stamp!At
<1>2. /\ StampKept(a, {o}) /\ a.threw \in BOOLEAN
      /\ a.threw => StampKept(a, {})
      /\ ~ a.threw => Owner(a.obj[o])
  BY StampReference
<1> HIDE DEF a, t
<1>3. CASE a.threw
  BY <1>1, <1>2, <1>3 DEF t
<1>4. CASE ~ a.threw
  <2>1. StampShape(a)
    BY <1>2 DEF StampKept
  <2>2. t = [a EXCEPT !.data = Put(a.data, a.obj[o].datetime, m),
                      !.obj = Put(a.obj, o, Saying(a.obj[o], m))]
    BY <1>1, <1>4, <2>1 DEF StampShape, Put, Saying
  <2>3. /\ StampShape(t) /\ t.threw = a.threw /\ t.misuse = a.misuse /\ t.leaked = a.leaked
        /\ t.obj = Put(a.obj, o, Saying(a.obj[o], m)) /\ t.open = a.open
        /\ t.data = Put(a.data, a.obj[o].datetime, m)
    BY <2>1, <2>2 DEF StampShape
  <2>4. Changed(a, t, Put(a.obj, o, Saying(a.obj[o], m)), a.open, a.leaked,
                Put(a.data, a.obj[o].datetime, m))
    BY <2>3 DEF Changed
  <2>5. t.threw \in BOOLEAN /\ Owner(a.obj[o])
    BY <1>2, <1>4, <2>3
  <2>6. StampKept(t, {})
    BY <1>2, <2>4, <2>5, StampSays
  <2>. QED
    BY <2>6 DEF t
<1>. QED
  BY <1>3, <1>4

\* The destructor.
LEMMA StampDestroyed ==
  ASSUME NEW s, StampKept(s, {}), NEW o \in Objects
  PROVE  LET t == Stamp!Destroyed(s, o) IN StampKept(t, {}) /\ t.threw = s.threw
<1> SUFFICES ASSUME NEW t, t = Stamp!Destroyed(s, o)
             PROVE  StampKept(t, {}) /\ t.threw = s.threw
  OBVIOUS
<1> DEFINE r == IF s.obj[o].release THEN Stamp!OciDescriptorFree(s, o) ELSE s
           x == Stamp!Absent
<1>1. HolderShape(x) /\ x.release \in BOOLEAN /\ (~ x.live => x = Stamp!Absent) /\ x.datetime = 0 /\ x.said = 0
  BY AbsentHolder
<1>2. t = [(IF s.obj[o].datetime # 0 THEN r ELSE s) EXCEPT !.obj = Put(@, o, x)]
  BY DEF Stamp!Destroyed, Stamp!At, Stamp!None, Put
<1>3. r = IF s.obj[o].release THEN Stamp!OciDescriptorFree(s, o) ELSE s
  OBVIOUS
<1>4. StampShape(s) /\ StampKept(s, {o}) /\ s.threw \in BOOLEAN
  BY StampMore DEF StampKept
<1> HIDE DEF r, x
<1>5. CASE s.obj[o].datetime # 0
  <2>1. t = PutObject(r, o, x)
    BY <1>2, <1>5 DEF PutObject
  <2>2. GivenUp(s, o, r, x, t)
    BY <1>1, <1>3, <1>5, <2>1 DEF GivenUp
  <2>. QED
    BY <2>2, StampReleased
<1>6. CASE s.obj[o].datetime = 0
  <2>1. t = PutObject(s, o, x)
    BY <1>2, <1>6 DEF PutObject
  <2>2. t.threw = s.threw /\ Changed(s, t, Put(s.obj, o, x), s.open, s.leaked, s.data)
    BY <1>4, <2>1, StampPut
  <2>3. Other(s, o, x, t)
    BY <1>1, <1>4, <1>6, <2>2 DEF Other, Harmless, Owner
  <2>. QED
    BY <1>4, <2>2, <2>3, StampOther
<1>. QED
  BY <1>5, <1>6


LEMMA StampCount == ASSUME NEW S PROVE Stamp!Cardinality(S) = Cardinality(S)
BY DEF Stamp!Cardinality, Cardinality

LEMMA StampBegun ==
  ASSUME NEW s, StampGood(s), Cardinality(s.open) < Cardinality(Descriptors), NEW k
  PROVE  LET t == Stamp!Begin(s, k)
         IN StampKept(t, {}) /\ t.threw = FALSE /\ StampRoom(t) /\ t.obj = s.obj
<1> DEFINE t == Stamp!Begin(s, k)
<1>1. StampKept(s, {}) /\ StampShape(s)
  BY DEF StampGood, StampKept
<1>2. StampShape(t) /\ t.threw = FALSE /\ Same(s, t)
  BY <1>1, StampBegin
<1> HIDE DEF t
<1>3. t.threw \in BOOLEAN /\ t.obj = s.obj /\ t.open = s.open
  BY <1>2 DEF Same
<1>4. StampKept(t, {})
  BY <1>1, <1>2, <1>3, StampSame
<1>5. StampRoom(s)
  BY <1>1, RoomIsRoom
<1>6. StampRoom(t)
  BY <1>3, <1>5 DEF StampRoom
<1>. QED
  BY <1>2, <1>3, <1>4, <1>6 DEF t

LEMMA StampNext == StampGood(sys) /\ Stamp!Next => StampGood(sys')
<1> SUFFICES ASSUME StampGood(sys), Stamp!Next
             PROVE  StampGood(sys')
  OBVIOUS
<1>1. StampKept(sys, {}) /\ sys.threw = FALSE
  BY DEF StampGood
<1>2. PICK o \in Objects :
        \/ Stamp!NewDefault(o)
        \/ Stamp!Destroy(o)
        \/ \E d \in Foreign : Stamp!NewView(o, d)
        \/ \E k \in 0..2 :
             \/ \E m \in Moments : Stamp!NewFrom(o, m, k) \/ Stamp!Assign(o, m, k) \/ Stamp!Fetch(o, m, k)
             \/ \E p \in Objects : Stamp!NewCopy(o, p, k) \/ Stamp!AssignObject(o, p, k)
  BY DEF Stamp!Next
<1>3. CASE Stamp!NewDefault(o)
  <2> DEFINE t == Stamp!NewObject(sys, o, FALSE)
  <2>1. sys' = t /\ ~ sys.obj[o].live
    BY <1>3 DEF Stamp!NewDefault, Stamp!Live
  <2>2. FALSE \in BOOLEAN
    OBVIOUS
  <2>3. StampKept(t, {}) /\ t.threw = sys.threw
    BY <1>1, <2>1, <2>2, StampNewObject
  <2> HIDE DEF t
  <2>. QED
    BY <1>1, <2>1, <2>3 DEF StampGood
<1>4. CASE Stamp!Destroy(o)
  <2> DEFINE t == Stamp!Destroyed(sys, o)
  <2>1. sys' = t
    BY <1>4 DEF Stamp!Destroy
  <2>2. StampKept(t, {}) /\ t.threw = sys.threw
    BY <1>1, StampDestroyed
  <2> HIDE DEF t
  <2>. QED
    BY <1>1, <2>1, <2>2 DEF StampGood
<1>5. ASSUME NEW d \in Foreign, Stamp!NewView(o, d)
      PROVE  StampGood(sys')
  <2> DEFINE t == Stamp!ViewOf(sys, o, d)
  <2>1. sys' = t /\ ~ sys.obj[o].live
    BY <1>5 DEF Stamp!NewView, Stamp!Live
  <2>2. StampKept(t, {}) /\ t.threw = sys.threw
    BY <1>1, <2>1, StampViewOf
  <2> HIDE DEF t
  <2>. QED
    BY <1>1, <2>1, <2>2 DEF StampGood
<1>6. ASSUME NEW k \in 0..2, NEW m \in Moments,
             Stamp!NewFrom(o, m, k) \/ Stamp!Assign(o, m, k) \/ Stamp!Fetch(o, m, k)
      PROVE  StampGood(sys')
  <2> DEFINE b == Stamp!Begin(sys, k)
  <2>1. Cardinality(sys.open) < Cardinality(Descriptors)
    BY <1>6, StampCount DEF Stamp!NewFrom, Stamp!Assign, Stamp!Fetch, Stamp!Room
  <2>2. StampKept(b, {}) /\ b.threw = FALSE /\ StampRoom(b) /\ b.obj = sys.obj
    BY <2>1, StampBegun
  <2>3. \/ ~ sys.obj[o].live /\ Stamp!Ends(Stamp!FromDatetime(b, o, m))
        \/ sys.obj[o].live /\ Stamp!Ends(Stamp!AssignDatetime(b, o, m))
        \/ sys.obj[o].live /\ (sys.obj[o].datetime = 0 \/ sys.obj[o].release)
           /\ Stamp!Ends(Stamp!FetchInto(b, o, m))
    BY <1>6 DEF Stamp!NewFrom, Stamp!Assign, Stamp!Fetch, Stamp!Live, Stamp!At, Stamp!None
  <2> HIDE DEF b
  <2>4. CASE ~ sys.obj[o].live /\ Stamp!Ends(Stamp!FromDatetime(b, o, m))
    <3>0. ~ b.obj[o].live
      BY <2>2, <2>4
    <3>1. StampKept(Stamp!FromDatetime(b, o, m), {})
      BY <2>2, <3>0, StampFromDatetime
    <3>. QED
      BY <2>4, <3>1, StampEnds
  <2>5. CASE sys.obj[o].live /\ Stamp!Ends(Stamp!AssignDatetime(b, o, m))
    <3>1. StampKept(Stamp!AssignDatetime(b, o, m), {})
      BY <2>2, <2>5, StampAssignDatetime
    <3>. QED
      BY <2>5, <3>1, StampEnds
  <2>6. CASE /\ sys.obj[o].live /\ (sys.obj[o].datetime = 0 \/ sys.obj[o].release)
             /\ Stamp!Ends(Stamp!FetchInto(b, o, m))
    <3>1. StampKept(Stamp!FetchInto(b, o, m), {})
      BY <2>2, <2>6, StampFetchInto
    <3>. QED
      BY <2>6, <3>1, StampEnds
  <2>. QED
    BY <2>3, <2>4, <2>5, <2>6
<1>7. ASSUME NEW k \in 0..2, NEW p \in Objects, Stamp!NewCopy(o, p, k) \/ Stamp!AssignObject(o, p, k)
      PROVE  StampGood(sys')
  <2> DEFINE b == Stamp!Begin(sys, k)
  <2>1. Cardinality(sys.open) < Cardinality(Descriptors)
    BY <1>7, StampCount DEF Stamp!NewCopy, Stamp!AssignObject, Stamp!Room
  <2>2. StampKept(b, {}) /\ b.threw = FALSE /\ StampRoom(b) /\ b.obj = sys.obj
    BY <2>1, StampBegun
  <2>3. \/ ~ sys.obj[o].live /\ sys.obj[p].live /\ Stamp!Ends(Stamp!CopyOf(b, o, p))
        \/ sys.obj[o].live /\ sys.obj[p].live /\ Stamp!Ends(Stamp!AssignFrom(b, o, p))
    BY <1>7 DEF Stamp!NewCopy, Stamp!AssignObject, Stamp!Live
  <2> HIDE DEF b
  <2>4. CASE ~ sys.obj[o].live /\ sys.obj[p].live /\ Stamp!Ends(Stamp!CopyOf(b, o, p))
    <3>0. ~ b.obj[o].live /\ b.obj[p].live
      BY <2>2, <2>4
    <3>1. StampKept(Stamp!CopyOf(b, o, p), {})
      BY <2>2, <3>0, StampCopyOf
    <3>. QED
      BY <2>4, <3>1, StampEnds
  <2>5. CASE sys.obj[o].live /\ sys.obj[p].live /\ Stamp!Ends(Stamp!AssignFrom(b, o, p))
    <3>1. StampKept(Stamp!AssignFrom(b, o, p), {})
      BY <2>2, <2>5, StampAssignFrom
    <3>. QED
      BY <2>5, <3>1, StampEnds
  <2>. QED
    BY <2>3, <2>4, <2>5
<1>. QED
  BY <1>2, <1>3, <1>4, <1>5, <1>6, <1>7

LEMMA StampLegal == StampGood(sys) => Stamp!HandlesLegal /\ Stamp!DataStays
<1> SUFFICES ASSUME StampGood(sys)
             PROVE  Stamp!HandlesLegal /\ Stamp!DataStays
  OBVIOUS
<1>1. /\ sys.misuse = {} /\ Possession(sys.obj, sys.open, sys.leaked)
      /\ Shows(sys.obj, sys.data, {})
  BY DEF StampGood, StampKept
<1>2. \A d \in Descriptors : Stamp!Owners(d) = {o \in Objects : sys.obj[o].live /\ Owner(sys.obj[o])
                                                            /\ sys.obj[o].datetime = d}
  BY StampAssumption DEF Stamp!Owners, Stamp!At, Owner
<1>3. Foreign \subseteq sys.open /\ sys.open \subseteq Descriptors
  BY <1>1 DEF Possession
<1>4. ASSUME NEW d \in sys.open, d \notin Foreign, d \notin sys.leaked
      PROVE  Cardinality(Stamp!Owners(d)) = 1
  <2>1. PICK o \in Objects : Owner(sys.obj[o]) /\ sys.obj[o].datetime = d
    BY <1>1, <1>4 DEF Possession
  <2>2. sys.obj[o].live
    BY <1>1, <2>1, OwnerAlone
  <2>3. \A p \in Objects : Owner(sys.obj[p]) /\ sys.obj[p].datetime = d => p = o
    BY <1>1, <2>1 DEF Possession
  <2>4. d \in Descriptors
    BY <1>3
  <2>5. Stamp!Owners(d) = {o}
    BY <1>2, <2>1, <2>2, <2>3, <2>4
  <2>. QED
    BY <2>5, FS_Singleton
<1>5. ASSUME NEW d \in Descriptors, d \notin sys.open \/ d \in Foreign \/ d \in sys.leaked
      PROVE  Stamp!Owners(d) = {}
  <2>1. \A o \in Objects : HolderGood(sys.obj[o], sys.open, sys.leaked)
    BY <1>1 DEF Possession
  <2>2. \A o \in Objects : Owner(sys.obj[o]) => sys.obj[o].datetime # d
    BY <1>5, <2>1 DEF HolderGood, Owner
  <2>. QED
    BY <1>2, <2>2
<1>6. Stamp!HandlesLegal
  <2>1. \A d \in sys.open \ (Foreign \cup sys.leaked) : Stamp!Cardinality(Stamp!Owners(d)) = 1
    BY <1>4, StampCount
  <2>2. \A d \in Descriptors \ (sys.open \ (Foreign \cup sys.leaked)) : Stamp!Owners(d) = {}
    BY <1>5
  <2>. QED
    BY <1>1, <1>3, <2>1, <2>2 DEF Stamp!HandlesLegal
<1>7. Stamp!DataStays
  BY <1>1 DEF Stamp!DataStays, Shows, Shown, Stamp!At, Stamp!Unset
<1>. QED
  BY <1>6, <1>7


-----------------------------------------------------------------------------
\* The cache of statements

IsMap(f) == f = [x \in DOMAIN f |-> f[x]]
CacheShape(s) ==
    s = [conn |-> s.conn, cache |-> s.cache, entry |-> s.entry, key |-> s.key, held |-> s.held,
         early |-> s.early, misuse |-> s.misuse]

\* All statements that somebody refers to are there and are the right ones.
Matching(entry, key, held) ==
    /\ IsMap(entry) /\ IsMap(key)
    /\ \A k \in DOMAIN entry : entry[k] \in DOMAIN key /\ key[entry[k]] = k
    /\ \A h \in held : h.statement \in DOMAIN key /\ key[h.statement] = h.asked
\* Nobody but them is there.
Settled(n) == DOMAIN n.key = Cache!Live(n) /\ (n.cache = {} => n.entry = << >>)
\* Who has a statement has the cache, and whoever has the cache has the
\* connection unless it was let go early.
Attended(n) ==
    /\ \A h \in n.held : h.user \in n.cache
    /\ n.early = FALSE => n.misuse = {} /\ n.conn = n.cache
CacheGood(s) ==
    /\ CacheShape(s) /\ s.early \in BOOLEAN
    /\ Matching(s.entry, s.key, s.held) /\ Settled(s) /\ Attended(s)

LEMMA CacheLive ==
  ASSUME NEW s, NEW x
  PROVE  x \in Cache!Live(s) <=> \/ \E k \in DOMAIN s.entry : x = s.entry[k]
                                 \/ \E h \in s.held : x = h.statement
BY DEF Cache!Live

LEMMA CacheCollected ==
  ASSUME NEW s, CacheShape(s), Matching(s.entry, s.key, s.held)
  PROVE  LET t == Cache!Collected(s)
         IN /\ CacheShape(t) /\ Matching(t.entry, t.key, t.held) /\ Settled(t)
            /\ t.conn = s.conn /\ t.cache = s.cache /\ t.held = s.held /\ t.early = s.early
            /\ s.conn # {} \/ Settled(s) => t.misuse = s.misuse
<1> SUFFICES ASSUME NEW t, t = Cache!Collected(s)
             PROVE  /\ CacheShape(t) /\ Matching(t.entry, t.key, t.held) /\ Settled(t)
                    /\ t.conn = s.conn /\ t.cache = s.cache /\ t.held = s.held /\ t.early = s.early
                    /\ s.conn # {} \/ Settled(s) => t.misuse = s.misuse
  OBVIOUS
<1> DEFINE c == IF s.cache = {} THEN [s EXCEPT !.entry = << >>] ELSE s
           live == Cache!Live(c)
           gone == DOMAIN c.key \ live
<1>1. t = [c EXCEPT !.key = Cache!Restrict(c.key, live),
                    !.misuse = IF gone # {} /\ c.conn = {} THEN c.misuse \cup {"closed connection"}
                               ELSE c.misuse]
  BY DEF Cache!Collected, CacheShape
<1>2. /\ CacheShape(c) /\ c.conn = s.conn /\ c.cache = s.cache /\ c.held = s.held
      /\ c.early = s.early /\ c.misuse = s.misuse /\ c.key = s.key
      /\ c.entry = IF s.cache = {} THEN << >> ELSE s.entry
  BY DEF CacheShape
<1> HIDE DEF c
<1>3. /\ CacheShape(t) /\ t.conn = c.conn /\ t.cache = c.cache /\ t.held = c.held
      /\ t.early = c.early /\ t.entry = c.entry /\ t.key = Cache!Restrict(c.key, live)
      /\ gone = {} \/ c.conn # {} => t.misuse = c.misuse
  BY <1>1, <1>2 DEF CacheShape
<1>4. Matching(c.entry, c.key, c.held)
  BY <1>2 DEF Matching, IsMap
<1>5. live = Cache!Live(t)
  BY <1>3 DEF Cache!Live
<1>6. live \subseteq DOMAIN c.key
  BY <1>4 DEF Cache!Live, Matching
<1>7. IsMap(t.key) /\ DOMAIN t.key = live /\ \A x \in live : t.key[x] = c.key[x]
  BY <1>3, <1>6 DEF Cache!Restrict, IsMap
<1>8. (\A k \in DOMAIN c.entry : c.entry[k] \in live) /\ \A h \in c.held : h.statement \in live
  BY DEF Cache!Live
<1>9. Matching(t.entry, t.key, t.held)
  BY <1>3, <1>4, <1>7, <1>8 DEF Matching
<1>10. Settled(t)
  BY <1>2, <1>3, <1>5, <1>7 DEF Settled
<1>11. ASSUME Settled(s)
       PROVE  gone = {}
  <2>1. c.entry = s.entry
    BY <1>2, <1>11 DEF Settled
  <2>2. live = Cache!Live(s)
    BY <1>2, <2>1 DEF Cache!Live
  <2>. QED
    BY <1>2, <1>11, <2>2 DEF Settled
<1>. QED
  BY <1>2, <1>3, <1>9, <1>10, <1>11

\* What a function leaves behind, before the collection.
Leaving(n) ==
    /\ CacheShape(n) /\ n.early \in BOOLEAN
    /\ Matching(n.entry, n.key, n.held) /\ Attended(n)
    /\ n.early = FALSE => n.conn # {} \/ Settled(n)
LEMMA CacheBecomes ==
  ASSUME NEW n, Leaving(n), Cache!Becomes(n)
  PROVE  CacheGood(sys')
<1>1. sys' = Cache!Collected(n)
  BY DEF Cache!Becomes
<1>2. CacheShape(n) /\ Matching(n.entry, n.key, n.held)
  BY DEF Leaving
<1>3. /\ CacheShape(sys') /\ Matching(sys'.entry, sys'.key, sys'.held) /\ Settled(sys')
      /\ sys'.conn = n.conn /\ sys'.cache = n.cache /\ sys'.held = n.held /\ sys'.early = n.early
      /\ n.conn # {} \/ Settled(n) => sys'.misuse = n.misuse
  BY <1>1, <1>2, CacheCollected
<1>4. Attended(sys')
  BY <1>3 DEF Leaving, Attended
<1>. QED
  BY <1>3, <1>4 DEF CacheGood, Leaving

LEMMA CacheInit == Cache!Init => CacheGood(sys)
<1> SUFFICES ASSUME Cache!Init
             PROVE  CacheGood(sys)
  OBVIOUS
<1>1. PICK u \in Holders :
        sys = [conn |-> {u}, cache |-> {u}, entry |-> << >>, key |-> << >>, held |-> {},
               early |-> FALSE, misuse |-> {}]
  BY DEF Cache!Init
<1>2. /\ CacheShape(sys) /\ sys.conn = {u} /\ sys.cache = {u} /\ sys.entry = << >>
      /\ sys.key = << >> /\ sys.held = {} /\ sys.early = FALSE /\ sys.misuse = {}
  BY <1>1 DEF CacheShape
<1>3. IsMap(<< >>) /\ DOMAIN << >> = {}
  BY DEF IsMap
<1>4. Matching(sys.entry, sys.key, sys.held)
  BY <1>2, <1>3 DEF Matching
<1>5. Settled(sys)
  BY <1>2, <1>3 DEF Settled, Cache!Live
<1>. QED
  BY <1>2, <1>4, <1>5 DEF CacheGood, Attended

\* A user gets a statement that is there.
LEMMA CacheGiven ==
  ASSUME NEW s, CacheShape(s), NEW u, NEW k, NEW o
  PROVE  LET n == Cache!Given(s, u, k, o)
         IN /\ CacheShape(n) /\ n.conn = s.conn /\ n.cache = s.cache /\ n.entry = s.entry
            /\ n.key = s.key /\ n.early = s.early /\ n.misuse = s.misuse
            /\ \A h \in n.held : h \in s.held \/ (h.user = u /\ h.asked = k /\ h.statement = o)
            /\ \E h \in n.held : h.statement = o
            /\ \A h \in s.held : h \in n.held
<1> SUFFICES ASSUME NEW n, n = Cache!Given(s, u, k, o)
             PROVE  /\ CacheShape(n) /\ n.conn = s.conn /\ n.cache = s.cache /\ n.entry = s.entry
                    /\ n.key = s.key /\ n.early = s.early /\ n.misuse = s.misuse
                    /\ \A h \in n.held : h \in s.held \/ (h.user = u /\ h.asked = k /\ h.statement = o)
                    /\ \E h \in n.held : h.statement = o
                    /\ \A h \in s.held : h \in n.held
  OBVIOUS
<1> DEFINE new == [user |-> u, asked |-> k, statement |-> o]
<1>1. n = [s EXCEPT !.held = s.held \cup {new}]
  BY DEF Cache!Given, CacheShape
<1>2. new.user = u /\ new.asked = k /\ new.statement = o
  OBVIOUS
<1> HIDE DEF new
<1>3. /\ CacheShape(n) /\ n.conn = s.conn /\ n.cache = s.cache /\ n.entry = s.entry
      /\ n.key = s.key /\ n.early = s.early /\ n.misuse = s.misuse /\ n.held = s.held \cup {new}
  BY <1>1 DEF CacheShape
<1>. QED
  BY <1>2, <1>3

LEMMA CachePrepare ==
  ASSUME CacheGood(sys), NEW u, NEW k, Cache!Prepare(u, k)
  PROVE  CacheGood(sys')
<1>0. /\ CacheShape(sys) /\ Matching(sys.entry, sys.key, sys.held) /\ Settled(sys) /\ Attended(sys)
      /\ u \in sys.cache
  BY DEF CacheGood, Cache!Prepare
<1>1. CASE k \in DOMAIN sys.entry /\ Cache!Becomes(Cache!Given(sys, u, k, sys.entry[k]))
  <2> DEFINE n == Cache!Given(sys, u, k, sys.entry[k])
  <2>1. /\ CacheShape(n) /\ n.conn = sys.conn /\ n.cache = sys.cache /\ n.entry = sys.entry
        /\ n.key = sys.key /\ n.early = sys.early /\ n.misuse = sys.misuse
        /\ \A h \in n.held : h \in sys.held \/ (h.user = u /\ h.asked = k /\ h.statement = sys.entry[k])
        /\ \A h \in sys.held : h \in n.held
    BY <1>0, CacheGiven
  <2> HIDE DEF n
  <2>2. Matching(n.entry, n.key, n.held)
    BY <1>0, <1>1, <2>1 DEF Matching
  <2>3. Attended(n)
    BY <1>0, <2>1 DEF Attended
  <2>4. n.early = FALSE => n.conn # {}
    BY <1>0, <2>1 DEF Attended
  <2>5. Leaving(n)
    BY <2>1, <2>2, <2>3, <2>4 DEF Leaving, CacheGood
  <2>. QED
    BY <1>1, <2>5, CacheBecomes DEF n
<1>2. CASE /\ k \notin DOMAIN sys.entry /\ u \in sys.conn /\ Cache!Free(sys) # {}
           /\ LET o == CHOOSE x \in Cache!Free(sys) : TRUE
              IN Cache!Becomes(Cache!Given([sys EXCEPT !.entry = Cache!With(@, k, o),
                                                       !.key = Cache!With(@, o, k)], u, k, o))
  <2> DEFINE o == CHOOSE x \in Cache!Free(sys) : TRUE
             m == [sys EXCEPT !.entry = Cache!With(sys.entry, k, o), !.key = Cache!With(sys.key, o, k)]
             n == Cache!Given(m, u, k, o)
  <2>1. Cache!Becomes(n)
    BY <1>0, <1>2 DEF CacheShape
  <2>2. o \in Objects \/ o \notin DOMAIN sys.key
    BY <1>2 DEF Cache!Free
  <2>3. o \notin DOMAIN sys.key
    BY <1>2 DEF Cache!Free
  <2> HIDE DEF o
  <2>3a. m = [sys EXCEPT !.entry = Cache!With(sys.entry, k, o), !.key = Cache!With(sys.key, o, k)]
    OBVIOUS
  <2> HIDE DEF m
  <2>4. /\ CacheShape(m) /\ m.conn = sys.conn /\ m.cache = sys.cache
        /\ m.entry = Cache!With(sys.entry, k, o) /\ m.key = Cache!With(sys.key, o, k)
        /\ m.held = sys.held /\ m.early = sys.early /\ m.misuse = sys.misuse
    BY <1>0, <2>3a DEF CacheShape
  <2>5. /\ CacheShape(n) /\ n.conn = m.conn /\ n.cache = m.cache /\ n.entry = m.entry
        /\ n.key = m.key /\ n.early = m.early /\ n.misuse = m.misuse
        /\ \A h \in n.held : h \in m.held \/ (h.user = u /\ h.asked = k /\ h.statement = o)
    BY <2>4, CacheGiven
  <2> HIDE DEF n
  <2>6. /\ IsMap(n.entry) /\ DOMAIN n.entry = DOMAIN sys.entry \cup {k} /\ n.entry[k] = o
        /\ \A x \in DOMAIN sys.entry : n.entry[x] = sys.entry[x]
    BY <1>2, <2>4, <2>5 DEF Cache!With, IsMap
  <2>7. /\ IsMap(n.key) /\ DOMAIN n.key = DOMAIN sys.key \cup {o} /\ n.key[o] = k
        /\ \A x \in DOMAIN sys.key : n.key[x] = sys.key[x]
    BY <2>3, <2>4, <2>5 DEF Cache!With, IsMap
  <2>8. Matching(n.entry, n.key, n.held)
    BY <1>0, <2>4, <2>5, <2>6, <2>7 DEF Matching
  <2>9. Attended(n)
    BY <1>0, <2>4, <2>5 DEF Attended
  <2>10. n.conn # {}
    BY <1>2, <2>4, <2>5
  <2>11. Leaving(n)
    BY <2>4, <2>5, <2>8, <2>9, <2>10 DEF Leaving, CacheGood
  <2>. QED
    BY <2>1, <2>11, CacheBecomes
<1>. QED
  BY <1>1, <1>2 DEF Cache!Prepare

LEMMA CacheClear ==
  ASSUME CacheGood(sys), NEW u, Cache!ClearStatementCache(u)
  PROVE  CacheGood(sys')
<1> DEFINE n == [sys EXCEPT !.entry = << >>]
<1>0. /\ CacheShape(sys) /\ Matching(sys.entry, sys.key, sys.held) /\ Attended(sys)
      /\ u \in sys.cache /\ Cache!Becomes(n)
  BY DEF CacheGood, Cache!ClearStatementCache
<1>1. /\ CacheShape(n) /\ n.conn = sys.conn /\ n.cache = sys.cache /\ n.entry = << >>
      /\ n.key = sys.key /\ n.held = sys.held /\ n.early = sys.early /\ n.misuse = sys.misuse
  BY <1>0 DEF CacheShape
<1> HIDE DEF n
<1>2. IsMap(<< >>) /\ DOMAIN << >> = {}
  BY DEF IsMap
<1>3. Matching(n.entry, n.key, n.held)
  BY <1>0, <1>1, <1>2 DEF Matching
<1>4. Attended(n) /\ (n.early = FALSE => n.conn # {})
  BY <1>0, <1>1 DEF Attended
<1>5. Leaving(n)
  BY <1>1, <1>3, <1>4 DEF Leaving, CacheGood
<1>. QED
  BY <1>0, <1>5, CacheBecomes

LEMMA CacheRelease ==
  ASSUME CacheGood(sys), NEW h, Cache!Release(h)
  PROVE  CacheGood(sys')
<1> DEFINE n == [sys EXCEPT !.held = @ \ {h}]
<1>0. /\ CacheShape(sys) /\ Matching(sys.entry, sys.key, sys.held) /\ Attended(sys)
      /\ h \in sys.held /\ Cache!Becomes(n)
  BY DEF CacheGood, Cache!Release
<1>1. /\ CacheShape(n) /\ n.conn = sys.conn /\ n.cache = sys.cache /\ n.entry = sys.entry
      /\ n.key = sys.key /\ n.held = sys.held \ {h} /\ n.early = sys.early /\ n.misuse = sys.misuse
  BY <1>0 DEF CacheShape
<1> HIDE DEF n
<1>3. Matching(n.entry, n.key, n.held)
  BY <1>0, <1>1 DEF Matching
<1>4. Attended(n) /\ (n.early = FALSE => n.conn # {})
  BY <1>0, <1>1 DEF Attended
<1>5. Leaving(n)
  BY <1>1, <1>3, <1>4 DEF Leaving, CacheGood
<1>. QED
  BY <1>0, <1>5, CacheBecomes

LEMMA CacheCopy ==
  ASSUME CacheGood(sys), NEW u, NEW v, Cache!Copy(u, v)
  PROVE  CacheGood(sys')
<1> DEFINE n == [sys EXCEPT !.cache = @ \cup {v}, !.conn = IF u \in @ THEN @ \cup {v} ELSE @]
<1>0. /\ CacheShape(sys) /\ Matching(sys.entry, sys.key, sys.held) /\ Attended(sys)
      /\ u \in sys.cache /\ Cache!Becomes(n)
  BY DEF CacheGood, Cache!Copy
<1>a. n = [sys EXCEPT !.cache = sys.cache \cup {v},
                      !.conn = IF u \in sys.conn THEN sys.conn \cup {v} ELSE sys.conn]
  BY <1>0 DEF CacheShape
<1> HIDE DEF n
<1>1. /\ CacheShape(n) /\ n.conn = (IF u \in sys.conn THEN sys.conn \cup {v} ELSE sys.conn)
      /\ n.cache = sys.cache \cup {v} /\ n.entry = sys.entry
      /\ n.key = sys.key /\ n.held = sys.held /\ n.early = sys.early /\ n.misuse = sys.misuse
  BY <1>0, <1>a DEF CacheShape
<1>3. Matching(n.entry, n.key, n.held)
  BY <1>0, <1>1
<1>4. Attended(n) /\ (n.early = FALSE => n.conn # {})
  BY <1>0, <1>1 DEF Attended
<1>5. Leaving(n)
  BY <1>1, <1>3, <1>4 DEF Leaving, CacheGood
<1>. QED
  BY <1>0, <1>5, CacheBecomes

LEMMA CacheDestroy ==
  ASSUME CacheGood(sys), NEW u, Cache!Destroy(u)
  PROVE  CacheGood(sys')
<1> DEFINE a == [sys EXCEPT !.cache = @ \ {u}]
           c == Cache!Collected(a)
           n == [c EXCEPT !.conn = @ \ {u}]
<1>0. /\ CacheShape(sys) /\ Matching(sys.entry, sys.key, sys.held) /\ Attended(sys)
      /\ u \in sys.cache /\ (\A h \in sys.held : h.user # u) /\ Cache!Becomes(n)
  BY DEF CacheGood, Cache!Destroy, Cache!Leaves, Cache!LetGo
<1>1. /\ CacheShape(a) /\ a.conn = sys.conn /\ a.cache = sys.cache \ {u} /\ a.entry = sys.entry
      /\ a.key = sys.key /\ a.held = sys.held /\ a.early = sys.early /\ a.misuse = sys.misuse
  BY <1>0 DEF CacheShape
<1> HIDE DEF a
<1>2. Matching(a.entry, a.key, a.held)
  BY <1>0, <1>1
<1>3. /\ CacheShape(c) /\ Matching(c.entry, c.key, c.held) /\ Settled(c)
      /\ c.conn = a.conn /\ c.cache = a.cache /\ c.held = a.held /\ c.early = a.early
      /\ a.conn # {} \/ Settled(a) => c.misuse = a.misuse
  BY <1>1, <1>2, CacheCollected
<1> HIDE DEF c
<1>4. /\ CacheShape(n) /\ n.conn = c.conn \ {u} /\ n.cache = c.cache /\ n.entry = c.entry
      /\ n.key = c.key /\ n.held = c.held /\ n.early = c.early /\ n.misuse = c.misuse
  BY <1>3 DEF CacheShape
<1> HIDE DEF n
<1>5. Settled(n)
  BY <1>3, <1>4 DEF Settled, Cache!Live
<1>6. Attended(n)
  BY <1>0, <1>1, <1>3, <1>4 DEF Attended
<1>7. Leaving(n)
  BY <1>1, <1>3, <1>4, <1>5, <1>6 DEF Leaving, CacheGood
<1>. QED
  BY <1>0, <1>7, CacheBecomes

LEMMA CacheClose ==
  ASSUME CacheGood(sys), NEW u, Cache!Close(u)
  PROVE  CacheGood(sys')
<1> DEFINE n == [[sys EXCEPT !.conn = @ \ {u}] EXCEPT !.early = TRUE]
<1>0. /\ CacheShape(sys) /\ Matching(sys.entry, sys.key, sys.held) /\ Attended(sys)
      /\ Cache!Becomes(n)
  BY DEF CacheGood, Cache!Close, Cache!LetGo
<1>a. n = [sys EXCEPT !.conn = sys.conn \ {u}, !.early = TRUE]
  BY <1>0 DEF CacheShape
<1> HIDE DEF n
<1>1. /\ CacheShape(n) /\ n.cache = sys.cache /\ n.entry = sys.entry
      /\ n.key = sys.key /\ n.held = sys.held /\ n.early = TRUE
  BY <1>0, <1>a DEF CacheShape
<1>3. Matching(n.entry, n.key, n.held)
  BY <1>0, <1>1
<1>4. Attended(n)
  BY <1>0, <1>1 DEF Attended
<1>5. Leaving(n)
  BY <1>1, <1>3, <1>4 DEF Leaving
<1>. QED
  BY <1>0, <1>5, CacheBecomes

LEMMA CacheAssign ==
  ASSUME CacheGood(sys), NEW u, Cache!Assign(u)
  PROVE  CacheGood(sys')
<1> DEFINE a == [[sys EXCEPT !.conn = @ \ {u}] EXCEPT !.early = TRUE]
           c == Cache!Collected(a)
           n == [c EXCEPT !.cache = @ \ {u}]
<1>0. /\ CacheShape(sys) /\ Matching(sys.entry, sys.key, sys.held) /\ Attended(sys)
      /\ u \in sys.cache /\ (\A h \in sys.held : h.user # u) /\ Cache!Becomes(n)
  BY DEF CacheGood, Cache!Assign, Cache!Leaves, Cache!LetGo
<1>a. a = [sys EXCEPT !.conn = sys.conn \ {u}, !.early = TRUE]
  BY <1>0 DEF CacheShape
<1> HIDE DEF a
<1>1. /\ CacheShape(a) /\ a.cache = sys.cache /\ a.entry = sys.entry
      /\ a.key = sys.key /\ a.held = sys.held /\ a.early = TRUE
  BY <1>0, <1>a DEF CacheShape
<1>2. Matching(a.entry, a.key, a.held)
  BY <1>0, <1>1
<1>3. /\ CacheShape(c) /\ Matching(c.entry, c.key, c.held)
      /\ c.cache = a.cache /\ c.held = a.held /\ c.early = a.early
  BY <1>1, <1>2, CacheCollected
<1> HIDE DEF c
<1>4. /\ CacheShape(n) /\ n.cache = c.cache \ {u} /\ n.entry = c.entry
      /\ n.key = c.key /\ n.held = c.held /\ n.early = c.early
  BY <1>3 DEF CacheShape
<1> HIDE DEF n
<1>6. Attended(n)
  BY <1>0, <1>1, <1>3, <1>4 DEF Attended
<1>7. Leaving(n)
  BY <1>1, <1>3, <1>4, <1>6 DEF Leaving
<1>. QED
  BY <1>0, <1>7, CacheBecomes

LEMMA CacheNext == CacheGood(sys) /\ Cache!Next => CacheGood(sys')
<1> SUFFICES ASSUME CacheGood(sys), Cache!Next
             PROVE  CacheGood(sys')
  OBVIOUS
<1>1. ASSUME NEW u, NEW k, Cache!Prepare(u, k) PROVE CacheGood(sys')
  BY <1>1, CachePrepare
<1>2. ASSUME NEW u, Cache!ClearStatementCache(u) \/ Cache!Destroy(u) \/ Cache!Close(u) \/ Cache!Assign(u)
      PROVE  CacheGood(sys')
  BY <1>2, CacheClear, CacheDestroy, CacheClose, CacheAssign
<1>3. ASSUME NEW u, NEW v, Cache!Copy(u, v) PROVE CacheGood(sys')
  BY <1>3, CacheCopy
<1>4. ASSUME NEW h, Cache!Release(h) PROVE CacheGood(sys')
  BY <1>4, CacheRelease
<1>. QED
  BY <1>1, <1>2, <1>3, <1>4 DEF Cache!Next

LEMMA CacheLegal == CacheGood(sys) => Cache!HandlesLegal /\ Cache!DataStays
BY DEF CacheGood, Attended, Settled, Matching, Cache!HandlesLegal, Cache!DataStays


-----------------------------------------------------------------------------
\* Blobs

ImplShape(x) == x = [size |-> x.size, memory |-> x.memory, dangling |-> x.dangling]
ImplGood(x) ==
    /\ ImplShape(x)
    /\ x.size \in Nat /\ x.memory \in Seq(Nat) /\ x.dangling \in BOOLEAN
    /\ ~ x.dangling => x.size <= Len(x.memory)
Bytes(x) == SubSeq(x.memory, 1, x.size)

BlobShape(s) ==
    s = [of |-> s.of, impl |-> s.impl, said |-> s.said, refused |-> s.refused,
         misuse |-> s.misuse, failing |-> s.failing, calls |-> s.calls, threw |-> s.threw]

\* A blob has what was said of it.
Telling(s, c) ==
    /\ s.of[c] = 0 => s.said[c] = << >>
    /\ s.of[c] # 0 /\ ~ s.impl[s.of[c]].dangling => Bytes(s.impl[s.of[c]]) = s.said[c]
\* Memory is freed twice only when new memory was refused.
Blamed(s) == s.misuse \subseteq IF s.refused THEN {"freed twice"} ELSE {}
BlobCore(s) ==
    /\ BlobShape(s) /\ s.threw \in BOOLEAN /\ s.refused \in BOOLEAN /\ Blamed(s)
    /\ On(s.of, Names) /\ On(s.impl, Shared!Impls) /\ On(s.said, Names)
    /\ \A c \in Names : s.of[c] = 0 \/ s.of[c] \in Shared!Impls
    /\ \A i \in Shared!Impls :
         ImplGood(s.impl[i]) /\ (s.impl[i].dangling => s.refused = TRUE)
BlobKept(s) == BlobCore(s) /\ \A c \in Names : Telling(s, c)
\* Between the calls of a function, for all but the blob that it is about.
BlobBut(s, b) == BlobCore(s) /\ \A c \in Names : c # b => Telling(s, c)
Used(s) == \A i \in Shared!Impls : s.impl[i] # Shared!NoImpl => \E c \in Names : s.of[c] = i
BlobGood(s) == BlobKept(s) /\ ~ s.threw /\ Used(s)

Alike(s, t) ==
    /\ t.of = s.of /\ t.impl = s.impl /\ t.said = s.said /\ t.refused = s.refused
    /\ t.misuse = s.misuse

LEMMA BlobAlike ==
  ASSUME NEW s, NEW t, BlobShape(t), Alike(s, t), t.threw \in BOOLEAN
  PROVE  /\ BlobKept(s) => BlobKept(t)
         /\ \A b \in Names : BlobBut(s, b) => BlobBut(t, b)
<1>1. \A c \in Names : Telling(s, c) => Telling(t, c)
  BY DEF Alike, Telling
<1>2. BlobCore(s) => BlobCore(t)
  BY DEF BlobCore, Alike, Blamed
<1>. QED
  BY <1>1, <1>2 DEF BlobKept, BlobBut

LEMMA BlobNone ==
  /\ ImplGood(Shared!NoImpl) /\ ~ Shared!NoImpl.dangling /\ Shared!NoImpl.size = 0
  /\ Shared!NoImpl.memory = << >>
<1> SUFFICES ASSUME NEW x, x = Shared!NoImpl
             PROVE  /\ ImplGood(x) /\ ~ x.dangling /\ x.size = 0 /\ x.memory = << >>
  OBVIOUS
<1>1. x = [size |-> 0, memory |-> << >>, dangling |-> FALSE]
  BY DEF Shared!NoImpl
<1>2. ImplShape(x) /\ x.size = 0 /\ ~ x.dangling
  BY <1>1 DEF ImplShape
<1>2b. x.dangling = FALSE
  BY <1>1
<1>2a. x.memory = << >>
  BY <1>1
<1>3. x.memory \in Seq(Nat) /\ Len(x.memory) = 0
  BY <1>2a, EmptySeq
<1>4a. x.size \in Nat
  BY <1>2
<1>4c. x.dangling \in BOOLEAN
  BY <1>2b
<1>4b. x.size <= Len(x.memory)
  BY <1>2, <1>3
<1>4. x.size \in Nat /\ x.dangling \in BOOLEAN /\ x.size <= Len(x.memory)
  BY <1>4a, <1>4b, <1>4c
<1>5. ImplGood(x)
  BY <1>2, <1>3, <1>4 DEF ImplGood
<1>. QED
  BY <1>2, <1>2a, <1>5

LEMMA BlobCount == ASSUME NEW S PROVE Shared!Cardinality(S) = Cardinality(S)
BY DEF Shared!Cardinality, Cardinality

LEMMA BlobImpls == Cardinality(Names) \in Nat /\ Shared!Impls = 1..(Cardinality(Names) + 1)
                   /\ 0 \notin Shared!Impls
<1>1. Cardinality(Names) \in Nat
  BY BlobAssumption, FS_CardinalityType
<1>2. Shared!Impls = 1..(Cardinality(Names) + 1)
  BY BlobCount DEF Shared!Impls
<1>. QED
  BY <1>1, <1>2

\* There is always an instance that nobody uses.
LEMMA BlobRoom ==
  ASSUME NEW of, On(of, Names)
  PROVE  \E i \in Shared!Impls : \A c \in Names : of[c] # i
<1> SUFFICES ASSUME \A i \in Shared!Impls : \E c \in Names : of[c] = i
             PROVE  FALSE
  OBVIOUS
<1> DEFINE image == {of[c] : c \in Names}
<1>1. IsFiniteSet(image) /\ Cardinality(image) <= Cardinality(Names)
  <2>1. of \in Surjection(Names, image)
    BY DEF On, Surjection
  <2> HIDE DEF image
  <2>. QED
    BY <2>1, BlobAssumption, FS_Surjection
<1>2. Shared!Impls \subseteq image
  OBVIOUS
<1>3. IsFiniteSet(Shared!Impls) /\ Cardinality(Shared!Impls) = Cardinality(Names) + 1
  <2> DEFINE n == Cardinality(Names) + 1
  <2>1. n \in Int /\ 1 \in Int /\ n >= 1 /\ n - 1 + 1 = n
    BY BlobImpls
  <2>2. Shared!Impls = 1..n
    BY BlobImpls
  <2> HIDE DEF n
  <2>3. IsFiniteSet(1..n) /\ Cardinality(1..n) = IF 1 > n THEN 0 ELSE n - 1 + 1
    BY <2>1, FS_Interval
  <2>4. Cardinality(1..n) = n
    BY <2>1, <2>3
  <2>. QED
    BY <2>2, <2>3, <2>4 DEF n
<1>4. Cardinality(Shared!Impls) <= Cardinality(image)
  BY <1>1, <1>2, FS_Subset
<1>5. Cardinality(image) \in Nat /\ Cardinality(Names) \in Nat
  BY <1>1, BlobAssumption, FS_CardinalityType
<1> HIDE DEF image
<1>. QED
  BY <1>1, <1>3, <1>4, <1>5

-----------------------------------------------------------------------------
LEMMA BlobCall ==
  ASSUME NEW s, BlobShape(s), s.threw \in BOOLEAN, ~ s.threw
  PROVE  LET t == Shared!Call(s, TRUE)
         IN BlobShape(t) /\ t.threw \in BOOLEAN /\ Alike(s, t)
<1> SUFFICES ASSUME NEW t, t = Shared!Call(s, TRUE)
             PROVE  BlobShape(t) /\ t.threw \in BOOLEAN /\ Alike(s, t)
  OBVIOUS
<1> DEFINE u == [s EXCEPT !.calls = s.calls + 1, !.misuse = s.misuse]
<1>1. u = [s EXCEPT !.calls = s.calls + 1, !.misuse = s.misuse]
  OBVIOUS
<1>2. t = u \/ t = [u EXCEPT !.threw = TRUE]
  <2>1. u = [s EXCEPT !.calls = @ + 1, !.misuse = IF TRUE THEN @ ELSE @ \cup {"closed handle"}]
    BY DEF BlobShape
  <2> HIDE DEF u
  <2>. QED
    BY <2>1 DEF Shared!Call, Shared!Throw
<1> HIDE DEF u
<1>3. BlobShape(u) /\ u.threw \in BOOLEAN /\ Alike(s, u)
  BY <1>1 DEF BlobShape, Alike
<1>. QED
  BY <1>2, <1>3 DEF BlobShape, Alike

LEMMA BlobBegin ==
  ASSUME NEW s, BlobKept(s), NEW k
  PROVE  LET t == Shared!Begin(s, k)
         IN BlobKept(t) /\ ~ t.threw /\ Alike(s, t)
<1> SUFFICES ASSUME NEW t, t = Shared!Begin(s, k)
             PROVE  BlobKept(t) /\ ~ t.threw /\ Alike(s, t)
  OBVIOUS
<1>1. t = [s EXCEPT !.failing = k, !.calls = 0, !.threw = FALSE]
  BY DEF Shared!Begin
<1>2. BlobShape(t) /\ t.threw = FALSE /\ Alike(s, t)
  BY <1>1 DEF BlobKept, BlobCore, BlobShape, Alike
<1>. QED
  BY <1>2, BlobAlike

\* Instances with one component changed.
Sized(x, n) == [x EXCEPT !.size = n]
Having(x, m) == [x EXCEPT !.memory = m]
Lost2(x, d) == [x EXCEPT !.dangling = d]
LEMMA ImplSized ==
  ASSUME NEW x, ImplShape(x), NEW n
  PROVE  LET y == Sized(x, n)
         IN ImplShape(y) /\ y.size = n /\ y.memory = x.memory /\ y.dangling = x.dangling
<1> SUFFICES ASSUME NEW y, y = Sized(x, n)
             PROVE  ImplShape(y) /\ y.size = n /\ y.memory = x.memory /\ y.dangling = x.dangling
  OBVIOUS
<1>1. y = [x EXCEPT !.size = n]
  BY DEF Sized
<1>. QED
  BY <1>1 DEF ImplShape

LEMMA ImplHaving ==
  ASSUME NEW x, ImplShape(x), NEW m
  PROVE  LET y == Having(x, m)
         IN ImplShape(y) /\ y.size = x.size /\ y.memory = m /\ y.dangling = x.dangling
<1> SUFFICES ASSUME NEW y, y = Having(x, m)
             PROVE  ImplShape(y) /\ y.size = x.size /\ y.memory = m /\ y.dangling = x.dangling
  OBVIOUS
<1>1. y = [x EXCEPT !.memory = m]
  BY DEF Having
<1>. QED
  BY <1>1 DEF ImplShape

LEMMA ImplLost ==
  ASSUME NEW x, ImplShape(x), NEW d
  PROVE  LET y == Lost2(x, d)
         IN ImplShape(y) /\ y.size = x.size /\ y.memory = x.memory /\ y.dangling = d
<1> SUFFICES ASSUME NEW y, y = Lost2(x, d)
             PROVE  ImplShape(y) /\ y.size = x.size /\ y.memory = x.memory /\ y.dangling = d
  OBVIOUS
<1>1. y = [x EXCEPT !.dangling = d]
  BY DEF Lost2
<1>. QED
  BY <1>1 DEF ImplShape

-----------------------------------------------------------------------------
\* The blob is the only one that refers to this instance, whose memory is there.
Alone(s, b, i) ==
    /\ BlobBut(s, b) /\ i \in Shared!Impls /\ s.of[b] = i
    /\ \A c \in Names : c # b => s.of[c] # i
    /\ ~ s.impl[i].dangling
\* The instance of that blob becomes another one.
Remade(s, b, t, i, x) ==
    /\ Alone(s, b, i)
    /\ BlobShape(t) /\ t.threw \in BOOLEAN /\ ImplGood(x)
    /\ t.of = s.of /\ t.said = s.said /\ t.misuse = s.misuse /\ t.impl = Put(s.impl, i, x)
    /\ t.refused = s.refused \/ t.refused = TRUE
    /\ x.dangling => t.refused = TRUE

LEMMA BlobRemade ==
  ASSUME NEW s, NEW b \in Names, NEW i, NEW t, NEW x, Remade(s, b, t, i, x)
  PROVE  /\ BlobBut(t, b) /\ t.of = s.of /\ t.said = s.said /\ t.impl[i] = x
         /\ ~ x.dangling => Alone(t, b, i)
<1>1. /\ BlobShape(t) /\ t.threw \in BOOLEAN /\ ImplGood(x)
      /\ t.of = s.of /\ t.said = s.said /\ t.misuse = s.misuse /\ t.impl = Put(s.impl, i, x)
      /\ t.refused = s.refused \/ t.refused = TRUE
      /\ x.dangling => t.refused = TRUE
  BY DEF Remade
<1>1a. Alone(s, b, i)
  BY DEF Remade
<1>2. BlobBut(s, b) /\ i \in Shared!Impls /\ s.of[b] = i
      /\ (\A c \in Names : c # b => s.of[c] # i) /\ On(s.impl, Shared!Impls)
  BY <1>1a DEF Alone, BlobBut, BlobCore
<1>3. /\ On(t.impl, Shared!Impls) /\ t.impl[i] = x
      /\ \A j \in Shared!Impls : j # i => t.impl[j] = s.impl[j]
  BY <1>1, <1>2, PutAt
<1>4. Blamed(t) /\ t.refused \in BOOLEAN
  BY <1>1, <1>2 DEF Blamed, BlobBut, BlobCore
<1>5. ASSUME NEW j \in Shared!Impls
      PROVE  ImplGood(t.impl[j]) /\ (t.impl[j].dangling => t.refused = TRUE)
  <2>1. CASE j = i
    BY <1>1, <1>3, <2>1
  <2>2. CASE j # i
    BY <1>1, <1>2, <1>3, <2>2 DEF BlobBut, BlobCore
  <2>. QED
    BY <2>1, <2>2
<1>6. ASSUME NEW c \in Names, c # b
      PROVE  Telling(t, c)
  <2>1. Telling(s, c) /\ (s.of[c] = 0 \/ s.of[c] \in Shared!Impls) /\ s.of[c] # i
    BY <1>2, <1>6 DEF BlobBut, BlobCore
  <2>2. s.of[c] # 0 => t.impl[s.of[c]] = s.impl[s.of[c]]
    BY <1>3, <2>1
  <2>. QED
    BY <1>1, <2>1, <2>2 DEF Telling
<1>7. BlobBut(t, b)
  BY <1>1, <1>2, <1>3, <1>4, <1>5, <1>6 DEF BlobBut, BlobCore
<1>. QED
  BY <1>1, <1>2, <1>3, <1>7 DEF Alone


\* The instance has new memory, which it has not been told.
Emptied(s, t, i, x, size) ==
    /\ BlobShape(t) /\ t.threw \in BOOLEAN
    /\ t.of = s.of /\ t.said = s.said /\ t.misuse = s.misuse
    /\ t.impl = Put(s.impl, i, x) /\ t.refused = s.refused
    /\ ImplShape(x) /\ x.memory \in Seq(Nat) /\ Len(x.memory) = size
    /\ x.dangling \in BOOLEAN /\ ~ x.dangling

\* The old memory is released before the new one is there.
LEMMA BlobRenewed ==
  ASSUME NEW s, NEW b \in Names, NEW i, Alone(s, b, i), ~ s.threw, NEW size \in Nat
  PROVE  LET t == Shared!Renewed(s, i, size)
         IN \E x : \/ t.threw /\ Remade(s, b, t, i, x)
                   \/ ~ t.threw /\ Emptied(s, t, i, x, size)
<1> SUFFICES ASSUME NEW t, t = Shared!Renewed(s, i, size)
             PROVE  \E x : \/ t.threw /\ Remade(s, b, t, i, x)
                           \/ ~ t.threw /\ Emptied(s, t, i, x, size)
  OBVIOUS
<1> DEFINE c == Shared!Call(s, TRUE)
           had == c.impl[i].memory # << >>
           zeros == [n \in 1..size |-> 0]
<1>0. /\ BlobShape(s) /\ i \in Shared!Impls /\ On(s.impl, Shared!Impls)
      /\ ~ s.impl[i].dangling /\ ImplGood(s.impl[i]) /\ s.threw \in BOOLEAN
  BY DEF Alone, BlobBut, BlobCore
<1>1. BlobShape(c) /\ c.threw \in BOOLEAN /\ Alike(s, c)
  BY <1>0, BlobCall
<1>2. t = IF c.threw THEN [c EXCEPT !.impl[i].dangling = had, !.refused = @ \/ had]
          ELSE [c EXCEPT !.impl[i].memory = zeros, !.impl[i].dangling = FALSE]
  BY <1>0 DEF Shared!Renewed, Shared!NewByte
<1>3. had \in BOOLEAN /\ zeros \in Seq(Nat) /\ Len(zeros) = size
  <2>1. zeros \in [1..size -> Nat]
    OBVIOUS
  <2> HIDE DEF zeros
  <2>2. zeros \in Seq(Nat) /\ Len(zeros) = size
    BY <2>1
  <2>. QED
    BY <2>2
<1> HIDE DEF c, had, zeros
<1>4. c.impl = s.impl /\ c.of = s.of /\ c.said = s.said /\ c.misuse = s.misuse
      /\ c.refused = s.refused
  BY <1>1 DEF Alike
<1>5. CASE c.threw
  <2> DEFINE x == Lost2(s.impl[i], had)
  <2>1. t = [c EXCEPT !.impl = Put(c.impl, i, Lost2(c.impl[i], had)), !.refused = c.refused \/ had]
    BY <1>1, <1>2, <1>5 DEF BlobShape, Put, Lost2
  <2>2. /\ BlobShape(t) /\ t.threw = c.threw /\ t.of = c.of /\ t.said = c.said
        /\ t.misuse = c.misuse /\ t.impl = Put(c.impl, i, Lost2(c.impl[i], had))
        /\ t.refused = (c.refused \/ had)
    BY <1>1, <2>1 DEF BlobShape
  <2>3. ImplShape(x) /\ x.size = s.impl[i].size /\ x.memory = s.impl[i].memory /\ x.dangling = had
    BY <1>0, ImplLost DEF ImplGood
  <2>4. t.impl = Put(s.impl, i, x)
    BY <1>4, <2>2
  <2> HIDE DEF x
  <2>5. ImplGood(x)
    BY <1>0, <1>3, <2>3 DEF ImplGood
  <2>6. s.refused \in BOOLEAN
    BY DEF Alone, BlobBut, BlobCore
  <2>7. t.refused = s.refused \/ t.refused = TRUE
    BY <1>3, <1>4, <2>2, <2>6
  <2>8. x.dangling => t.refused = TRUE
    BY <1>3, <1>4, <2>2, <2>3, <2>6
  <2>9. t.threw /\ t.threw \in BOOLEAN
    BY <1>1, <1>5, <2>2
  <2>10. t.of = s.of /\ t.said = s.said /\ t.misuse = s.misuse /\ BlobShape(t)
    BY <1>4, <2>2
  <2>11. Remade(s, b, t, i, x)
    BY <2>4, <2>5, <2>7, <2>8, <2>9, <2>10 DEF Remade
  <2>. QED
    BY <2>9, <2>11
<1>6. CASE ~ c.threw
  <2> DEFINE y == Having(s.impl[i], zeros)
             no == FALSE
             x == Lost2(y, no)
  <2>1. t = [c EXCEPT !.impl = Put(c.impl, i, Lost2(Having(c.impl[i], zeros), FALSE))]
    BY <1>0, <1>1, <1>2, <1>4, <1>6 DEF BlobShape, Put, Lost2, Having, On
  <2>2. /\ BlobShape(t) /\ t.threw = c.threw /\ t.of = c.of /\ t.said = c.said
        /\ t.misuse = c.misuse /\ t.impl = Put(c.impl, i, Lost2(Having(c.impl[i], zeros), FALSE))
        /\ t.refused = c.refused
    BY <1>1, <2>1 DEF BlobShape
  <2>4. t.impl = Put(s.impl, i, x)
    BY <1>4, <2>2
  <2>3a. ImplShape(y) /\ y.memory = zeros /\ y.size = s.impl[i].size
    BY <1>0, ImplHaving DEF ImplGood
  <2>3b. no \in BOOLEAN /\ ~ no
    OBVIOUS
  <2> HIDE DEF y, no
  <2>3. ImplShape(x) /\ x.size = y.size /\ x.memory = y.memory /\ x.dangling = no
    BY <2>3a, ImplLost
  <2> HIDE DEF x
  <2>5. ~ t.threw /\ t.threw \in BOOLEAN
    BY <1>1, <1>6, <2>2
  <2>6. t.of = s.of /\ t.said = s.said /\ t.misuse = s.misuse /\ t.refused = s.refused /\ BlobShape(t)
    BY <1>4, <2>2
  <2>7. x.memory \in Seq(Nat) /\ Len(x.memory) = size
    BY <1>3, <2>3, <2>3a
  <2>8. x.dangling \in BOOLEAN /\ ~ x.dangling /\ ImplShape(x)
    BY <2>3, <2>3b
  <2>9. Emptied(s, t, i, x, size)
    BY <2>4, <2>5, <2>6, <2>7, <2>8 DEF Emptied
  <2>. QED
    BY <2>5, <2>9
<1>. QED
  BY <1>5, <1>6

\* The instance of that blob has room for so many bytes, and says so.
Roomy(s, b, i, size) ==
    Alone(s, b, i) /\ s.impl[i].size = size /\ size <= Len(s.impl[i].memory)

Resized(s, b, i, size, t, x, u) ==
    /\ Alone(s, b, i) /\ BlobShape(t) /\ t.threw \in BOOLEAN /\ ~ t.threw
    /\ t.of = s.of /\ t.said = s.said /\ t.misuse = s.misuse /\ t.refused = s.refused
    /\ t.impl = Put(s.impl, i, x) /\ ImplShape(x) /\ x.memory \in Seq(Nat)
    /\ x.dangling \in BOOLEAN /\ ~ x.dangling /\ size <= Len(x.memory)
    /\ u = [t EXCEPT !.impl = Put(t.impl, i, Sized(t.impl[i], size))]
LEMMA BlobSized ==
  ASSUME NEW s, NEW b \in Names, NEW i, NEW size \in Nat, NEW t, NEW x, NEW u,
         Resized(s, b, i, size, t, x, u)
  PROVE  /\ BlobBut(u, b) /\ u.of = s.of /\ u.said = s.said /\ ~ u.threw
         /\ Roomy(u, b, i, size)
<1> DEFINE y == Sized(x, size)
<1>a. /\ Alone(s, b, i) /\ BlobShape(t) /\ t.threw \in BOOLEAN /\ ~ t.threw
      /\ t.of = s.of /\ t.said = s.said /\ t.misuse = s.misuse /\ t.refused = s.refused
      /\ t.impl = Put(s.impl, i, x) /\ ImplShape(x) /\ x.memory \in Seq(Nat)
      /\ x.dangling \in BOOLEAN /\ ~ x.dangling /\ size <= Len(x.memory)
  BY DEF Resized
<1>b. u = [t EXCEPT !.impl = Put(t.impl, i, Sized(t.impl[i], size))]
  BY DEF Resized
<1>0. i \in Shared!Impls /\ On(s.impl, Shared!Impls)
  BY <1>a DEF Alone, BlobBut, BlobCore
<1>1. ImplShape(y) /\ y.size = size /\ y.memory = x.memory /\ y.dangling = x.dangling
  BY <1>a, ImplSized
<1>2. t.impl[i] = x
  BY <1>0, <1>a, PutAt
<1>3. Put(t.impl, i, y) = Put(s.impl, i, y)
  BY <1>0, <1>a, PutPut
<1>4. /\ BlobShape(u) /\ u.impl = Put(t.impl, i, Sized(t.impl[i], size)) /\ u.threw = t.threw
      /\ u.of = t.of /\ u.said = t.said /\ u.misuse = t.misuse /\ u.refused = t.refused
  BY <1>a, <1>b DEF BlobShape
<1>5. u.impl = Put(s.impl, i, y)
  BY <1>2, <1>3, <1>4
<1> HIDE DEF y
<1>6a. y.memory \in Seq(Nat) /\ y.size <= Len(y.memory)
  BY <1>1, <1>a
<1>6b. y.size \in Nat
  BY <1>1
<1>6c. y.dangling \in BOOLEAN /\ ~ y.dangling
  BY <1>1, <1>a
<1>6. ImplGood(y)
  BY <1>1, <1>6a, <1>6b, <1>6c DEF ImplGood
<1>7. Remade(s, b, u, i, y)
  BY <1>4, <1>5, <1>6, <1>6c, <1>a DEF Remade
<1>8. /\ BlobBut(u, b) /\ u.of = s.of /\ u.said = s.said /\ u.impl[i] = y
      /\ Alone(u, b, i)
  BY <1>a, <1>6c, <1>7, BlobRemade
<1>. QED
  BY <1>a, <1>1, <1>4, <1>6a, <1>8 DEF Roomy

LEMMA BlobReserve ==
  ASSUME NEW s, NEW b \in Names, NEW i, Alone(s, b, i), ~ s.threw, NEW size \in Nat,
         NEW shrink \in BOOLEAN
  PROVE  LET t == Shared!Reserve(s, i, size, shrink)
         IN /\ BlobBut(t, b) /\ t.of = s.of /\ t.said = s.said
            /\ ~ t.threw => Roomy(t, b, i, size)
<1> SUFFICES ASSUME NEW t, t = Shared!Reserve(s, i, size, shrink)
             PROVE  /\ BlobBut(t, b) /\ t.of = s.of /\ t.said = s.said
                    /\ ~ t.threw => Roomy(t, b, i, size)
  OBVIOUS
<1>0. /\ BlobShape(s) /\ i \in Shared!Impls /\ On(s.impl, Shared!Impls)
      /\ ~ s.impl[i].dangling /\ ImplGood(s.impl[i]) /\ BlobBut(s, b)
      /\ s.threw \in BOOLEAN
  BY DEF Alone, BlobBut, BlobCore
<1>1. CASE size = 0 /\ shrink
  <2> DEFINE x == Shared!NoImpl
  <2>1. t = [s EXCEPT !.impl = Put(s.impl, i, x)]
    BY <1>0, <1>1 DEF Shared!Reserve, Put, BlobShape
  <2>2. ImplGood(x) /\ ~ x.dangling /\ x.size = 0 /\ x.memory = << >>
    BY BlobNone
  <2> HIDE DEF x
  <2>3. /\ BlobShape(t) /\ t.impl = Put(s.impl, i, x) /\ t.threw = s.threw
        /\ t.of = s.of /\ t.said = s.said /\ t.misuse = s.misuse /\ t.refused = s.refused
    BY <1>0, <2>1 DEF BlobShape
  <2>4. Remade(s, b, t, i, x)
    BY <1>0, <2>2, <2>3 DEF Remade
  <2>5. /\ BlobBut(t, b) /\ t.of = s.of /\ t.said = s.said /\ t.impl[i] = x
        /\ Alone(t, b, i)
    BY <2>2, <2>4, BlobRemade
  <2>6. x.size <= Len(x.memory)
    BY <2>2 DEF ImplGood
  <2>. QED
    BY <1>1, <2>2, <2>5, <2>6 DEF Roomy
<1>2. CASE ~ (size = 0 /\ shrink)
  <2> DEFINE renew == (shrink /\ size # s.impl[i].size) \/ size > s.impl[i].size
             r == IF renew THEN Shared!Renewed(s, i, size) ELSE s
  <2>1. t = IF r.threw THEN r ELSE [r EXCEPT !.impl[i].size = size]
    BY <1>2 DEF Shared!Reserve, Shared!Then
  <2>2. CASE renew
    <3>1. r = Shared!Renewed(s, i, size)
      BY <2>2
    <3> HIDE DEF r, renew
    <3>2. PICK x : \/ r.threw /\ Remade(s, b, r, i, x)
                   \/ ~ r.threw /\ Emptied(s, r, i, x, size)
      BY <3>1, BlobRenewed
    <3>3. CASE r.threw /\ Remade(s, b, r, i, x)
      <4>1. BlobBut(r, b) /\ r.of = s.of /\ r.said = s.said
        BY <3>3, BlobRemade
      <4>. QED
        BY <2>1, <3>3, <4>1
    <3>4. CASE ~ r.threw /\ Emptied(s, r, i, x, size)
      <4>1. /\ BlobShape(r) /\ r.threw \in BOOLEAN /\ r.of = s.of /\ r.said = s.said /\ r.misuse = s.misuse
            /\ r.impl = Put(s.impl, i, x) /\ r.refused = s.refused
            /\ ImplShape(x) /\ x.memory \in Seq(Nat) /\ Len(x.memory) = size
            /\ x.dangling \in BOOLEAN /\ ~ x.dangling
        BY <3>4 DEF Emptied
      <4>2. t = [r EXCEPT !.impl = Put(r.impl, i, Sized(r.impl[i], size))]
        BY <2>1, <3>4, <4>1 DEF Put, Sized, BlobShape
      <4>3. size <= Len(x.memory)
        BY <4>1
      <4>. QED
        <5>1. Resized(s, b, i, size, r, x, t)
          BY <3>4, <4>1, <4>2, <4>3 DEF Resized
        <5>. QED
          BY <3>4, <4>1, <5>1, BlobSized
    <3>. QED
      BY <3>2, <3>3, <3>4
  <2>3. CASE ~ renew
    <3>1. r = s /\ size <= s.impl[i].size
      BY <1>0, <2>3 DEF ImplGood
    <3> HIDE DEF r, renew
    <3> DEFINE x == s.impl[i]
    <3>2. s.impl = Put(s.impl, i, x)
      BY <1>0 DEF On, Put
    <3>3. t = [s EXCEPT !.impl = Put(s.impl, i, Sized(s.impl[i], size))]
      BY <1>0, <2>1, <3>1 DEF Put, Sized, BlobShape
    <3>4. ImplShape(x) /\ x.memory \in Seq(Nat) /\ x.dangling \in BOOLEAN /\ ~ x.dangling /\ x.size <= Len(x.memory)
          /\ x.size \in Nat
      BY <1>0 DEF ImplGood
    <3>5. size <= Len(x.memory)
      BY <3>1, <3>4
    <3> HIDE DEF x
    <3>. QED
      <4>1. Resized(s, b, i, size, s, x, t)
        BY <1>0, <3>2, <3>3, <3>4, <3>5 DEF Resized
      <4>. QED
        BY <4>1, BlobSized
  <2>. QED
    BY <2>2, <2>3
<1>. QED
  BY <1>1, <1>2

\* memcpy into the memory that was reserved.
LEMMA BlobWritten ==
  ASSUME NEW s, NEW b \in Names, NEW i, NEW data \in Seq(Nat), Roomy(s, b, i, Len(data)),
         ~ s.threw
  PROVE  LET t == Shared!Written(s, i, data)
         IN /\ BlobBut(t, b) /\ t.of = s.of /\ t.said = s.said /\ ~ t.threw
            /\ Alone(t, b, i) /\ Bytes(t.impl[i]) = data
<1> SUFFICES ASSUME NEW t, t = Shared!Written(s, i, data)
             PROVE  /\ BlobBut(t, b) /\ t.of = s.of /\ t.said = s.said /\ ~ t.threw
                    /\ Alone(t, b, i) /\ Bytes(t.impl[i]) = data
  OBVIOUS
<1>0. /\ BlobShape(s) /\ i \in Shared!Impls /\ On(s.impl, Shared!Impls)
      /\ ~ s.impl[i].dangling /\ ImplGood(s.impl[i]) /\ Alone(s, b, i)
      /\ s.threw \in BOOLEAN
      /\ s.impl[i].size = Len(data) /\ Len(data) <= Len(s.impl[i].memory)
  BY DEF Roomy, Alone, BlobBut, BlobCore
<1> DEFINE m == s.impl[i].memory
           all == data \o SubSeq(m, Len(data) + 1, Len(m))
           x == Having(s.impl[i], all)
<1>1. t = [s EXCEPT !.impl = Put(s.impl, i, x)]
  <2>1. s.impl[i].memory \in Seq(Nat)
    BY <1>0 DEF ImplGood
  <2>2. ~ (Len(data) > Len(s.impl[i].memory))
    BY <1>0, <2>1
  <2>. QED
    BY <1>0, <2>2 DEF Shared!Written, Put, Having, BlobShape
<1>2. all \in Seq(Nat) /\ Len(all) = Len(m) /\ SubSeq(all, 1, Len(data)) = data
  <2>1. m \in Seq(Nat) /\ Len(data) <= Len(m)
    BY <1>0 DEF ImplGood
  <2> HIDE DEF m
  <2>. QED
    BY <2>1
<1> HIDE DEF all
<1>3. ImplShape(x) /\ x.size = s.impl[i].size /\ x.memory = all /\ x.dangling = s.impl[i].dangling
  BY <1>0, ImplHaving DEF ImplGood
<1> HIDE DEF x
<1>4a. x.memory \in Seq(Nat) /\ x.size <= Len(x.memory)
  BY <1>0, <1>2, <1>3
<1>4b. x.size \in Nat
  BY <1>0, <1>3 DEF ImplGood
<1>4c. x.dangling \in BOOLEAN /\ ~ x.dangling
  BY <1>0, <1>3 DEF ImplGood
<1>4. ImplGood(x)
  BY <1>3, <1>4a, <1>4b, <1>4c DEF ImplGood
<1>5. /\ BlobShape(t) /\ t.impl = Put(s.impl, i, x) /\ t.threw = s.threw
      /\ t.of = s.of /\ t.said = s.said /\ t.misuse = s.misuse /\ t.refused = s.refused
  BY <1>0, <1>1 DEF BlobShape
<1>6. Remade(s, b, t, i, x)
  BY <1>0, <1>4, <1>4c, <1>5 DEF Remade
<1>7. BlobBut(t, b) /\ t.of = s.of /\ t.said = s.said /\ t.impl[i] = x /\ Alone(t, b, i)
  BY <1>0, <1>4c, <1>6, BlobRemade
<1>8. Bytes(x) = data
  BY <1>0, <1>2, <1>3 DEF Bytes
<1>. QED
  BY <1>5, <1>7, <1>8


LEMMA SharedData ==
  ASSUME NEW s, NEW b
  PROVE  Shared!Data(s, b) = IF s.of[b] = 0 THEN << >> ELSE Bytes(s.impl[s.of[b]])
BY DEF Shared!Data, Shared!EmptyInstance, Bytes

\* New data of its own for a blob.
LEMMA BlobNew ==
  ASSUME NEW s, NEW b \in Names, BlobBut(s, b), ~ s.threw
  PROVE  LET t == Shared!New(s, b)
         IN /\ BlobBut(t, b) /\ t.said = s.said
            /\ t.threw => t.of = s.of
            /\ ~ t.threw => Alone(t, b, t.of[b])
<1> SUFFICES ASSUME NEW t, t = Shared!New(s, b)
             PROVE  /\ BlobBut(t, b) /\ t.said = s.said
                    /\ t.threw => t.of = s.of
                    /\ ~ t.threw => Alone(t, b, t.of[b])
  OBVIOUS
<1> DEFINE c == Shared!Call(s, TRUE)
           i == CHOOSE j \in Shared!Impls : Shared!Users(s, j) = {}
           none == Shared!NoImpl
<1>0. BlobShape(s) /\ s.threw \in BOOLEAN /\ On(s.of, Names) /\ On(s.impl, Shared!Impls)
      /\ BlobCore(s)
  BY DEF BlobBut, BlobCore
<1>1. BlobShape(c) /\ c.threw \in BOOLEAN /\ Alike(s, c)
  BY <1>0, BlobCall
<1>2. t = IF c.threw THEN c ELSE [c EXCEPT !.of[b] = i, !.impl[i] = none]
  BY DEF Shared!New, Shared!Then
<1>3. i \in Shared!Impls /\ \A d \in Names : s.of[d] # i
  <2>1. \E j \in Shared!Impls : \A d \in Names : s.of[d] # j
    BY <1>0, BlobRoom
  <2>2. \E j \in Shared!Impls : Shared!Users(s, j) = {}
    BY <2>1 DEF Shared!Users
  <2>3. i \in Shared!Impls /\ Shared!Users(s, i) = {}
    BY <2>2
  <2>. QED
    BY <2>3 DEF Shared!Users
<1>4. ImplGood(none) /\ ~ none.dangling
  BY BlobNone
<1> HIDE DEF c, i, none
<1>5. c.of = s.of /\ c.impl = s.impl /\ c.said = s.said /\ c.misuse = s.misuse /\ c.refused = s.refused
  BY <1>1 DEF Alike
<1>6. CASE c.threw
  <2>1. BlobBut(c, b)
    BY <1>1, BlobAlike
  <2>. QED
    BY <1>2, <1>5, <1>6, <2>1
<1>7. CASE ~ c.threw
  <2>1. t = [c EXCEPT !.of = Put(c.of, b, i), !.impl = Put(c.impl, i, none)]
    BY <1>1, <1>2, <1>7 DEF BlobShape, Put
  <2>2. /\ BlobShape(t) /\ t.threw = c.threw /\ t.said = c.said /\ t.misuse = c.misuse
        /\ t.refused = c.refused /\ t.of = Put(c.of, b, i) /\ t.impl = Put(c.impl, i, none)
    BY <1>1, <2>1 DEF BlobShape
  <2>3. /\ On(t.of, Names) /\ t.of[b] = i /\ \A d \in Names : d # b => t.of[d] = s.of[d]
    BY <1>0, <1>5, <2>2, PutAt
  <2>4. /\ On(t.impl, Shared!Impls) /\ t.impl[i] = none
        /\ \A j \in Shared!Impls : j # i => t.impl[j] = s.impl[j]
    BY <1>0, <1>3, <1>5, <2>2, PutAt
  <2>5. \A d \in Names : t.of[d] = 0 \/ t.of[d] \in Shared!Impls
    BY <1>0, <1>3, <2>3 DEF BlobCore
  <2>6. ASSUME NEW j \in Shared!Impls
        PROVE  ImplGood(t.impl[j]) /\ (t.impl[j].dangling => t.refused = TRUE)
    <3>1. CASE j = i
      BY <1>4, <2>4, <3>1
    <3>2. CASE j # i
      BY <1>0, <1>5, <2>2, <2>4, <3>2 DEF BlobCore
    <3>. QED
      BY <3>1, <3>2
  <2>7. On(t.said, Names) /\ t.refused \in BOOLEAN /\ Blamed(t) /\ t.threw \in BOOLEAN /\ BlobShape(t)
    BY <1>0, <1>1, <1>5, <2>2 DEF BlobCore, Blamed
  <2>8. BlobCore(t)
    BY <2>3, <2>4, <2>5, <2>6, <2>7 DEF BlobCore
  <2>9. ASSUME NEW d \in Names, d # b
        PROVE  Telling(t, d)
    <3>1. Telling(s, d) /\ t.of[d] = s.of[d] /\ t.said = s.said
          /\ (s.of[d] = 0 \/ s.of[d] \in Shared!Impls) /\ s.of[d] # i
      BY <1>0, <1>3, <1>5, <2>2, <2>3, <2>9 DEF BlobBut, BlobCore
    <3>2. s.of[d] # 0 => t.impl[s.of[d]] = s.impl[s.of[d]]
      BY <2>4, <3>1
    <3>. QED
      BY <3>1, <3>2 DEF Telling
  <2>10. BlobBut(t, b)
    BY <2>8, <2>9 DEF BlobBut
  <2>11. Alone(t, b, i)
    BY <1>3, <1>4, <2>3, <2>4, <2>10 DEF Alone
  <2>. QED
    BY <1>5, <1>7, <2>2, <2>3, <2>10, <2>11
<1>. QED
  BY <1>6, <1>7

\* A blob gets data of its own unless it is the only one to refer to them.
BlobSane(s, b) == s.of[b] # 0 => ~ s.impl[s.of[b]].dangling
LEMMA BlobOwn ==
  ASSUME NEW s, NEW b \in Names, BlobBut(s, b), ~ s.threw, BlobSane(s, b)
  PROVE  LET t == Shared!Own(s, b)
         IN /\ BlobBut(t, b) /\ t.said = s.said
            /\ ~ t.threw => Alone(t, b, t.of[b])
<1> DEFINE t == Shared!Own(s, b)
<1>1. CASE s.of[b] # 0 /\ Shared!Users(s, s.of[b]) = {b}
  <2>1. t = s
    BY <1>1 DEF Shared!Own, Shared!EmptyInstance
  <2>2. \A c \in Names : c # b => s.of[c] # s.of[b]
    BY <1>1 DEF Shared!Users
  <2>3. s.of[b] \in Shared!Impls
    BY <1>1 DEF BlobBut, BlobCore
  <2>4. Alone(s, b, s.of[b])
    BY <1>1, <2>2, <2>3 DEF Alone, BlobSane
  <2> HIDE DEF t
  <2>. QED
    BY <2>1, <2>4 DEF t
<1>2. CASE ~ (s.of[b] # 0 /\ Shared!Users(s, s.of[b]) = {b})
  <2>1. t = Shared!New(s, b)
    BY <1>2 DEF Shared!Own, Shared!EmptyInstance
  <2> HIDE DEF t
  <2>. QED
    BY <2>1, BlobNew DEF t
<1>. QED
  BY <1>1, <1>2

\* What nobody refers to is destroyed: no blob notices.
LEMMA BlobCollected ==
  ASSUME NEW s, BlobCore(s)
  PROVE  LET t == Shared!Collected(s)
         IN /\ BlobCore(t) /\ t.of = s.of /\ t.said = s.said /\ t.threw = s.threw
            /\ \A c \in Names : Telling(s, c) => Telling(t, c)
            /\ \A c \in Names : s.of[c] # 0 => t.impl[s.of[c]] = s.impl[s.of[c]]
            /\ Used(t)
<1> SUFFICES ASSUME NEW t, t = Shared!Collected(s)
             PROVE  /\ BlobCore(t) /\ t.of = s.of /\ t.said = s.said /\ t.threw = s.threw
                    /\ \A c \in Names : Telling(s, c) => Telling(t, c)
                    /\ \A c \in Names : s.of[c] # 0 => t.impl[s.of[c]] = s.impl[s.of[c]]
                    /\ Used(t)
  OBVIOUS
<1> DEFINE gone == {i \in Shared!Impls : Shared!Users(s, i) = {} /\ s.impl[i] # Shared!NoImpl}
           twice == \E i \in gone : s.impl[i].dangling
           blame == s.misuse \cup {"freed twice"}
           left == [i \in Shared!Impls |-> IF i \in gone THEN Shared!NoImpl ELSE s.impl[i]]
<1>0. BlobShape(s) /\ s.refused \in BOOLEAN /\ s.threw \in BOOLEAN
  BY DEF BlobCore
<1>1. t = IF twice THEN [s EXCEPT !.misuse = blame, !.impl = left] ELSE [s EXCEPT !.impl = left]
  BY <1>0 DEF Shared!Collected, Shared!Misuse, BlobShape
<1>2. /\ BlobShape(t) /\ t.of = s.of /\ t.said = s.said /\ t.threw = s.threw
      /\ t.refused = s.refused /\ t.impl = left
      /\ t.misuse = IF twice THEN blame ELSE s.misuse
  <2> HIDE DEF twice, blame, left
  <2>. QED
    BY <1>0, <1>1 DEF BlobShape
<1>3. twice => s.refused = TRUE
  BY DEF BlobCore
<1>4. Blamed(t)
  <2>1. CASE twice
    BY <1>2, <1>3, <2>1 DEF BlobCore, Blamed
  <2>2. CASE ~ twice
    <3> HIDE DEF twice, blame
    <3>. QED
      BY <1>2, <2>2 DEF BlobCore, Blamed
  <2>. QED
    BY <2>1, <2>2
<1>5. /\ On(t.impl, Shared!Impls)
      /\ \A i \in Shared!Impls : t.impl[i] = IF i \in gone THEN Shared!NoImpl ELSE s.impl[i]
  BY <1>2 DEF On
<1>6. \A i \in Shared!Impls : i \in gone <=> (\A c \in Names : s.of[c] # i) /\ s.impl[i] # Shared!NoImpl
  BY DEF Shared!Users
<1> HIDE DEF gone, twice, blame, left
<1>7. \A i \in Shared!Impls : ImplGood(t.impl[i]) /\ (t.impl[i].dangling => t.refused = TRUE)
  BY <1>2, <1>5, BlobNone DEF BlobCore
<1>8. BlobCore(t)
  BY <1>0, <1>2, <1>4, <1>5, <1>7 DEF BlobCore
<1>9. \A c \in Names : s.of[c] # 0 => t.impl[s.of[c]] = s.impl[s.of[c]]
  BY <1>5, <1>6 DEF BlobCore
<1>10. \A c \in Names : Telling(s, c) => Telling(t, c)
  BY <1>2, <1>9 DEF Telling
<1>11. Used(t)
  BY <1>2, <1>5, <1>6 DEF Used
<1>. QED
  BY <1>2, <1>8, <1>9, <1>10, <1>11

LEMMA BlobEnds ==
  ASSUME NEW u, BlobKept(u), Shared!Ends(u)
  PROVE  BlobGood(sys')
<1> DEFINE c == Shared!Collected(u)
<1>1. sys' = [c EXCEPT !.failing = 0, !.calls = 0, !.threw = FALSE]
  BY DEF Shared!Ends, Shared!Finished
<1>2. /\ BlobCore(c) /\ (\A d \in Names : Telling(u, d) => Telling(c, d)) /\ Used(c)
  BY BlobCollected DEF BlobKept
<1> HIDE DEF c
<1>3. BlobKept(c)
  BY <1>2 DEF BlobKept
<1>4. BlobShape(sys') /\ sys'.threw = FALSE /\ Alike(c, sys')
  BY <1>1, <1>2 DEF BlobCore, BlobShape, Alike
<1>5. sys'.threw \in BOOLEAN /\ ~ sys'.threw
  BY <1>4
<1>6. BlobKept(sys')
  BY <1>3, <1>4, <1>5, BlobAlike
<1>7. Used(sys')
  BY <1>2, <1>4 DEF Used, Alike
<1>. QED
  BY <1>5, <1>6, <1>7 DEF BlobGood


\* The blob that a call is about has these data, unless the call failed.
Filled(s, b, data) ==
    /\ BlobBut(s, b)
    /\ ~ s.threw => s.of[b] # 0 /\ Bytes(s.impl[s.of[b]]) = data

\* i is an implementation object, or none, that holds v.
Holder(s, i, v) ==
    /\ i = 0 \/ i \in Shared!Impls
    /\ i = 0 => v = << >>
    /\ i # 0 /\ ~ s.impl[i].dangling => Bytes(s.impl[i]) = v

\* t is s, except that b refers to i and is told v.
Retold(s, t, b, i, v) ==
    /\ BlobShape(t)
    /\ t.threw = s.threw /\ t.impl = s.impl
    /\ t.misuse = s.misuse /\ t.refused = s.refused
    /\ t.of = Put(s.of, b, i) /\ t.said = Put(s.said, b, v)

\* The values of one name changed.
LEMMA BlobTold ==
  ASSUME NEW s, NEW b \in Names, BlobBut(s, b), NEW t, NEW i, NEW v,
         Retold(s, t, b, i, v), Holder(s, i, v)
  PROVE  BlobKept(t)
<1>0. /\ BlobShape(t) /\ t.threw = s.threw /\ t.impl = s.impl /\ t.misuse = s.misuse
      /\ t.refused = s.refused /\ t.of = Put(s.of, b, i) /\ t.said = Put(s.said, b, v)
  BY DEF Retold
<1>0a. /\ i = 0 \/ i \in Shared!Impls
       /\ i = 0 => v = << >>
       /\ i # 0 /\ ~ s.impl[i].dangling => Bytes(s.impl[i]) = v
  BY DEF Holder
<1>1. /\ On(t.of, Names) /\ t.of[b] = i /\ \A c \in Names : c # b => t.of[c] = s.of[c]
  BY <1>0, PutAt DEF BlobBut, BlobCore
<1>2. /\ On(t.said, Names) /\ t.said[b] = v /\ \A c \in Names : c # b => t.said[c] = s.said[c]
  BY <1>0, PutAt DEF BlobBut, BlobCore
<1>3. BlobCore(t)
  BY <1>0, <1>0a, <1>1, <1>2 DEF BlobBut, BlobCore, Blamed
<1>4. ASSUME NEW c \in Names PROVE Telling(t, c)
  <2>1. CASE c = b
    BY <1>0, <1>0a, <1>1, <1>2, <2>1 DEF Telling
  <2>2. CASE c # b
    BY <1>0, <1>1, <1>2, <2>2 DEF Telling, BlobBut
  <2>. QED
    BY <2>1, <2>2
<1>. QED
  BY <1>3, <1>4 DEF BlobKept

LEMMA BlobSays ==
  ASSUME NEW s, NEW b \in Names, NEW data, Filled(s, b, data)
  PROVE  BlobKept(Shared!Says(s, b, data))
<1> SUFFICES ASSUME NEW t, t = Shared!Says(s, b, data)
             PROVE  BlobKept(t)
  OBVIOUS
<1> DEFINE v == IF s.threw THEN Shared!Data(s, b) ELSE data
           i == s.of[b]
<1>0. /\ BlobBut(s, b) /\ BlobShape(s) /\ On(s.of, Names) /\ s.threw \in BOOLEAN
      /\ i = 0 \/ i \in Shared!Impls
      /\ ~ s.threw => i # 0 /\ Bytes(s.impl[i]) = data
  BY DEF Filled, BlobBut, BlobCore
<1>1. t = [s EXCEPT !.said = Put(s.said, b, v)]
  BY <1>0 DEF Shared!Says, Put, BlobShape
<1>2. /\ i = 0 => v = << >>
      /\ i # 0 => Bytes(s.impl[i]) = v
  BY <1>0, SharedData
<1> HIDE DEF v
<1>3. /\ BlobShape(t) /\ t.threw = s.threw /\ t.impl = s.impl /\ t.misuse = s.misuse
      /\ t.refused = s.refused /\ t.of = s.of /\ t.said = Put(s.said, b, v)
  BY <1>0, <1>1 DEF BlobShape
<1>4. s.of = Put(s.of, b, i)
  BY <1>0 DEF On, Put
<1>5. t.of = Put(s.of, b, i)
  BY <1>3, <1>4
<1>6. Retold(s, t, b, i, v)
  BY <1>3, <1>5 DEF Retold
<1>7. Holder(s, i, v)
  BY <1>0, <1>2 DEF Holder
<1> HIDE DEF i
<1>. QED
  BY <1>0, <1>6, <1>7, BlobTold

LEMMA BlobAssignTo ==
  ASSUME NEW s, NEW b \in Names, NEW data \in Seq(Nat), Alone(s, b, s.of[b]), ~ s.threw
  PROVE  LET t == Shared!AssignTo(s, b, data)
         IN Filled(t, b, data) /\ t.of = s.of /\ t.said = s.said
<1> DEFINE i == s.of[b]
           no == FALSE
           r == Shared!Reserve(s, i, Len(data), no)
           w == Shared!Written(r, i, data)
           t == Shared!AssignTo(s, b, data)
<1>1. t = IF r.threw THEN r ELSE w
  BY DEF Shared!AssignTo, Shared!AssignImpl, Shared!Then
<1>2. Alone(s, b, i) /\ no \in BOOLEAN /\ Len(data) \in Nat /\ i \in Shared!Impls /\ 0 \notin Shared!Impls
  BY BlobImpls DEF Alone
<1> HIDE DEF no
<1>2a. s.of[b] = i
  OBVIOUS
<1> HIDE DEF i, t
<1>3. /\ BlobBut(r, b) /\ r.of = s.of /\ r.said = s.said
      /\ ~ r.threw => Roomy(r, b, i, Len(data))
  BY <1>2, BlobReserve
<1> HIDE DEF r
<1>4. CASE r.threw
  BY <1>1, <1>3, <1>4 DEF Filled, t
<1>5. CASE ~ r.threw
  <2>1. /\ BlobBut(w, b) /\ w.of = r.of /\ w.said = r.said /\ ~ w.threw
        /\ Alone(w, b, i) /\ Bytes(w.impl[i]) = data
    BY <1>3, <1>5, BlobWritten
  <2> HIDE DEF w
  <2>2. w.of[b] = i /\ i # 0
    BY <1>2, <1>2a, <1>3, <2>1
  <2>3. t = w
    BY <1>1, <1>5
  <2>. QED
    BY <1>3, <2>1, <2>2, <2>3 DEF Filled, t
<1>. QED
  BY <1>4, <1>5

\* reserve, and the client writes what it reserved.
Entered(s, b, data, shrink) ==
    LET r == Shared!Reserve(s, s.of[b], Len(data), shrink)
    IN IF r.threw \/ data = << >> THEN r ELSE Shared!Written(r, r.of[b], data)
LEMMA BlobEntered ==
  ASSUME NEW s, NEW b \in Names, NEW data \in Seq(Nat), NEW shrink \in BOOLEAN,
         Alone(s, b, s.of[b]), ~ s.threw
  PROVE  Filled(Entered(s, b, data, shrink), b, data)
<1> DEFINE i == s.of[b]
           r == Shared!Reserve(s, i, Len(data), shrink)
           w == Shared!Written(r, r.of[b], data)
           t == Entered(s, b, data, shrink)
<1>1. t = IF r.threw \/ data = << >> THEN r ELSE w
  BY DEF Entered
<1>2. Alone(s, b, i) /\ Len(data) \in Nat /\ i \in Shared!Impls /\ 0 \notin Shared!Impls
  BY BlobImpls DEF Alone
<1>2a. s.of[b] = i
  OBVIOUS
<1> HIDE DEF i, t
<1>3. /\ BlobBut(r, b) /\ r.of = s.of
      /\ ~ r.threw => Roomy(r, b, i, Len(data))
  BY <1>2, BlobReserve
<1> HIDE DEF r
<1>3a. r.of[b] = i /\ i # 0
  BY <1>2, <1>2a, <1>3
<1>4. CASE r.threw
  BY <1>1, <1>3, <1>4 DEF Filled, t
<1>5. CASE ~ r.threw /\ data # << >>
  <2>0. Roomy(r, b, i, Len(data))
    BY <1>3, <1>5
  <2>0a. w = Shared!Written(r, i, data)
    BY <1>3a
  <2> HIDE DEF w
  <2>1. /\ BlobBut(w, b) /\ w.of = r.of /\ ~ w.threw /\ Bytes(w.impl[i]) = data
    BY <2>0, <2>0a, <1>5, BlobWritten
  <2>2. w.of[b] = i
    BY <1>3a, <2>1
  <2>3. t = w
    BY <1>1, <1>5
  <2>. QED
    BY <1>3a, <2>1, <2>2, <2>3 DEF Filled, t
<1>6. CASE ~ r.threw /\ data = << >>
  <2>1. Len(data) = 0
    BY <1>6, EmptySeq
  <2>2. r.impl[i].size = 0
    BY <1>3, <1>6, <2>1 DEF Roomy
  <2>3. Bytes(r.impl[i]) = data
    BY <1>6, <2>2 DEF Bytes
  <2>4. t = r
    BY <1>1, <1>6
  <2>. QED
    BY <1>3, <1>3a, <2>3, <2>4 DEF Filled, t
<1>. QED
  BY <1>4, <1>5, <1>6

LEMMA BlobOwned ==
  ASSUME BlobKept(sys), NEW b \in Names, BlobSane(sys, b), NEW k
  PROVE  LET t == Shared!Own(Shared!Begin(sys, k), b)
         IN BlobBut(t, b) /\ (~ t.threw => Alone(t, b, t.of[b]))
<1> DEFINE s == Shared!Begin(sys, k)
<1>1. BlobKept(s) /\ ~ s.threw /\ Alike(sys, s)
  BY BlobBegin
<1> HIDE DEF s
<1>2. BlobBut(s, b) /\ BlobSane(s, b)
  BY <1>1 DEF BlobKept, BlobBut, BlobSane, Alike
<1>. QED
  BY <1>1, <1>2, BlobOwn DEF s

LEMMA BlobFilled ==
  ASSUME NEW s, NEW b \in Names, NEW data, Filled(s, b, data)
  PROVE  Filled(Shared!Collected(s), b, data)
<1> DEFINE t == Shared!Collected(s)
<1>1. BlobCore(s) /\ \A c \in Names : c # b => Telling(s, c)
  BY DEF Filled, BlobBut
<1>2. /\ BlobCore(t) /\ t.of = s.of /\ t.said = s.said /\ t.threw = s.threw
      /\ \A c \in Names : Telling(s, c) => Telling(t, c)
      /\ \A c \in Names : s.of[c] # 0 => t.impl[s.of[c]] = s.impl[s.of[c]]
  BY <1>1, BlobCollected
<1> HIDE DEF t
<1>. QED
  BY <1>1, <1>2 DEF Filled, BlobBut, t

LEMMA BlobAssign ==
  ASSUME BlobGood(sys), NEW b \in Names, BlobSane(sys, b), NEW k, NEW data \in Seq(Nat),
         Shared!Assign(b, data, k)
  PROVE  BlobGood(sys')
<1> DEFINE t == Shared!Own(Shared!Begin(sys, k), b)
           f == Shared!AssignTo(t, b, data)
           c == Shared!Collected(f)
           u == IF t.threw THEN t ELSE c
<1>1. Shared!Ends(Shared!Says(u, b, data))
  BY DEF Shared!Assign, Shared!Changed, Shared!Then
<1>2. BlobBut(t, b) /\ (~ t.threw => Alone(t, b, t.of[b]))
  BY BlobOwned DEF BlobGood
<1> HIDE DEF t
<1>3. CASE t.threw
  <2>1. Filled(u, b, data)
    BY <1>2, <1>3 DEF Filled
  <2> HIDE DEF u
  <2>. QED
    BY <1>1, <2>1, BlobSays, BlobEnds
<1>4. CASE ~ t.threw
  <2>1. Filled(f, b, data)
    BY <1>2, <1>4, BlobAssignTo
  <2> HIDE DEF f
  <2>2. Filled(c, b, data)
    BY <2>1, BlobFilled
  <2>3. u = c
    BY <1>4
  <2> HIDE DEF u, c
  <2>. QED
    BY <1>1, <2>2, <2>3, BlobSays, BlobEnds
<1>. QED
  BY <1>3, <1>4

LEMMA BlobReserveAndWrite ==
  ASSUME BlobGood(sys), NEW b \in Names, BlobSane(sys, b), NEW k, NEW data \in Seq(Nat),
         NEW shrink \in BOOLEAN, Shared!ReserveAndWrite(b, data, shrink, k)
  PROVE  BlobGood(sys')
<1> DEFINE t == Shared!Own(Shared!Begin(sys, k), b)
           f == Entered(t, b, data, shrink)
           c == Shared!Collected(f)
           u == IF t.threw THEN t ELSE c
<1>1. Shared!Ends(Shared!Says(u, b, data))
  BY DEF Shared!ReserveAndWrite, Shared!Changed, Shared!Then, Entered
<1>2. BlobBut(t, b) /\ (~ t.threw => Alone(t, b, t.of[b]))
  BY BlobOwned DEF BlobGood
<1> HIDE DEF t
<1>3. CASE t.threw
  <2>1. Filled(u, b, data)
    BY <1>2, <1>3 DEF Filled
  <2> HIDE DEF u
  <2>. QED
    BY <1>1, <2>1, BlobSays, BlobEnds
<1>4. CASE ~ t.threw
  <2>1. Filled(f, b, data)
    BY <1>2, <1>4, BlobEntered
  <2> HIDE DEF f
  <2>2. Filled(c, b, data)
    BY <2>1, BlobFilled
  <2>3. u = c
    BY <1>4
  <2> HIDE DEF u, c
  <2>. QED
    BY <1>1, <2>2, <2>3, BlobSays, BlobEnds
<1>. QED
  BY <1>3, <1>4

\* The blob refers to what i is and is told the same.
LEMMA BlobPlaced ==
  ASSUME BlobGood(sys), NEW b \in Names, NEW i, NEW v, NEW t,
         t = [sys EXCEPT !.of = Put(sys.of, b, i), !.said = Put(sys.said, b, v)],
         Holder(sys, i, v)
  PROVE  BlobKept(t)
<1>1. /\ BlobShape(t) /\ t.threw = sys.threw /\ t.impl = sys.impl /\ t.misuse = sys.misuse
      /\ t.refused = sys.refused /\ t.of = Put(sys.of, b, i) /\ t.said = Put(sys.said, b, v)
  BY DEF BlobGood, BlobKept, BlobCore, BlobShape
<1>2. BlobBut(sys, b)
  BY DEF BlobGood, BlobKept, BlobBut
<1>3. Retold(sys, t, b, i, v)
  BY <1>1 DEF Retold
<1>. QED
  BY <1>2, <1>3, BlobTold

LEMMA BlobGone ==
  ASSUME BlobGood(sys), NEW b \in Names
  PROVE  LET t == Shared!Gone(b) IN BlobKept(t) /\ t.of[b] = 0 /\ t.said[b] = << >>
<1> SUFFICES ASSUME NEW t, t = Shared!Gone(b)
             PROVE  BlobKept(t) /\ t.of[b] = 0 /\ t.said[b] = << >>
  OBVIOUS
<1>1. t = [sys EXCEPT !.of = Put(sys.of, b, 0), !.said = Put(sys.said, b, << >>)]
  BY DEF Shared!Gone, Shared!EmptyInstance, Put
<1>2. t.of = Put(sys.of, b, 0) /\ t.said = Put(sys.said, b, << >>)
  BY <1>1 DEF BlobGood, BlobKept, BlobCore, BlobShape
<1>3. t.of[b] = 0 /\ t.said[b] = << >>
  BY <1>2, PutAt DEF BlobGood, BlobKept, BlobCore
<1> DEFINE none == << >>
           i == 0
<1>4. t = [sys EXCEPT !.of = Put(sys.of, b, i), !.said = Put(sys.said, b, none)]
  BY <1>1
<1>5. Holder(sys, i, none)
  BY DEF Holder
<1> HIDE DEF none, i
<1>6. BlobKept(t)
  BY <1>4, <1>5, BlobPlaced
<1>. QED
  BY <1>3, <1>6

LEMMA BlobConstruct ==
  ASSUME BlobGood(sys), NEW b \in Names, NEW k, NEW data \in Seq(Nat),
         Shared!Construct(b, data, k)
  PROVE  BlobGood(sys')
<1> DEFINE g == Shared!Gone(b)
           c == Shared!Collected(g)
           s == Shared!Begin(c, k)
           t == Shared!New(s, b)
           f == Shared!AssignTo(t, b, data)
           u == IF t.threw THEN t ELSE f
           x == [u EXCEPT !.of[b] = Shared!EmptyInstance]
<1>1. Shared!Ends(IF u.threw THEN x ELSE Shared!Says(u, b, data))
  BY DEF Shared!Construct, Shared!Then
<1>2. BlobKept(g) /\ g.said[b] = << >>
  BY BlobGone
<1> HIDE DEF g
<1>3. BlobKept(c) /\ c.said = g.said
  BY <1>2, BlobCollected DEF BlobKept
<1> HIDE DEF c
<1>4. BlobBut(s, b) /\ ~ s.threw /\ s.said = c.said
  BY <1>3, BlobBegin DEF BlobKept, BlobBut, Alike
<1> HIDE DEF s
<1>5. BlobBut(t, b) /\ t.said = s.said /\ (~ t.threw => Alone(t, b, t.of[b]))
  BY <1>4, BlobNew
<1> HIDE DEF t
<1>6. Filled(u, b, data) /\ u.said = t.said
  <2>1. CASE t.threw
    BY <1>5, <2>1 DEF Filled
  <2>2. CASE ~ t.threw
    <3>1. Filled(f, b, data) /\ f.said = t.said
      BY <1>5, <2>2, BlobAssignTo
    <3> HIDE DEF f
    <3>. QED
      BY <2>2, <3>1
  <2>. QED
    BY <2>1, <2>2
<1> HIDE DEF u
<1>7. CASE ~ u.threw
  <2>1. Shared!Ends(Shared!Says(u, b, data))
    BY <1>1, <1>7
  <2>. QED
    BY <1>6, <2>1, BlobSays, BlobEnds
<1>8. CASE u.threw
  <2>1. Shared!Ends(x)
    BY <1>1, <1>8
  <2>2. BlobBut(u, b) /\ BlobShape(u) /\ On(u.said, Names) /\ u.said[b] = << >>
    BY <1>2, <1>3, <1>4, <1>5, <1>6 DEF Filled, BlobBut, BlobCore
  <2>3. x = [u EXCEPT !.of = Put(u.of, b, 0)]
    BY DEF Shared!EmptyInstance, Put
  <2> HIDE DEF x
  <2>4. /\ BlobShape(x) /\ x.threw = u.threw /\ x.impl = u.impl /\ x.misuse = u.misuse
        /\ x.refused = u.refused /\ x.of = Put(u.of, b, 0) /\ x.said = u.said
    BY <2>2, <2>3 DEF BlobShape
  <2>5. u.said = Put(u.said, b, << >>)
    BY <2>2 DEF On, Put
  <2>6. x.said = Put(u.said, b, << >>)
    BY <2>4, <2>5
  <2> DEFINE none == << >>
             i == 0
  <2>7. Retold(u, x, b, i, none)
    BY <2>4, <2>6 DEF Retold
  <2>8. Holder(u, i, none)
    BY DEF Holder
  <2> HIDE DEF none, i
  <2>9. BlobKept(x)
    BY <2>2, <2>7, <2>8, BlobTold
  <2>. QED
    BY <2>1, <2>9, BlobEnds
<1>. QED
  BY <1>7, <1>8

LEMMA BlobCopy ==
  ASSUME BlobGood(sys), NEW b \in Names, NEW c \in Names, Shared!Copy(b, c)
  PROVE  BlobGood(sys')
<1> DEFINE t == [sys EXCEPT !.of[c] = sys.of[b], !.said[c] = sys.said[b]]
           i == sys.of[b]
           v == sys.said[b]
<1>1. Shared!Ends(Shared!Begin(t, 0))
  BY DEF Shared!Copy
<1>2. t = [sys EXCEPT !.of = Put(sys.of, c, i), !.said = Put(sys.said, c, v)]
  BY DEF Put
<1>3. Holder(sys, i, v)
  BY DEF Holder, BlobGood, BlobKept, BlobCore, Telling
<1> HIDE DEF t, i, v
<1>4. BlobKept(t)
  BY <1>2, <1>3, BlobPlaced
<1>. QED
  BY <1>1, <1>4, BlobBegin, BlobEnds

LEMMA BlobDrop ==
  ASSUME BlobGood(sys), NEW b \in Names, Shared!Drop(b)
  PROVE  BlobGood(sys')
<1> DEFINE g == Shared!Gone(b)
<1>1. Shared!Ends(Shared!Begin(g, 0))
  BY DEF Shared!Drop
<1>2. BlobKept(g)
  BY BlobGone
<1> HIDE DEF g
<1>. QED
  BY <1>1, <1>2, BlobBegin, BlobEnds

LEMMA BlobInit == Shared!Init => BlobGood(sys)
<1> SUFFICES ASSUME Shared!Init
             PROVE  BlobGood(sys)
  OBVIOUS
<1>1. /\ sys.of = [b \in Names |-> 0] /\ sys.said = [b \in Names |-> << >>]
      /\ sys.impl = [i \in Shared!Impls |-> Shared!NoImpl]
      /\ sys.misuse = {} /\ sys.refused = FALSE /\ sys.threw = FALSE /\ BlobShape(sys)
  BY DEF Shared!Init, Shared!EmptyInstance, BlobShape
<1>2. \A i \in Shared!Impls : ImplGood(sys.impl[i]) /\ ~ sys.impl[i].dangling
  BY <1>1, BlobNone
<1>3. /\ On(sys.of, Names) /\ On(sys.impl, Shared!Impls) /\ On(sys.said, Names)
  BY <1>1 DEF On
<1>4. sys.threw \in BOOLEAN /\ ~ sys.threw /\ sys.refused \in BOOLEAN
  BY <1>1
<1>5. Blamed(sys)
  BY <1>1 DEF Blamed
<1>6. BlobCore(sys)
  BY <1>1, <1>2, <1>3, <1>4, <1>5 DEF BlobCore
<1>7. BlobKept(sys)
  BY <1>1, <1>6 DEF BlobKept, Telling
<1>. QED
  BY <1>1, <1>4, <1>7 DEF BlobGood, Used

LEMMA BlobNext == BlobGood(sys) /\ Shared!Next => BlobGood(sys')
<1> SUFFICES ASSUME BlobGood(sys), NEW b \in Names,
                    \/ \E data \in Contents, k \in 0..2 : Shared!Construct(b, data, k)
                    \/ /\ Shared!Sane(b)
                       /\ \E data \in Contents, k \in 0..2 :
                            \/ Shared!Assign(b, data, k)
                            \/ \E shrink \in BOOLEAN : Shared!ReserveAndWrite(b, data, shrink, k)
                    \/ Shared!Sane(b) /\ \E c \in Names : Shared!Copy(b, c)
                    \/ Shared!Drop(b)
             PROVE  BlobGood(sys')
  BY DEF Shared!Next
<1>1. Shared!Sane(b) <=> BlobSane(sys, b)
  BY DEF Shared!Sane, BlobSane, Shared!EmptyInstance
<1>2. CASE \E data \in Contents, k \in 0..2 : Shared!Construct(b, data, k)
  BY <1>2, BlobAssumption, BlobConstruct
<1>3. CASE /\ Shared!Sane(b)
           /\ \E data \in Contents, k \in 0..2 :
                \/ Shared!Assign(b, data, k)
                \/ \E shrink \in BOOLEAN : Shared!ReserveAndWrite(b, data, shrink, k)
  <2>1. PICK data \in Contents, k \in 0..2 :
                \/ Shared!Assign(b, data, k)
                \/ \E shrink \in BOOLEAN : Shared!ReserveAndWrite(b, data, shrink, k)
    BY <1>3
  <2>2. data \in Seq(Nat)
    BY BlobAssumption
  <2>. QED
    BY <1>1, <1>3, <2>1, <2>2, BlobAssign, BlobReserveAndWrite
<1>4. CASE Shared!Sane(b) /\ \E c \in Names : Shared!Copy(b, c)
  BY <1>4, BlobCopy
<1>5. CASE Shared!Drop(b)
  BY <1>5, BlobDrop
<1>. QED
  BY <1>2, <1>3, <1>4, <1>5

LEMMA BlobLegal == BlobGood(sys) => Shared!HandlesLegal /\ Shared!DataStays
<1> SUFFICES ASSUME BlobGood(sys)
             PROVE  Shared!HandlesLegal /\ Shared!DataStays
  OBVIOUS
<1>1. Blamed(sys) /\ Used(sys) /\ BlobKept(sys) /\ BlobCore(sys)
  BY DEF BlobGood, BlobKept, BlobCore
<1>2. sys.misuse \subseteq IF sys.refused THEN {"freed twice"} ELSE {}
  BY <1>1 DEF Blamed
<1>3. \A i \in Shared!Impls : ~ sys.impl[i].dangling => sys.impl[i].size <= Len(sys.impl[i].memory)
  BY <1>1 DEF BlobCore, ImplGood
<1>4. \A i \in Shared!Impls : sys.impl[i] # Shared!NoImpl => Shared!Users(sys, i) # {}
  BY <1>1 DEF Used, Shared!Users
<1>5. ASSUME NEW b \in Names, Shared!Sane(b)
      PROVE  Shared!Data(sys, b) = sys.said[b]
  <2>1. Telling(sys, b)
    BY <1>1 DEF BlobKept
  <2>. QED
    BY <1>5, <2>1, SharedData DEF Telling, Shared!Sane, Shared!EmptyInstance
<1>. QED
  BY <1>2, <1>3, <1>4, <1>5 DEF Shared!HandlesLegal, Shared!DataStays

-----------------------------------------------------------------------------
\* The composition: a behaviour stays in its part.

Good ==
    /\ part = "mysql" => MyGood(sys)
    /\ part = "oracle" => OraGood(sys)
    /\ part = "sqlite" => LiteGood(sys)
    /\ part = "session" => LoginGood(sys)
    /\ part = "timestamp" => StampGood(sys)
    /\ part = "cache" => CacheGood(sys)
    /\ part = "blobs" => BlobGood(sys)
    /\ part = "iterator" => IteratorGood(sys)
    /\ part = "tables" => LocksGood(sys)
    /\ part = "ping" => PingGood(sys)
    /\ part = "replicated" => CopiesGood(sys)

LEMMA GoodInit == Init => Good
<1> SUFFICES ASSUME Init
             PROVE  Good
  OBVIOUS
<1>1. CASE part = "mysql" /\ My!Init
  BY <1>1, MyInit DEF Good
<1>2. CASE part = "oracle" /\ Ora!Init
  BY <1>2, OraInit DEF Good
<1>3. CASE part = "sqlite" /\ Lite!Init
  BY <1>3, LiteInit DEF Good
<1>4. CASE part = "session" /\ Login!Init
  BY <1>4, LoginInit DEF Good
<1>5. CASE part = "timestamp" /\ Stamp!Init
  BY <1>5, StampInit DEF Good
<1>6. CASE part = "cache" /\ Cache!Init
  BY <1>6, CacheInit DEF Good
<1>7. CASE part = "blobs" /\ Shared!Init
  BY <1>7, BlobInit DEF Good
<1>8. CASE part = "iterator" /\ IteratorInit
  BY <1>8, IteratorStart DEF Good
<1>9. CASE part = "tables" /\ Locks!Init
  BY <1>9, LocksInit DEF Good
<1>10. CASE part = "ping" /\ Answer!Init
  BY <1>10, PingInit DEF Good
<1>11. CASE part = "replicated" /\ Copies!Init
  BY <1>11, CopiesInit DEF Good
<1>. QED
  BY <1>1, <1>2, <1>3, <1>4, <1>5, <1>6, <1>7, <1>8, <1>9, <1>10, <1>11 DEF Init

LEMMA GoodNext == Good /\ [Next]_<<part, sys>> => Good'
<1> SUFFICES ASSUME Good, [Next]_<<part, sys>>
             PROVE  Good'
  OBVIOUS
<1>1. CASE part = "mysql" /\ My!Next /\ UNCHANGED part
  BY <1>1, MyNext DEF Good
<1>2. CASE part = "oracle" /\ Ora!Next /\ UNCHANGED part
  BY <1>2, OraNext DEF Good
<1>3. CASE part = "sqlite" /\ Lite!Next /\ UNCHANGED part
  BY <1>3, LiteNext, MyAssumption DEF Good
<1>4. CASE part = "session" /\ Login!Next /\ UNCHANGED part
  BY <1>4, LoginNext DEF Good
<1>5. CASE part = "timestamp" /\ Stamp!Next /\ UNCHANGED part
  BY <1>5, StampNext DEF Good
<1>6. CASE part = "cache" /\ Cache!Next /\ UNCHANGED part
  BY <1>6, CacheNext DEF Good
<1>7. CASE part = "blobs" /\ Shared!Next /\ UNCHANGED part
  BY <1>7, BlobNext DEF Good
<1>8. CASE part = "iterator" /\ IteratorNext /\ UNCHANGED part
  BY <1>8, IteratorStep DEF Good
<1>9. CASE part = "tables" /\ Locks!Next /\ UNCHANGED part
  BY <1>9, LocksNext DEF Good
<1>10. CASE part = "ping" /\ Answer!Next /\ UNCHANGED part
  BY <1>10, PingNext DEF Good
<1>11. CASE part = "replicated" /\ Copies!Next /\ UNCHANGED part
  BY <1>11, CopiesNext DEF Good
<1>12. CASE UNCHANGED <<part, sys>>
  <2>1. part' = part /\ sys' = sys
    BY <1>12
  <2>. QED
    BY <2>1 DEF Good
<1>. QED
  BY <1>1, <1>2, <1>3, <1>4, <1>5, <1>6, <1>7, <1>8, <1>9, <1>10, <1>11, <1>12 DEF Next

LEMMA GoodHolds == Spec => []Good
BY GoodInit, GoodNext, PTL DEF Spec

\* Whatever call fails and in whatever order the client uses and drops what it
\* holds: no handle, descriptor, buffer or memory is used after its release, none
\* is released twice and none loses its owner, but for the exceptions that the
\* parts name (Statement, Cursor, BoundRow, MultiValue, oracle::Connection and
\* Datetime, PSCConnection, BlobImpl, postgresql::Connection::ping).
THEOREM HandlesLegalHolds == Spec => []HandlesLegal
<1>1. Good => HandlesLegal
  <2> SUFFICES ASSUME Good
               PROVE  HandlesLegal
    OBVIOUS
  <2>1. CASE part = "mysql"
    BY <2>1, MyLegal DEF Good, HandlesLegal
  <2>2. CASE part = "oracle"
    BY <2>2, OraLegal DEF Good, HandlesLegal
  <2>3. CASE part = "sqlite"
    BY <2>3, LiteLegal DEF Good, HandlesLegal
  <2>4. CASE part = "session"
    BY <2>4, LoginLegal DEF Good, HandlesLegal
  <2>5. CASE part = "timestamp"
    BY <2>5, StampLegal DEF Good, HandlesLegal
  <2>6. CASE part = "cache"
    BY <2>6, CacheLegal DEF Good, HandlesLegal
  <2>7. CASE part = "blobs"
    BY <2>7, BlobLegal DEF Good, HandlesLegal
  <2>8. CASE part = "ping"
    BY <2>8, PingLegal DEF Good, HandlesLegal
  <2>9. CASE part \notin {"mysql", "oracle", "sqlite", "session", "timestamp", "cache", "blobs",
                          "ping"}
    BY <2>9 DEF HandlesLegal
  <2>. QED
    BY <2>1, <2>2, <2>3, <2>4, <2>5, <2>6, <2>7, <2>8, <2>9
<1>. QED
  BY <1>1, GoodHolds, PTL

\* What the client holds keeps its data while the object it came from is used
\* again: rows, the row that a cursor read last, cached statements, blobs,
\* iterators, the result of a command after a ping, the values of a replicated
\* statement (the kept row of mysql, the batches of oracle, the shared handle of
\* sqlite, copy on write in Blob, setOffset, ping, replicate::Statement).
THEOREM DataStaysHolds == Spec => []DataStays
<1>1. Good => DataStays
  <2> SUFFICES ASSUME Good
               PROVE  DataStays
    OBVIOUS
  <2>1. CASE part = "mysql"
    BY <2>1, MyLegal DEF Good, DataStays
  <2>2. CASE part = "oracle"
    BY <2>2, OraLegal DEF Good, DataStays
  <2>3. CASE part = "sqlite"
    BY <2>3, LiteLegal DEF Good, DataStays
  <2>4. CASE part = "timestamp"
    BY <2>4, StampLegal DEF Good, DataStays
  <2>5. CASE part = "cache"
    BY <2>5, CacheLegal DEF Good, DataStays
  <2>6. CASE part = "blobs"
    BY <2>6, BlobLegal DEF Good, DataStays
  <2>7. CASE part = "iterator"
    BY <2>7 DEF Good, IteratorGood, DataStays
  <2>8. CASE part = "ping"
    BY <2>8, PingLegal DEF Good, DataStays
  <2>9. CASE part = "replicated"
    BY <2>9, CopiesLegal DEF Good, DataStays
  <2>10. CASE part \notin {"mysql", "oracle", "sqlite", "timestamp", "cache", "blobs", "iterator",
                           "ping", "replicated"}
    BY <2>10 DEF DataStays
  <2>. QED
    BY <2>1, <2>2, <2>3, <2>4, <2>5, <2>6, <2>7, <2>8, <2>9, <2>10
<1>. QED
  BY <1>1, GoodHolds, PTL

\* A session of mysql has all the table locks that it asked for until the
\* outermost transaction ends, and no two sessions wait for each other, whatever
\* the tables, the sessions and the order of the calls (lockTable,
\* lockTablesQuery).
THEOREM TablesLockedHolds == Spec => []TablesLocked
<1>1. Good => TablesLocked
  BY LocksLegal DEF Good, TablesLocked
<1>. QED
  BY <1>1, GoodHolds, PTL
=============================================================================
