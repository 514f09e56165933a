-------------------------- MODULE ReviewSessionProofs --------------------------
(***************************************************************************)
(* Proofs about ReviewSession, for every plan, every use of the command,   *)
(* every kind of fault and every number of faults.                         *)
(***************************************************************************)
EXTENDS ReviewSession, NumberSetLemmas

\* From the first reading of the ledger on, a command holds what the file holds.
Working == {"select", "batch", "ask", "approve", "compile"}

\* The sources that a session identifies as episodes.
Named(session) == {r \in Decided(session) : session.items[r].action = "episode"}

\* What a command still has to ask is open, and is not in the batch.
Open(w) ==
  /\ w.pc # "batch" => w.batch = {}
  /\ w.pc \in {"batch", "ask"} =>
       /\ w.todo \cap Decided(w.session) = {} /\ w.batch \cap Decided(w.session) = {}
       /\ w.todo \cap w.batch = {}

\* An answers file in use answers all that is to be asked, as it was read.
Fits(w, b) ==
  /\ w.options.answers => b # NoBundle
  /\ w.options.answers /\ w.pc \in {"batch", "ask"} =>
       /\ w.pc = "ask" /\ w.todo \subseteq DOMAIN b.answers
       /\ \A r \in w.todo : w.session.items[r] = b.seen.items[r]

\* A review that began in this command shows the IDs that it would compile: the
\* sources it identified come before all that it has still to ask.
Shown(w) ==
  w.fresh =>
    /\ CompiledIds(w.session) = w.scratch
    /\ w.pc \in {"create", "create-in-place", "select"} => w.session = Fresh
    /\ w.pc \in {"batch", "ask"} => \A q \in Named(w.session), r \in w.todo : q < r

\* The ledger file, and what a command that is at it holds.
Behind(w, l) ==
  /\ w.pc = "idle" => w = Idle
  /\ w.pc = "create" => l.file = "none" /\ w.session = Fresh
  /\ w.pc = "create-in-place" => l.file = "partial" /\ w.session = Fresh
  /\ w.pc \in Working => l.file = "whole" /\ l.session = w.session
  /\ l.file # "whole" => l.session = Fresh
  /\ l.session.approved \subseteq Decided(l.session)

ReviewInv ==
  /\ ReviewTypeOK
  /\ Open(wizard) /\ Fits(wizard, bundle) /\ Shown(wizard) /\ Behind(wizard, ledger)
  /\ ~At("idle") => contract = NoContract
  /\ ContractBehindLedger

-------------------------------------------------------------------------------
(* Sessions and answers. *)

LEMMA FreshSession ==
  /\ Fresh \in Session /\ Decided(Fresh) = {} /\ Named(Fresh) = {} /\ Fresh.approved = {}
  /\ ~UsableForPlanning(Fresh)
<1>1. /\ Fresh \in Session /\ Fresh.approved = {}
      /\ \A r \in Refs : Fresh.items[r].state = "pending"
  BY ReviewAssumption DEF Fresh, Session, Item, Actions
<1>2. 1 \in Refs
  BY ReviewAssumption DEF Refs
<1>3. Decided(Fresh) = {}
  BY <1>1 DEF Decided
<1> QED
  BY <1>1, <1>2, <1>3 DEF Named, UsableForPlanning, Complete

\* What the parts of a session are.
LEMMA SessionType ==
  ASSUME NEW session \in Session
  PROVE  /\ session.items \in [Refs -> Item] /\ session.approved \subseteq Refs
         /\ Decided(session) \subseteq Refs /\ Named(session) \subseteq Decided(session)
         /\ \A r \in Refs : session.items[r] \in Item /\ session.items[r].ids \in Ids
BY DEF Session, Decided, Named, Item

\* An answer changes its own item only.
LEMMA AnswerItems ==
  ASSUME NEW session \in Session, NEW r \in Refs, NEW item \in Item
  PROVE  /\ WithAnswer(session, r, item) \in Session
         /\ \A q \in Refs : q # r =>
              WithAnswer(session, r, item).items[q] = session.items[q]
         /\ WithAnswer(session, r, item).items[r] = item
<1> DEFINE items == [session.items EXCEPT ![r] = item]
           approved == {q \in session.approved : items[q].state = "answered"}
<1>1. session.items \in [Refs -> Item] /\ session.approved \subseteq Refs
  BY SessionType
<1>2. /\ items \in [Refs -> Item] /\ items[r] = item
      /\ \A q \in Refs : q # r => items[q] = session.items[q]
  BY <1>1
<1>3. WithAnswer(session, r, item) = [items |-> items, approved |-> approved]
  BY DEF WithAnswer
<1> HIDE DEF items
<1>4. WithAnswer(session, r, item) \in Session
  BY <1>1, <1>2, <1>3 DEF Session
<1> QED
  BY <1>2, <1>3, <1>4

\* One to an open item leaves what was decided, and approved, as it is.
LEMMA AnswerDecides ==
  ASSUME NEW session \in Session, NEW r \in Refs, NEW item \in Item, r \notin Decided(session)
  PROVE  /\ Decided(WithAnswer(session, r, item)) =
              IF item.state = "answered" THEN Decided(session) \cup {r} ELSE Decided(session)
         /\ session.approved \subseteq Decided(session) =>
              WithAnswer(session, r, item).approved = session.approved
<1>1. /\ \A q \in Refs : q # r =>
           WithAnswer(session, r, item).items[q] = session.items[q]
      /\ WithAnswer(session, r, item).items[r] = item
  BY AnswerItems
<1>2. WithAnswer(session, r, item).approved =
        {q \in session.approved : WithAnswer(session, r, item).items[q].state = "answered"}
  BY DEF WithAnswer
<1>3. session.approved \subseteq Refs
  BY SessionType
<1> QED
  BY <1>1, <1>2, <1>3 DEF Decided

\* What is answered identifies an episode, or leaves the sources identified as
\* they are.
LEMMA NamedAfter ==
  ASSUME NEW session \in Session, NEW r \in Refs, NEW item \in Item, r \notin Decided(session)
  PROVE  Named(WithAnswer(session, r, item)) =
           IF item.state = "answered" /\ item.action = "episode"
           THEN Named(session) \cup {r} ELSE Named(session)
<1>1. /\ \A q \in Refs : q # r => WithAnswer(session, r, item).items[q] = session.items[q]
      /\ WithAnswer(session, r, item).items[r] = item
  BY AnswerItems
<1>2. r \notin Named(session)
  BY DEF Named
<1> QED
  BY <1>1, <1>2 DEF Named, Decided

\* The IDs that are compiled are those of the last source of each show.
LEMMA CompiledIdsType ==
  ASSUME NEW session \in Session
  PROVE  CompiledIds(session) \in [Shows -> Ids]
<1>1. SUFFICES ASSUME NEW s \in Shows,
                      NEW named,
                      named = {r \in Decided(session) :
                                 ShowOf[r] = s /\ session.items[r].action = "episode"},
                      named # {}
               PROVE  session.items[Max(named)].ids \in Ids
  BY ReviewAssumption DEF CompiledIds
<1>2. named \in SUBSET (0..Count) /\ Count \in Nat /\ named \subseteq Refs
  BY <1>1, ReviewAssumption DEF Decided, Refs
<1>3. Max(named) \in Refs
  BY <1>1, <1>2, Largest
<1> QED
  BY <1>3, SessionType

\* The sources of one show that a session identifies.
NamedOf(session, s) == {r \in Named(session) : ShowOf[r] = s}

LEMMA CompiledAt ==
  ASSUME NEW session \in Session, NEW s \in Shows
  PROVE  /\ CompiledIds(session)[s] =
              IF NamedOf(session, s) = {} THEN NoIds
              ELSE session.items[Max(NamedOf(session, s))].ids
         /\ NamedOf(session, s) \subseteq Refs
         /\ NamedOf(session, s) # {} => Max(NamedOf(session, s)) \in NamedOf(session, s)
<1>1. NamedOf(session, s) = {r \in Decided(session) :
                               ShowOf[r] = s /\ session.items[r].action = "episode"}
  BY DEF NamedOf, Named
<1>2. CompiledIds(session)[s] =
        IF NamedOf(session, s) = {} THEN NoIds
        ELSE session.items[Max(NamedOf(session, s))].ids
  BY <1>1 DEF CompiledIds
<1>3. NamedOf(session, s) \subseteq Refs
  BY DEF NamedOf, Named, Decided
<1>4. NamedOf(session, s) \in SUBSET (0..Count) /\ Count \in Nat
  BY <1>3, ReviewAssumption DEF Refs
<1>5. NamedOf(session, s) # {} => Max(NamedOf(session, s)) \in NamedOf(session, s)
  BY <1>4, Largest
<1> QED
  BY <1>2, <1>3, <1>5

LEMMA CompiledAtFresh ==
  CompiledIds(Fresh) = [s \in Shows |-> NoIds]
BY FreshSession, CompiledAt, CompiledIdsType DEF NamedOf

\* An answer that identifies no episode compiles the same IDs.
LEMMA CompiledKept ==
  ASSUME NEW session \in Session, NEW r \in Refs, NEW item \in Item, r \notin Decided(session),
         ~(item.state = "answered" /\ item.action = "episode")
  PROVE  CompiledIds(WithAnswer(session, r, item)) = CompiledIds(session)
<1> DEFINE after == WithAnswer(session, r, item)
<1>1. after \in Session /\ Named(after) = Named(session)
  BY AnswerItems, NamedAfter
<1>2. \A q \in Refs : q # r => after.items[q] = session.items[q]
  BY AnswerItems
<1>3. r \notin Named(session)
  BY DEF Named
<1> HIDE DEF after
<1>4. ASSUME NEW s \in Shows
      PROVE  CompiledIds(after)[s] = CompiledIds(session)[s]
  <2>1. NamedOf(after, s) = NamedOf(session, s) /\ r \notin NamedOf(session, s)
    BY <1>1, <1>3 DEF NamedOf
  <2> QED
    BY <1>1, <1>2, <2>1, CompiledAt
<1>5. CompiledIds(after) \in [Shows -> Ids] /\ CompiledIds(session) \in [Shows -> Ids]
  BY <1>1, CompiledIdsType
<1> QED
  BY <1>4, <1>5 DEF after

\* One that does, after those before it, decides on the IDs of its show.
LEMMA CompiledLast ==
  ASSUME NEW session \in Session, NEW r \in Refs, NEW item \in Item, r \notin Decided(session),
         item.state = "answered", item.action = "episode", \A q \in Named(session) : q < r
  PROVE  CompiledIds(WithAnswer(session, r, item)) =
           [CompiledIds(session) EXCEPT ![ShowOf[r]] = item.ids]
<1> DEFINE after == WithAnswer(session, r, item)
<1>1. after \in Session /\ Named(after) = Named(session) \cup {r}
  BY AnswerItems, NamedAfter
<1>2. /\ \A q \in Refs : q # r => after.items[q] = session.items[q]
      /\ after.items[r] = item
  BY AnswerItems
<1>3. r \notin Named(session) /\ r \in Nat /\ ShowOf[r] \in Shows
  BY ReviewAssumption DEF Named, Refs
<1> HIDE DEF after
<1>4. CompiledIds(after)[ShowOf[r]] = item.ids
  <2>1. NamedOf(after, ShowOf[r]) = NamedOf(session, ShowOf[r]) \cup {r}
    BY <1>1 DEF NamedOf
  <2>2. \A q \in NamedOf(after, ShowOf[r]) : q \in Nat /\ (q < r \/ q = r)
    <3>1. \A q \in NamedOf(session, ShowOf[r]) : q \in Named(session) /\ q \in Refs
      BY DEF NamedOf, Named, Decided
    <3> QED
      BY <1>3, <2>1, <3>1 DEF Refs
  <2>3. Max(NamedOf(after, ShowOf[r])) = r
    BY <1>3, <2>1, <2>2 DEF Max
  <2> QED
    BY <1>1, <1>2, <1>3, <2>1, <2>3, CompiledAt
<1>5. ASSUME NEW s \in Shows, s # ShowOf[r]
      PROVE  CompiledIds(after)[s] = CompiledIds(session)[s]
  <2>1. NamedOf(after, s) = NamedOf(session, s) /\ r \notin NamedOf(session, s)
    BY <1>1, <1>5 DEF NamedOf
  <2> QED
    BY <1>1, <1>2, <2>1, CompiledAt
<1>6. CompiledIds(after) \in [Shows -> Ids] /\ CompiledIds(session) \in [Shows -> Ids]
  BY <1>1, CompiledIdsType
<1> QED
  BY <1>3, <1>4, <1>5, <1>6 DEF after

-------------------------------------------------------------------------------
(* The command: the shapes that its steps have. *)

LEMMA PlainOption ==
  Plain \in Options /\ ~Plain.answers /\ ~Plain.approve /\ Plain.batch = {}
BY DEF Plain, Options, Filters

LEMMA IdleCommand ==
  /\ Idle \in Commands /\ Idle.pc = "idle" /\ Idle.session = Fresh /\ ~Idle.fresh
  /\ Idle.todo = {} /\ Idle.batch = {} /\ Idle.options = Plain
  /\ Idle.scratch = [s \in Shows |-> NoIds]
  /\ Open(Idle) /\ Shown(Idle) /\ \A b : Fits(Idle, b)
<1>1. Idle \in Commands
  BY FreshSession, PlainOption, ReviewAssumption DEF Idle, Commands, Phases
<1>2. /\ Idle.pc = "idle" /\ Idle.session = Fresh /\ ~Idle.fresh
      /\ Idle.todo = {} /\ Idle.batch = {} /\ Idle.options = Plain
      /\ Idle.scratch = [s \in Shows |-> NoIds]
  BY DEF Idle
<1> QED
  BY <1>1, <1>2, PlainOption DEF Open, Shown, Fits

\* The parts of a command.
LEMMA CommandType ==
  ASSUME NEW w \in Commands
  PROVE  /\ w.pc \in Phases /\ w.session \in Session /\ w.options \in Options
         /\ w.fresh \in BOOLEAN /\ w.scope \subseteq Refs /\ w.todo \subseteq Refs
         /\ w.batch \subseteq Refs /\ w.scratch \in [Shows -> Ids]
         /\ w.options.batch \subseteq Kinds /\ w.options.filter \subseteq Refs
         /\ w.options.answers \in BOOLEAN
<1>1. /\ w.pc \in Phases /\ w.session \in Session /\ w.options \in Options
      /\ w.fresh \in BOOLEAN /\ w.scope \subseteq Refs /\ w.todo \subseteq Refs
      /\ w.batch \subseteq Refs /\ w.scratch \in [Shows -> Ids]
  BY DEF Commands
<1>2. \A f \in Filters : f \subseteq Refs
  BY ReviewAssumption DEF Filters, OfKind, Held
<1> QED
  BY <1>1, <1>2 DEF Options

\* A fault keeps the record of the faults well typed.
LEMMA FaultType ==
  ASSUME faults \in FaultRecords, NEW kind, Fault(kind)
  PROVE  faults' \in FaultRecords
BY FaultAssumption DEF Fault, Strike, FaultRecords

\* Whatever ends a command, without a write, leaves what the files hold.
LEMMA EndsInv ==
  ASSUME ReviewInv, ~At("idle"), wizard' = Idle, UNCHANGED <<ledger, contract, bundle>>,
         faults' \in FaultRecords
  PROVE  ReviewInv'
<1>1. ReviewTypeOK'
  BY IdleCommand DEF ReviewInv, ReviewTypeOK
<1>2. Behind(wizard', ledger')
  BY IdleCommand DEF ReviewInv, Behind, Working
<1>3. Open(wizard') /\ Shown(wizard') /\ Fits(wizard', bundle')
  BY IdleCommand
<1>4. wizard'.pc = "idle" /\ contract' = NoContract
  BY IdleCommand DEF ReviewInv
<1> QED
  BY <1>1, <1>2, <1>3, <1>4
  DEF ReviewInv, At, ContractBehindLedger, Behind, Open, Shown, Fits

\* A step that writes no file.
LEMMA GoesToInv ==
  ASSUME ReviewInv, ~At("idle"), NEW next \in Commands, GoesTo(next),
         Open(next), Fits(next, bundle), Shown(next), Behind(next, ledger)
  PROVE  ReviewInv'
<1>1. ReviewTypeOK'
  BY DEF ReviewInv, ReviewTypeOK, GoesTo, NoFault
<1>2. wizard' = next /\ UNCHANGED <<ledger, contract, bundle>>
  BY DEF GoesTo
<1>3. contract' = NoContract
  BY <1>2 DEF ReviewInv
<1>4. Open(wizard') /\ Fits(wizard', bundle') /\ Shown(wizard') /\ Behind(wizard', ledger')
  BY <1>2
<1> QED
  BY <1>1, <1>3, <1>4 DEF ReviewInv, At, ContractBehindLedger, Behind, Open, Shown, Fits

\* A failed write ends the command.
LEMMA WriteFailsInv ==
  ASSUME ReviewInv, ~At("idle"), WriteFails
  PROVE  ReviewInv'
BY EndsInv, FaultType DEF WriteFails, ReviewInv, ReviewTypeOK

\* A step that saves the session.
LEMMA SavesInv ==
  ASSUME ReviewInv, ~At("idle"), NEW next \in Commands, Saves(next), next.pc \in Working,
         Open(next), Fits(next, bundle), Shown(next),
         next.session.approved \subseteq Decided(next.session)
  PROVE  ReviewInv'
<1>1. CASE WriteFails
  BY <1>1, WriteFailsInv
<1>2. CASE ~WriteFails
  <2>1. ledger' = Whole(next.session) /\ wizard' = next /\ UNCHANGED <<contract, bundle, faults>>
    BY <1>2 DEF Saves, NoFault
  <2>2. ledger'.file = "whole" /\ ledger'.session = next.session
    BY <2>1 DEF Whole
  <2>3. ReviewTypeOK'
    BY <2>1, <2>2, CommandType DEF ReviewInv, ReviewTypeOK
  <2>4. contract' = NoContract
    BY <2>1 DEF ReviewInv
  <2>5. Behind(wizard', ledger')
    BY <2>1, <2>2 DEF Behind, Working
  <2>6. Open(wizard') /\ Fits(wizard', bundle') /\ Shown(wizard')
    BY <2>1
  <2> QED
    BY <2>3, <2>4, <2>5, <2>6 DEF ReviewInv, At, ContractBehindLedger, Behind, Open, Shown, Fits
<1> QED
  BY <1>1, <1>2

-------------------------------------------------------------------------------
(* The steps. *)

LEMMA StartReviewInv ==
  ASSUME ReviewInv, StartReview
  PROVE  ReviewInv'
<1>1. PICK options \in CommandLines :
        Accepted(options) /\ Begins([Idle EXCEPT !.pc = "create", !.options = options,
                                                 !.fresh = TRUE])
  BY DEF StartReview
<1> DEFINE next == [Idle EXCEPT !.pc = "create", !.options = options, !.fresh = TRUE]
<1>2. /\ next.pc = "create" /\ next.options = options /\ next.fresh = TRUE
      /\ next.session = Fresh /\ next.batch = {} /\ next.todo = {}
      /\ next.scratch = [s \in Shows |-> NoIds]
  BY DEF Idle
<1>3. next \in Commands
  <2>1. options \in Options /\ "create" \in Phases /\ TRUE \in BOOLEAN
    BY CommandAssumption DEF Phases
  <2> QED
    BY <2>1, IdleCommand DEF Commands
<1>4. wizard' = next /\ contract' = NoContract /\ UNCHANGED <<ledger, bundle, faults>>
  BY <1>1 DEF Begins, NoFault
<1> HIDE DEF next
<1>5. ReviewTypeOK'
  BY <1>3, <1>4 DEF ReviewInv, ReviewTypeOK
<1>6. Open(next) /\ Fits(next, bundle)
  BY <1>1, <1>2 DEF Open, Fits, Accepted
<1>7. Shown(next)
  <2>1. CompiledIds(Fresh) = [s \in Shows |-> NoIds]
    BY CompiledAtFresh
  <2> QED
    BY <1>2, <2>1 DEF Shown
<1>8. Behind(next, ledger)
  <2>1. ledger.file = "none"
    BY DEF StartReview
  <2> QED
    BY <1>2, <2>1 DEF Behind, Working, ReviewInv
<1> QED
  BY <1>4, <1>5, <1>6, <1>7, <1>8
  DEF ReviewInv, ContractBehindLedger, Open, Fits, Shown, Behind, At

LEMMA ResumeReviewInv ==
  ASSUME ReviewInv, NEW options \in CommandLines, ResumeReview(options)
  PROVE  ReviewInv'
<1> DEFINE next == [Idle EXCEPT !.pc = "select", !.options = options,
                                !.session = ledger.session]
<1>1. /\ next.pc = "select" /\ next.options = options /\ next.fresh = FALSE
      /\ next.session = ledger.session /\ next.batch = {} /\ next.todo = {}
  BY DEF Idle
<1>2. next \in Commands
  <2>1. options \in Options /\ "select" \in Phases /\ ledger.session \in Session
    BY CommandAssumption DEF Phases, ReviewInv, ReviewTypeOK
  <2> QED
    BY <2>1, IdleCommand DEF Commands
<1>3. wizard' = next /\ contract' = NoContract /\ UNCHANGED <<ledger, bundle, faults>>
  BY DEF ResumeReview, Begins, NoFault
<1> HIDE DEF next
<1>4. ReviewTypeOK'
  BY <1>2, <1>3 DEF ReviewInv, ReviewTypeOK
<1>5. Open(next) /\ Fits(next, bundle) /\ Shown(next)
  BY <1>1 DEF Open, Fits, Shown, ResumeReview, Accepted
<1>6. Behind(next, ledger)
  BY <1>1 DEF Behind, Working, ReviewInv, ResumeReview
<1> QED
  BY <1>3, <1>4, <1>5, <1>6
  DEF ReviewInv, ContractBehindLedger, Open, Fits, Shown, Behind, At

LEMMA DiscardPartialInv ==
  ASSUME ReviewInv, DiscardPartial
  PROVE  ReviewInv'
<1>1. wizard = Idle /\ contract = NoContract /\ ledger' = NoLedger
  BY DEF ReviewInv, Behind, DiscardPartial, At, ContractBehindLedger
<1>2. ledger'.file = "none" /\ ledger'.session = Fresh
  BY <1>1 DEF NoLedger
<1>3. UNCHANGED <<contract, bundle, wizard, faults>>
  BY DEF DiscardPartial, NoFault
<1>4. ReviewTypeOK'
  BY <1>2, <1>3, FreshSession DEF ReviewInv, ReviewTypeOK
<1>5. Behind(wizard', ledger')
  BY <1>1, <1>2, <1>3, IdleCommand, FreshSession DEF Behind, Working
<1> QED
  BY <1>1, <1>3, <1>4, <1>5
  DEF ReviewInv, ContractBehindLedger, Open, Fits, Shown, Behind, At

LEMMA PrepareAnswersInv ==
  ASSUME ReviewInv, PrepareAnswers
  PROVE  ReviewInv'
<1>1. wizard = Idle
  BY DEF ReviewInv, Behind, PrepareAnswers, At
<1>2. UNCHANGED <<ledger, contract, wizard, faults>>
  BY DEF PrepareAnswers, NoFault
<1>3. PICK scope \in Filters :
        \E answers \in [scope -> UNION {Prepared[r] : r \in scope}] :
          /\ \A r \in scope : answers[r] \in Prepared[r]
          /\ bundle' = [seen |-> ledger.session, answers |-> answers]
  BY DEF PrepareAnswers
<1>4. PICK answers \in [scope -> UNION {Prepared[r] : r \in scope}] :
        /\ \A r \in scope : answers[r] \in Prepared[r]
        /\ bundle' = [seen |-> ledger.session, answers |-> answers]
  BY <1>3
<1>5. bundle'.seen \in Session /\ \A r \in DOMAIN bundle'.answers : bundle'.answers[r] \in Prepared[r]
  BY <1>4 DEF ReviewInv, ReviewTypeOK
<1>6. ReviewTypeOK'
  BY <1>2, <1>5 DEF ReviewInv, ReviewTypeOK
<1>7. Fits(wizard', bundle')
  BY <1>1, <1>2, IdleCommand
<1> QED
  BY <1>1, <1>2, <1>6, <1>7 DEF ReviewInv, ContractBehindLedger, Open, Fits, Shown, Behind, At

\* Both ways to write a ledger end with a whole file, read by the command.
LEMMA LedgerWritten ==
  ASSUME ReviewInv, At("create") \/ At("create-in-place"),
         ledger' = Whole(wizard.session), wizard' = To("select"),
         UNCHANGED <<contract, bundle, faults>>
  PROVE  ReviewInv'
<1> DEFINE next == To("select")
<1>1. /\ next.pc = "select" /\ next.options = wizard.options /\ next.fresh = wizard.fresh
      /\ next.session = wizard.session /\ next.batch = wizard.batch
      /\ next.scratch = wizard.scratch
  BY DEF To, ReviewInv, ReviewTypeOK, Commands
<1>2. next \in Commands
  BY DEF To, Commands, Phases, ReviewInv, ReviewTypeOK
<1>3. ledger'.file = "whole" /\ ledger'.session = next.session /\ wizard.session = Fresh
  BY <1>1 DEF Whole, ReviewInv, Behind, At
<1> HIDE DEF next
<1>4. wizard' = next
  BY DEF next
<1>5. ReviewTypeOK'
  BY <1>1, <1>2, <1>3, <1>4, CommandType DEF ReviewInv, ReviewTypeOK
<1>6. Open(next) /\ Fits(next, bundle)
  BY <1>1 DEF ReviewInv, Open, Fits, At
<1>7. Shown(next)
  BY <1>1, <1>3 DEF ReviewInv, Shown, At
<1>8. Behind(wizard', ledger')
  BY <1>1, <1>3, <1>4, FreshSession DEF Behind, Working
<1>9. contract' = NoContract /\ bundle' = bundle
  BY DEF ReviewInv, At
<1> QED
  BY <1>1, <1>4, <1>5, <1>6, <1>7, <1>8, <1>9
  DEF ReviewInv, ContractBehindLedger, Open, Fits, Shown, Behind, At

LEMMA CreateLedgerInv ==
  ASSUME ReviewInv, CreateLedger
  PROVE  ReviewInv'
<1>1. CASE WriteFails
  BY <1>1, WriteFailsInv DEF CreateLedger, At
<1>2. CASE ledger' = Whole(wizard.session) /\ wizard' = To("select")
           /\ UNCHANGED <<contract, bundle>> /\ NoFault
  BY <1>2, LedgerWritten DEF CreateLedger, NoFault
<1>3. CASE ledger' = PartialLedger /\ wizard' = To("create-in-place")
           /\ UNCHANGED <<contract, bundle>> /\ NoFault
  <2> DEFINE next == To("create-in-place")
  <2>1. /\ next.pc = "create-in-place" /\ next.options = wizard.options
        /\ next.session = wizard.session /\ next.batch = wizard.batch
        /\ next.fresh = wizard.fresh /\ next.scratch = wizard.scratch
    BY DEF To, ReviewInv, ReviewTypeOK, Commands
  <2>2. next \in Commands
    BY DEF To, Commands, Phases, ReviewInv, ReviewTypeOK
  <2>3. ledger'.file = "partial" /\ ledger'.session = Fresh /\ wizard.session = Fresh
    BY <1>3 DEF PartialLedger, ReviewInv, Behind, CreateLedger, At
  <2>4. wizard' = next /\ contract' = NoContract /\ UNCHANGED <<bundle, faults>>
    BY <1>3 DEF NoFault, ReviewInv, CreateLedger, At
  <2> HIDE DEF next
  <2>5. ReviewTypeOK'
    BY <2>2, <2>3, <2>4, FreshSession DEF ReviewInv, ReviewTypeOK
  <2>6. Open(next) /\ Fits(next, bundle) /\ Shown(next)
    BY <2>1, <2>3 DEF ReviewInv, Open, Fits, Shown, CreateLedger, At
  <2>7. Behind(wizard', ledger')
    BY <2>1, <2>3, <2>4, FreshSession DEF Behind, Working
  <2> QED
    BY <2>1, <2>4, <2>5, <2>6, <2>7
    DEF ReviewInv, ContractBehindLedger, Open, Fits, Shown, Behind, At
<1> QED
  BY <1>1, <1>2, <1>3 DEF CreateLedger

LEMMA FinishLedgerInv ==
  ASSUME ReviewInv, FinishLedger
  PROVE  ReviewInv'
BY LedgerWritten, WriteFailsInv DEF FinishLedger, At, NoFault

\* What is selected is a part of the plan.
LEMMA SelectedType ==
  ASSUME ReviewInv
  PROVE  Selected \subseteq Refs
BY CommandType DEF ReviewInv, ReviewTypeOK, Selected

LEMMA SelectItemsInv ==
  ASSUME ReviewInv, SelectItems
  PROVE  ReviewInv'
<1>1. CASE wizard.options.answers /\ ~(Bound /\ Covers /\ wizard.options.batch = {})
  <2>1. GoesTo(Idle)
    BY <1>1 DEF SelectItems
  <2> QED
    BY <2>1, EndsInv DEF SelectItems, At, GoesTo, NoFault, ReviewInv, ReviewTypeOK
<1>2. CASE ~(wizard.options.answers /\ ~(Bound /\ Covers /\ wizard.options.batch = {}))
  <2> DEFINE options == [Plain EXCEPT !.approve = wizard.options.approve,
                                      !.answers = wizard.options.answers,
                                      !.batch = wizard.options.batch]
             next == [wizard EXCEPT !.pc = IF wizard.options.batch = {} THEN "ask" ELSE "batch",
                                    !.options = options,
                                    !.scope = IF wizard.options.approve THEN Selected ELSE {},
                                    !.todo = Selected \ Settled]
  <2>1. GoesTo(next)
    BY <1>2, Zenon DEF SelectItems
  <2>2. options \in Options /\ options.answers = wizard.options.answers
    <3>1. wizard.options \in Options
      BY CommandType DEF ReviewInv, ReviewTypeOK
    <3> QED
      BY <3>1, PlainOption DEF Options
  <2> HIDE DEF options
  <2>3. wizard \in Commands
    BY DEF ReviewInv, ReviewTypeOK
  <2>4. next \in Commands
    BY <2>2, <2>3, SelectedType DEF Commands, Phases
  <2>5. /\ next.pc = IF wizard.options.batch = {} THEN "ask" ELSE "batch"
        /\ next.options = options /\ next.todo = Selected \ Settled
        /\ next.batch = wizard.batch /\ next.session = wizard.session
        /\ next.fresh = wizard.fresh /\ next.scratch = wizard.scratch
    BY <2>3 DEF Commands
  <2> HIDE DEF next
  <2>6. wizard.batch = {} /\ wizard.pc = "select"
    BY DEF ReviewInv, Open, SelectItems, At
  <2>7. Open(next)
    BY <2>5, <2>6 DEF Open, Settled
  <2>8. Fits(next, bundle)
    <3>1. next.options.answers =>
            /\ Bound /\ Covers /\ next.pc = "ask" /\ bundle # NoBundle
      BY <1>2, <2>2, <2>5 DEF ReviewInv, Fits
    <3> QED
      BY <2>5, <3>1 DEF Fits, Bound, Covers
  <2>9. Shown(next)
    BY <2>5, <2>6, FreshSession DEF ReviewInv, Shown
  <2>10. Behind(next, ledger)
    BY <2>5, <2>6 DEF ReviewInv, Behind, Working
  <2> QED
    BY <2>1, <2>4, <2>6, <2>7, <2>8, <2>9, <2>10, GoesToInv DEF At
<1> QED
  BY <1>1, <1>2

LEMMA AcceptBatchInv ==
  ASSUME ReviewInv, AcceptBatch
  PROVE  ReviewInv'
<1> DEFINE open == wizard.todo \cap UNION {OfKind(kind) : kind \in wizard.options.batch}
<1>1. CASE ~(open \cap Duplicates \subseteq Recommended)
  <2>1. GoesTo(Idle)
    BY <1>1, Zenon DEF AcceptBatch, Quits
  <2> QED
    BY <2>1, EndsInv DEF AcceptBatch, At, GoesTo, NoFault, ReviewInv, ReviewTypeOK
<1>2. CASE open \cap Duplicates \subseteq Recommended
  <2>1. PICK groups \in SUBSET {Evidence[r] : r \in open} :
          GoesTo([wizard EXCEPT !.batch = {r \in open : Evidence[r] \in groups},
                                !.todo = @ \ {r \in open : Evidence[r] \in groups},
                                !.options.batch = {},
                                !.pc = IF {r \in open : Evidence[r] \in groups} = {}
                                       THEN "ask" ELSE "batch"])
    BY <1>2, Zenon DEF AcceptBatch
  <2> DEFINE accepted == {r \in open : Evidence[r] \in groups}
             next == [wizard EXCEPT !.batch = accepted, !.todo = @ \ accepted,
                                    !.options.batch = {},
                                    !.pc = IF accepted = {} THEN "ask" ELSE "batch"]
  <2>2. GoesTo(next)
    BY <2>1
  <2>3. accepted \subseteq wizard.todo
    OBVIOUS
  <2> HIDE DEF accepted
  <2>4. wizard \in Commands /\ wizard.options \in Options /\ wizard.todo \subseteq Refs
    BY CommandType DEF ReviewInv, ReviewTypeOK
  <2>5. /\ next.pc = IF accepted = {} THEN "ask" ELSE "batch"
        /\ next.options = [wizard.options EXCEPT !.batch = {}]
        /\ next.todo = wizard.todo \ accepted
        /\ next.batch = accepted /\ next.session = wizard.session
        /\ next.fresh = wizard.fresh /\ next.scratch = wizard.scratch
    BY <2>4 DEF Commands
  <2>6. [wizard.options EXCEPT !.batch = {}] \in Options
    BY <2>4 DEF Options
  <2>7. [wizard.options EXCEPT !.batch = {}].answers = wizard.options.answers
    BY <2>4 DEF Options
  <2>8. next \in Commands
    BY <2>3, <2>4, <2>6 DEF Commands, Phases
  <2> HIDE DEF next
  <2>9. wizard.pc = "batch"
    BY DEF AcceptBatch, At
  <2>10. Open(next)
    BY <2>3, <2>5, <2>9 DEF ReviewInv, Open
  <2>11. Fits(next, bundle)
    BY <2>5, <2>7, <2>9 DEF ReviewInv, Fits
  <2>12. Shown(next)
    BY <2>5, <2>9 DEF ReviewInv, Shown
  <2>13. Behind(next, ledger)
    BY <2>5, <2>9 DEF ReviewInv, Behind, Working
  <2> QED
    BY <2>2, <2>8, <2>9, <2>10, <2>11, <2>12, <2>13, GoesToInv DEF At
<1> QED
  BY <1>1, <1>2

LEMMA NextInBatchType ==
  ASSUME ReviewInv, wizard.batch # {}
  PROVE  NextInBatch \in wizard.batch
<1> DEFINE first == IF wizard.batch \cap Duplicates = {} THEN wizard.batch
                    ELSE wizard.batch \cap Duplicates
<1>1. wizard.batch \subseteq Refs
  BY CommandType DEF ReviewInv, ReviewTypeOK
<1>2. first \in SUBSET Nat /\ first # {} /\ first \subseteq wizard.batch
  BY <1>1 DEF Refs
<1>3. NextInBatch = Min(first)
  BY DEF NextInBatch
<1> HIDE DEF first
<1> QED
  BY <1>2, <1>3, Smallest

LEMMA AnswerBatchInv ==
  ASSUME ReviewInv, AnswerBatch
  PROVE  ReviewInv'
<1> DEFINE r == NextInBatch
           item == [state |-> "answered", ids |-> NoIds,
                    action |-> IF r \in Duplicates THEN "select_winner" ELSE "keep_held"]
           session == WithAnswer(wizard.session, r, item)
           next == [wizard EXCEPT !.session = WithAnswer(@, r, item), !.batch = @ \ {r},
                                  !.pc = IF wizard.batch = {r} THEN "ask" ELSE "batch"]
<1>1. Saves(next)
  BY DEF AnswerBatch
<1>2. wizard.pc = "batch" /\ wizard.batch # {}
  BY DEF AnswerBatch, At
<1>3. r \in wizard.batch
  BY <1>2, NextInBatchType
<1> HIDE DEF r
<1>4. item \in Item /\ item.action # "episode" /\ item.state = "answered"
  BY ReviewAssumption DEF Item, Actions
<1> HIDE DEF item
<1>5. wizard \in Commands
  BY DEF ReviewInv, ReviewTypeOK
<1>6. wizard.session \in Session /\ wizard.batch \subseteq Refs /\ r \in Refs
  BY <1>3, <1>5, CommandType
<1>7. session \in Session
  BY <1>4, <1>6, AnswerItems
<1>8. /\ next.pc = IF wizard.batch = {r} THEN "ask" ELSE "batch"
      /\ next.session = session /\ next.batch = wizard.batch \ {r}
      /\ next.todo = wizard.todo /\ next.options = wizard.options
      /\ next.fresh = wizard.fresh /\ next.scratch = wizard.scratch
  BY <1>5 DEF Commands
<1>9. next \in Commands
  BY <1>5, <1>7 DEF Commands, Phases
<1>10. r \notin Decided(wizard.session)
  BY <1>2, <1>3 DEF ReviewInv, Open
<1>11. wizard.session.approved \subseteq Decided(wizard.session)
  BY <1>2 DEF ReviewInv, Behind, Working
<1>12. Decided(session) = Decided(wizard.session) \cup {r}
       /\ session.approved = wizard.session.approved
  BY <1>4, <1>6, <1>10, <1>11, AnswerDecides
<1>13. Named(session) = Named(wizard.session)
       /\ CompiledIds(session) = CompiledIds(wizard.session)
  BY <1>4, <1>6, <1>10, NamedAfter, CompiledKept
<1> HIDE DEF next, session
<1>14. Open(next)
  BY <1>2, <1>3, <1>8, <1>12 DEF ReviewInv, Open
<1>15. Fits(next, bundle)
  BY <1>2, <1>8 DEF ReviewInv, Fits
<1>16. Shown(next)
  BY <1>2, <1>8, <1>13 DEF ReviewInv, Shown
<1>17. next.session.approved \subseteq Decided(next.session) /\ next.pc \in Working
  BY <1>8, <1>11, <1>12 DEF Working
<1> QED
  BY <1>1, <1>2, <1>9, <1>14, <1>15, <1>16, <1>17, SavesInv DEF At

\* Of an item that is asked about: it is the first that is open.
LEMMA AskedType ==
  ASSUME ReviewInv, wizard.todo # {}
  PROVE  Asked \in wizard.todo /\ \A r \in wizard.todo : Asked <= r
<1>1. wizard.todo \in SUBSET Nat
  BY CommandType DEF ReviewInv, ReviewTypeOK, Refs
<1> QED
  BY <1>1, Smallest DEF Asked

\* An answer that a person may give makes an item.
LEMMA ItemOfType ==
  ASSUME ReviewInv, NEW r \in Refs, NEW choice \in Sayings(r)
  PROVE  /\ ItemOf(r, choice) \in Item
         /\ ItemOf(r, choice).action = "episode" => r \in Held
<1>1. /\ choice.action \in Actions \ {"none"} /\ choice.ids \in {"keep"} \cup Entered
      /\ choice.action = "episode" => r \in Held
  BY DEF Sayings, Choice, Actions, Held
<1>2. wizard.scratch \in [Shows -> Ids] /\ ShowOf[r] \in Shows
  BY CommandType, ReviewAssumption DEF ReviewInv, ReviewTypeOK
<1>3. choice.ids # "keep" => choice.ids \in Ids
  BY <1>1, ReviewAssumption
<1>4. wizard.scratch[ShowOf[r]] \in Ids /\ NoIds \in Ids
  BY <1>2, ReviewAssumption
<1>5. (IF choice.action # "episode" THEN NoIds
       ELSE IF choice.ids = "keep" THEN wizard.scratch[ShowOf[r]] ELSE choice.ids) \in Ids
  BY <1>3, <1>4
<1>6. ItemOf(r, choice).action = choice.action
  BY DEF ItemOf
<1> QED
  BY <1>1, <1>5, <1>6 DEF ItemOf, Item

\* An answer at the prompt, or from the answers file, saved.
LEMMA AnswerSavedInv ==
  ASSUME ReviewInv, At("ask"), wizard.todo # {}, NEW choice \in Sayings(Asked),
         Decide(Asked, choice)
  PROVE  ReviewInv'
<1> DEFINE r == Asked
           item == ItemOf(r, choice)
           session == WithAnswer(wizard.session, r, item)
           next == [wizard EXCEPT !.session = WithAnswer(@, r, item), !.todo = @ \ {r},
                                  !.scratch = ScratchAfter(r, item)]
<1>1. CASE Quits
  BY <1>1, EndsInv DEF At, Quits, GoesTo, NoFault, ReviewInv, ReviewTypeOK
<1>2. CASE Saves(next)
  <2>1. wizard.pc = "ask"
    BY DEF At
  <2>2. r \in wizard.todo /\ \A q \in wizard.todo : r <= q
    BY AskedType
  <2>3. wizard \in Commands
    BY DEF ReviewInv, ReviewTypeOK
  <2>4. wizard.session \in Session /\ wizard.todo \subseteq Refs /\ r \in Refs
        /\ wizard.scratch \in [Shows -> Ids]
    BY <2>2, <2>3, CommandType
  <2>5. item \in Item /\ ScratchAfter(r, item) =
          IF item.action = "episode" THEN [wizard.scratch EXCEPT ![ShowOf[r]] = item.ids]
          ELSE wizard.scratch
    BY <2>4, ItemOfType DEF ScratchAfter
  <2>6. item.action = "episode" => item.state = "answered"
    BY DEF ItemOf
  <2> HIDE DEF item, r
  <2>7. session \in Session
    BY <2>4, <2>5, AnswerItems
  <2>8. /\ next.pc = "ask" /\ next.session = session /\ next.todo = wizard.todo \ {r}
        /\ next.batch = wizard.batch /\ next.options = wizard.options
        /\ next.fresh = wizard.fresh /\ next.scratch = ScratchAfter(r, item)
    BY <2>1, <2>3 DEF Commands
  <2>9. ScratchAfter(r, item) \in [Shows -> Ids]
    BY <2>4, <2>5 DEF Item
  <2>10. next \in Commands
    BY <2>3, <2>7, <2>9 DEF Commands
  <2>11. r \notin Decided(wizard.session) /\ wizard.batch = {}
    BY <2>1, <2>2 DEF ReviewInv, Open
  <2>12. wizard.session.approved \subseteq Decided(wizard.session)
    BY <2>1 DEF ReviewInv, Behind, Working
  <2>13. /\ Decided(session) = IF item.state = "answered" THEN Decided(wizard.session) \cup {r}
                               ELSE Decided(wizard.session)
         /\ session.approved = wizard.session.approved
    BY <2>4, <2>5, <2>11, <2>12, AnswerDecides
  <2>14. \A q \in Refs : q # r => session.items[q] = wizard.session.items[q]
    BY <2>4, <2>5, AnswerItems
  <2>15. Named(session) = IF item.action = "episode" THEN Named(wizard.session) \cup {r}
                          ELSE Named(wizard.session)
    BY <2>4, <2>5, <2>6, <2>11, NamedAfter
  <2>16. wizard.fresh => CompiledIds(session) = ScratchAfter(r, item)
    <3>1. SUFFICES ASSUME wizard.fresh
                   PROVE  CompiledIds(session) = ScratchAfter(r, item)
      OBVIOUS
    <3>2. CompiledIds(wizard.session) = wizard.scratch
          /\ \A q \in Named(wizard.session) : q < r
      BY <2>1, <2>2, <3>1 DEF ReviewInv, Shown
    <3>3. CASE item.action = "episode"
      BY <2>4, <2>5, <2>6, <2>11, <3>2, <3>3, CompiledLast
    <3>4. CASE item.action # "episode"
      BY <2>4, <2>5, <2>11, <3>2, <3>4, CompiledKept
    <3> QED
      BY <3>3, <3>4
  <2> HIDE DEF next, session
  <2>17. Open(next)
    BY <2>1, <2>8, <2>11, <2>13 DEF ReviewInv, Open
  <2>18. Fits(next, bundle)
    BY <2>1, <2>4, <2>8, <2>14 DEF ReviewInv, Fits
  <2>19. Shown(next)
    <3>1. SUFFICES ASSUME wizard.fresh, NEW q \in Named(session), NEW p \in wizard.todo, p # r
                   PROVE  q < p
      BY <2>8, <2>16 DEF Shown
    <3>2. q \in Named(wizard.session) => q < p
      BY <2>1, <3>1 DEF ReviewInv, Shown
    <3>3. r < p
      BY <2>2, <2>4, <3>1 DEF Refs
    <3> QED
      BY <2>15, <3>1, <3>2, <3>3
  <2>20. next.session.approved \subseteq Decided(next.session) /\ next.pc \in Working
    BY <2>8, <2>12, <2>13 DEF Working
  <2> QED
    BY <1>2, <2>1, <2>10, <2>17, <2>18, <2>19, <2>20, SavesInv DEF At
<1> QED
  BY <1>1, <1>2 DEF Decide

\* What answers an item is something that a person may say of it.
LEMMA AskItemSays ==
  ASSUME ReviewInv, AskItem
  PROVE  \E choice \in Sayings(Asked) : Decide(Asked, choice)
<1>1. CASE wizard.options.answers
  <2>1. Asked \in wizard.todo /\ wizard.todo \subseteq Refs /\ wizard.pc = "ask"
    BY AskedType, CommandType DEF AskItem, At, ReviewInv, ReviewTypeOK
  <2>2. Asked \in DOMAIN bundle.answers /\ bundle # NoBundle
    BY <1>1, <2>1 DEF ReviewInv, Fits
  <2>3. bundle.answers[Asked] \in Prepared[Asked]
    BY <2>2 DEF ReviewInv, ReviewTypeOK
  <2>4. bundle.answers[Asked] \in Sayings(Asked)
    BY <2>1, <2>3, CommandAssumption
  <2> QED
    BY <1>1, <2>4 DEF AskItem
<1>2. CASE ~wizard.options.answers
  BY <1>2 DEF AskItem
<1> QED
  BY <1>1, <1>2

LEMMA AskItemInv ==
  ASSUME ReviewInv, AskItem
  PROVE  ReviewInv'
BY AskItemSays, AnswerSavedInv DEF AskItem

LEMMA FinishItemsInv ==
  ASSUME ReviewInv, FinishItems
  PROVE  ReviewInv'
<1> DEFINE phase == IF wizard.options.approve /\ ~Complete(wizard.session)
                    THEN "approve" ELSE "compile"
           next == To(phase)
<1>1. GoesTo(next) /\ wizard.pc = "ask"
  BY DEF FinishItems, At
<1>2. phase \in {"approve", "compile"}
  OBVIOUS
<1> HIDE DEF phase
<1>3. wizard \in Commands
  BY DEF ReviewInv, ReviewTypeOK
<1>4. /\ next.pc = phase /\ next.session = wizard.session /\ next.batch = wizard.batch
      /\ next.options = wizard.options /\ next.fresh = wizard.fresh
      /\ next.scratch = wizard.scratch /\ next \in Commands
  BY <1>2, <1>3 DEF To, Commands, Phases
<1> HIDE DEF next
<1>5. Open(next) /\ Fits(next, bundle) /\ Shown(next) /\ Behind(next, ledger)
  BY <1>1, <1>2, <1>4 DEF ReviewInv, Open, Fits, Shown, Behind, Working
<1> QED
  BY <1>1, <1>4, <1>5, GoesToInv DEF At

LEMMA ApproveScopeInv ==
  ASSUME ReviewInv, ApproveScope
  PROVE  ReviewInv'
<1>1. CASE ~(wizard.scope # {} /\ wizard.scope \subseteq Settled)
  <2>1. Quits
    BY <1>1 DEF ApproveScope
  <2> QED
    BY <2>1, EndsInv DEF ApproveScope, At, Quits, GoesTo, NoFault, ReviewInv, ReviewTypeOK
<1>2. CASE wizard.scope # {} /\ wizard.scope \subseteq Settled
  <2> DEFINE next == [wizard EXCEPT !.session.approved = wizard.scope, !.pc = "compile"]
  <2>1. Saves(next) /\ wizard.pc = "approve"
    BY <1>2 DEF ApproveScope, At
  <2>2. wizard \in Commands /\ wizard.session \in Session /\ wizard.scope \subseteq Refs
    BY CommandType DEF ReviewInv, ReviewTypeOK
  <2> DEFINE session == [wizard.session EXCEPT !.approved = wizard.scope]
  <2>3. /\ session \in Session /\ session.items = wizard.session.items
        /\ session.approved = wizard.scope
    BY <2>2 DEF Session
  <2>4. /\ next.pc = "compile" /\ next.session = session /\ next.batch = wizard.batch
        /\ next.options = wizard.options /\ next.fresh = wizard.fresh
        /\ next.scratch = wizard.scratch
    BY <2>2 DEF Commands
  <2> HIDE DEF session
  <2>5. next \in Commands
    BY <2>2, <2>3 DEF Commands, Phases, session
  <2> HIDE DEF next
  <2>6. Decided(session) = Decided(wizard.session) /\ CompiledIds(session) = CompiledIds(wizard.session)
    BY <2>3 DEF Decided, CompiledIds
  <2>7. Open(next) /\ Fits(next, bundle) /\ Shown(next)
    BY <2>1, <2>4, <2>6 DEF ReviewInv, Open, Fits, Shown
  <2>8. next.session.approved \subseteq Decided(next.session) /\ next.pc \in Working
    BY <1>2, <2>3, <2>4, <2>6 DEF Settled, Working
  <2> QED
    BY <2>1, <2>5, <2>7, <2>8, SavesInv DEF At
<1> QED
  BY <1>1, <1>2

LEMMA PublishContractInv ==
  ASSUME ReviewInv, PublishContract
  PROVE  ReviewInv'
<1>1. CASE WriteFails
  BY <1>1, WriteFailsInv DEF PublishContract, At
<1>2. CASE ~WriteFails
  <2>1. /\ contract' = Compiled(wizard.session) /\ wizard' = Idle
        /\ UNCHANGED <<ledger, bundle, faults>> /\ wizard.pc = "compile"
    BY <1>2 DEF PublishContract, NoFault, At
  <2>2. /\ contract'.session = wizard.session /\ contract'.ids = CompiledIds(wizard.session)
    BY <2>1 DEF Compiled
  <2>3. wizard.session \in Session
    BY CommandType DEF ReviewInv, ReviewTypeOK
  <2>4. ledger.file = "whole" /\ ledger.session = wizard.session
    BY <2>1 DEF ReviewInv, Behind, Working
  <2>5. ReviewTypeOK'
    BY <2>1, <2>2, <2>3, IdleCommand, CompiledIdsType DEF ReviewInv, ReviewTypeOK
  <2>6. ContractBehindLedger'
    BY <2>1, <2>2, <2>4 DEF ContractBehindLedger
  <2>7. Behind(wizard', ledger')
    BY <2>1, IdleCommand DEF ReviewInv, Behind, Working
  <2> QED
    BY <2>1, <2>5, <2>6, <2>7, IdleCommand DEF ReviewInv, At, Open, Fits, Shown, Behind
<1> QED
  BY <1>1, <1>2

LEMMA CrashReviewInv ==
  ASSUME ReviewInv, ~At("idle"), CrashReview
  PROVE  ReviewInv'
BY EndsInv, FaultType DEF CrashReview, ReviewInv, ReviewTypeOK

LEMMA ReviewInitInv ==
  ASSUME ReviewInit
  PROVE  ReviewInv
<1>1. ledger.file = "none" /\ ledger.session = Fresh /\ wizard = Idle /\ contract = NoContract
      /\ bundle = NoBundle /\ faults \in FaultRecords
  BY FaultAssumption DEF ReviewInit, NoLedger, NoneYet, FaultRecords
<1>2. ReviewTypeOK
  BY <1>1, IdleCommand, FreshSession DEF ReviewTypeOK
<1> QED
  BY <1>1, <1>2, IdleCommand, FreshSession
  DEF ReviewInv, ContractBehindLedger, Behind, Working, At

LEMMA ReviewStepInv ==
  ASSUME ReviewInv, [ReviewNext]_reviewVars
  PROVE  ReviewInv'
<1>1. CASE ReviewStep
  BY <1>1, CreateLedgerInv, FinishLedgerInv, SelectItemsInv, AcceptBatchInv, AnswerBatchInv,
     AskItemInv, FinishItemsInv, ApproveScopeInv, PublishContractInv, Zenon DEF ReviewStep
<1>2. CASE ~At("idle") /\ CrashReview
  BY <1>2, CrashReviewInv
<1>3. CASE \E options \in CommandLines : ResumeReview(options)
  BY <1>3, ResumeReviewInv
<1>4. CASE UNCHANGED reviewVars
  BY <1>4 DEF reviewVars, ReviewInv, ReviewTypeOK, At, ContractBehindLedger, Open, Fits,
              Shown, Behind
<1> QED
  BY <1>1, <1>2, <1>3, <1>4, StartReviewInv, DiscardPartialInv, PrepareAnswersInv
  DEF ReviewNext

-------------------------------------------------------------------------------
(* What a step does to the files. *)

\* A step that answers, with what a reader of the ledger may rely on.
Answers(r, item) ==
  /\ ledger.file = "whole" /\ ledger'.file = "whole"
  /\ r \notin Decided(ledger.session)
  /\ ledger'.session = WithAnswer(ledger.session, r, item)
  /\ wizard.options.answers => ledger.session.items[r] = bundle.seen.items[r]

\* A step that approves a part.
Approves(scope) ==
  /\ ledger.file = "whole" /\ ledger'.file = "whole" /\ scope # {}
  /\ ledger'.session.items = ledger.session.items /\ ledger'.session.approved = scope

\* A ledger in which nothing is decided.
Untouched(l) == l.session = Fresh

LEMMA BatchStep ==
  ASSUME ReviewInv, AnswerBatch
  PROVE  ledger' = ledger \/ \E r \in Refs, item \in Item : Answers(r, item)
<1> DEFINE r == NextInBatch
           item == [state |-> "answered", ids |-> NoIds,
                    action |-> IF r \in Duplicates THEN "select_winner" ELSE "keep_held"]
           session == WithAnswer(wizard.session, r, item)
           next == [wizard EXCEPT !.session = WithAnswer(@, r, item), !.batch = @ \ {r},
                                  !.pc = IF wizard.batch = {r} THEN "ask" ELSE "batch"]
<1>1. Saves(next) /\ wizard.pc = "batch" /\ wizard.batch # {}
  BY DEF AnswerBatch, At
<1>2. r \in wizard.batch
  BY <1>1, NextInBatchType
<1> HIDE DEF r
<1>3. item \in Item
  BY ReviewAssumption DEF Item, Actions
<1> HIDE DEF item
<1>4. wizard \in Commands
  BY DEF ReviewInv, ReviewTypeOK
<1>5. next.session = session
  BY <1>4 DEF Commands
<1> HIDE DEF next, session
<1>6. SUFFICES ASSUME ledger' = Whole(next.session)
               PROVE  Answers(r, item) /\ r \in Refs
  BY <1>1, <1>3 DEF Saves, WriteFails
<1>7. ledger.file = "whole" /\ ledger.session = wizard.session
  BY <1>1 DEF ReviewInv, Behind, Working
<1>8. ledger'.file = "whole" /\ ledger'.session = session
  BY <1>5, <1>6 DEF Whole
<1>9. r \in Refs /\ r \notin Decided(wizard.session) /\ ~wizard.options.answers
  BY <1>1, <1>2, <1>4, CommandType DEF ReviewInv, Open, Fits
<1> QED
  BY <1>7, <1>8, <1>9 DEF Answers, session

LEMMA AskStep ==
  ASSUME ReviewInv, AskItem
  PROVE  ledger' = ledger \/ \E r \in Refs, item \in Item : Answers(r, item)
<1>1. PICK choice \in Sayings(Asked) : Decide(Asked, choice)
  BY AskItemSays
<1> DEFINE r == Asked
           item == ItemOf(r, choice)
           session == WithAnswer(wizard.session, r, item)
           next == [wizard EXCEPT !.session = WithAnswer(@, r, item), !.todo = @ \ {r},
                                  !.scratch = ScratchAfter(r, item)]
<1>2. Saves(next) \/ ledger' = ledger
  BY <1>1 DEF Decide, Quits, GoesTo
<1>3. r \in wizard.todo /\ wizard.pc = "ask"
  BY AskedType DEF AskItem, At
<1>4. wizard \in Commands /\ r \in Refs
  BY <1>3, CommandType DEF ReviewInv, ReviewTypeOK
<1>5. item \in Item
  BY <1>4, ItemOfType
<1> HIDE DEF r, item
<1>6. next.session = session
  BY <1>4 DEF Commands
<1> HIDE DEF next, session
<1>7. SUFFICES ASSUME ledger' = Whole(next.session)
               PROVE  Answers(r, item)
  BY <1>2, <1>4, <1>5 DEF Saves, WriteFails
<1>8. ledger.file = "whole" /\ ledger.session = wizard.session
  BY <1>3 DEF ReviewInv, Behind, Working
<1>9. ledger'.file = "whole" /\ ledger'.session = session
  BY <1>6, <1>7 DEF Whole
<1>10. r \notin Decided(wizard.session)
  BY <1>3 DEF ReviewInv, Open
<1>11. wizard.options.answers => wizard.session.items[r] = bundle.seen.items[r]
  BY <1>3 DEF ReviewInv, Fits
<1> QED
  BY <1>8, <1>9, <1>10, <1>11 DEF Answers, session

LEMMA ApproveStep ==
  ASSUME ReviewInv, ApproveScope
  PROVE  ledger' = ledger \/ \E scope \in SUBSET Refs : Approves(scope)
<1> DEFINE next == [wizard EXCEPT !.session.approved = wizard.scope, !.pc = "compile"]
<1>1. wizard \in Commands /\ wizard.session \in Session /\ wizard.scope \subseteq Refs
      /\ wizard.pc = "approve"
  BY CommandType DEF ReviewInv, ReviewTypeOK, ApproveScope, At
<1>2. next.session = [wizard.session EXCEPT !.approved = wizard.scope]
  BY <1>1 DEF Commands
<1>3. (Saves(next) /\ wizard.scope # {}) \/ ledger' = ledger
  BY DEF ApproveScope, Quits, GoesTo
<1> HIDE DEF next
<1>4. SUFFICES ASSUME ledger' = Whole(next.session), wizard.scope # {}
               PROVE  Approves(wizard.scope)
  BY <1>1, <1>3 DEF Saves, WriteFails
<1>5. ledger.file = "whole" /\ ledger.session = wizard.session
  BY <1>1 DEF ReviewInv, Behind, Working
<1>6. ledger'.file = "whole" /\ ledger'.session = next.session
  BY <1>4 DEF Whole
<1>7. next.session.items = wizard.session.items /\ next.session.approved = wizard.scope
  BY <1>1, <1>2 DEF Session
<1> QED
  BY <1>4, <1>5, <1>6, <1>7 DEF Approves

\* The ledger changes by an answer to an open item, by an approval, or while
\* nothing is decided in it.
LEMMA LedgerStep ==
  ASSUME ReviewInv, [ReviewNext]_reviewVars
  PROVE  \/ ledger' = ledger
         \/ Untouched(ledger) /\ Untouched(ledger)'
         \/ \E r \in Refs, item \in Item : Answers(r, item)
         \/ \E scope \in SUBSET Refs : Approves(scope)
<1>1. CASE AnswerBatch
  BY <1>1, BatchStep
<1>2. CASE AskItem
  BY <1>2, AskStep
<1>3. CASE ApproveScope
  BY <1>3, ApproveStep
<1>4. CASE CreateLedger \/ FinishLedger
  <2>1. wizard.session = Fresh /\ ledger.session = Fresh
    BY <1>4 DEF CreateLedger, FinishLedger, At, ReviewInv, Behind
  <2>2. ledger' = ledger \/ ledger' = Whole(wizard.session) \/ ledger' = PartialLedger
    BY <1>4 DEF CreateLedger, FinishLedger, WriteFails
  <2> QED
    BY <2>1, <2>2 DEF Untouched, Whole, PartialLedger
<1>5. CASE DiscardPartial
  <2>1. ledger.session = Fresh /\ ledger' = NoLedger
    BY <1>5 DEF DiscardPartial, ReviewInv, Behind
  <2> QED
    BY <2>1 DEF Untouched, NoLedger
<1>6. CASE SelectItems \/ AcceptBatch \/ FinishItems
  <2>1. CASE SelectItems
    BY <2>1, Zenon DEF SelectItems, GoesTo
  <2>2. CASE AcceptBatch
    BY <2>2 DEF AcceptBatch, Quits, GoesTo
  <2>3. CASE FinishItems
    BY <2>3 DEF FinishItems, GoesTo
  <2> QED
    BY <1>6, <2>1, <2>2, <2>3
<1>7. CASE StartReview \/ PrepareAnswers \/ PublishContract \/ CrashReview
           \/ \E options \in CommandLines : ResumeReview(options)
  BY <1>7 DEF StartReview, PrepareAnswers, PublishContract, CrashReview, ResumeReview,
              Begins, WriteFails
<1>8. CASE UNCHANGED reviewVars
  BY <1>8 DEF reviewVars
<1> QED
  BY <1>1, <1>2, <1>3, <1>4, <1>5, <1>6, <1>7, <1>8, Zenon DEF ReviewNext, ReviewStep

\* A contract is published by a command that has all its answers, and taken off
\* when the next one begins.
LEMMA ContractStep ==
  ASSUME ReviewInv, [ReviewNext]_reviewVars, contract' # contract
  PROVE  wizard = Idle \/ contract' = Compiled(wizard.session)
<1>1. CASE At("idle")
  BY <1>1 DEF At, ReviewInv, Behind
<1>2. CASE PublishContract
  BY <1>2 DEF PublishContract, WriteFails
<1>3. CASE SelectItems \/ AcceptBatch \/ FinishItems
  <2>1. CASE SelectItems
    BY <2>1, Zenon DEF SelectItems, GoesTo
  <2>2. CASE AcceptBatch
    BY <2>2 DEF AcceptBatch, Quits, GoesTo
  <2>3. CASE FinishItems
    BY <2>3 DEF FinishItems, GoesTo
  <2> QED
    BY <1>3, <2>1, <2>2, <2>3
<1>4. CASE AnswerBatch \/ ApproveScope \/ CreateLedger \/ FinishLedger \/ CrashReview
  BY <1>4 DEF AnswerBatch, ApproveScope, CreateLedger, FinishLedger, CrashReview, Saves,
              WriteFails, Quits, GoesTo
<1>5. CASE AskItem
  BY <1>5, AskItemSays DEF Decide, Saves, WriteFails, Quits, GoesTo
<1>6. CASE UNCHANGED reviewVars
  BY <1>6 DEF reviewVars
<1>7. CASE DiscardPartial \/ PrepareAnswers \/ StartReview
           \/ \E options \in CommandLines : ResumeReview(options)
  BY <1>1, <1>7 DEF DiscardPartial, PrepareAnswers, StartReview, ResumeReview
<1> QED
  BY <1>2, <1>3, <1>4, <1>5, <1>6, <1>7, Zenon DEF ReviewNext, ReviewStep

-------------------------------------------------------------------------------
(* The theorems. *)

LEMMA ReviewInvariant ==
  ReviewSpec => []ReviewInv
<1>1. ReviewInit => ReviewInv
  BY ReviewInitInv
<1>2. ReviewInv /\ [ReviewNext]_reviewVars => ReviewInv'
  BY ReviewStepInv
<1> QED
  BY <1>1, <1>2, PTL DEF ReviewSpec

\* The ledger, the contract, the answers file and the running command hold at
\* every step of every command what their types say: in particular every IDs
\* that are compiled or shown are IDs, though the code reads them back from the
\* last of several answers.
THEOREM ReviewTypeCorrectness ==
  ReviewSpec => []ReviewTypeOK
<1>1. ReviewInv => ReviewTypeOK
  BY DEF ReviewInv
<1> QED
  BY <1>1, ReviewInvariant, PTL

\* A contract never decides what the ledger does not hold: run_review_system
\* publishes from the session in memory, which is the one it saved.
THEOREM ContractsRestOnTheLedger ==
  ReviewSpec => []ContractBehindLedger
<1>1. ReviewInv => ContractBehindLedger
  BY DEF ReviewInv
<1> QED
  BY <1>1, ReviewInvariant, PTL

\* No command, failure or crash reopens, changes or loses an answer that the
\* ledger file holds: with_answer is given open items only, and each save
\* replaces the file by the session that was read from it plus one answer.
THEOREM AnswersAreKept ==
  ReviewSpec => AnswersStand
<1>1. ASSUME ReviewInv, [ReviewNext]_reviewVars, NEW r \in Decided(ledger.session)
      PROVE  ledger'.file = "whole" /\ ledger'.session.items[r] = ledger.session.items[r]
  <2>1. ledger.file = "whole" /\ ~Untouched(ledger)
    BY <1>1, FreshSession DEF ReviewInv, Behind, Untouched
  <2>2. ledger.session \in Session /\ r \in Refs
    BY <1>1 DEF ReviewInv, ReviewTypeOK, Decided
  <2>3. CASE \E q \in Refs, item \in Item : Answers(q, item)
    <3>1. PICK q \in Refs, item \in Item : Answers(q, item)
      BY <2>3
    <3> QED
      BY <1>1, <2>2, <3>1, AnswerItems DEF Answers
  <2>4. CASE \E scope \in SUBSET Refs : Approves(scope)
    BY <2>4 DEF Approves
  <2> QED
    BY <1>1, <2>1, <2>3, <2>4, LedgerStep
<1>2. ReviewInv /\ [ReviewNext]_reviewVars =>
        [\A r \in Decided(ledger.session) :
           ledger'.file = "whole" /\ ledger'.session.items[r] = ledger.session.items[r]]_reviewVars
  BY <1>1
<1> QED
  BY <1>2, ReviewInvariant, PTL DEF ReviewSpec, AnswersStand

\* Going on with the review after a partial approval never makes a ledger
\* unacceptable to planning: with_answer drops the approval of an item that is
\* no longer answered, and no item of an approved scope ever stops being.
THEOREM ApprovalsAreKept ==
  ReviewSpec => ApprovalStands
<1>1. ASSUME ReviewInv, [ReviewNext]_reviewVars, UsableForPlanning(ledger.session)
      PROVE  UsableForPlanning(ledger'.session)
  <2>1. ~Untouched(ledger)
    BY <1>1, FreshSession DEF Untouched
  <2>2. CASE \E r \in Refs, item \in Item : Answers(r, item)
    <3>1. PICK r \in Refs, item \in Item : Answers(r, item)
      BY <2>2
    <3>2. ledger.session \in Session /\ ledger.session.approved \subseteq Decided(ledger.session)
      BY <1>1 DEF ReviewInv, ReviewTypeOK, Behind
    <3>3. ledger'.session.approved = ledger.session.approved
      BY <3>1, <3>2, AnswerDecides DEF Answers
    <3>4. ~Complete(ledger.session)
      BY <3>1 DEF Answers, Complete
    <3> QED
      BY <1>1, <3>3, <3>4 DEF UsableForPlanning
  <2>3. CASE \E scope \in SUBSET Refs : Approves(scope)
    BY <2>3 DEF Approves, UsableForPlanning
  <2> QED
    BY <1>1, <2>1, <2>2, <2>3, LedgerStep
<1>2. ReviewInv /\ [ReviewNext]_reviewVars =>
        [UsableForPlanning(ledger.session) => UsableForPlanning(ledger'.session)]_reviewVars
  BY <1>1
<1> QED
  BY <1>2, ReviewInvariant, PTL DEF ReviewSpec, ApprovalStands

\* Prepared answers are applied to items as they were when the answers were
\* prepared: the answers file is bound to the session that the command read,
\* and the session changes under it by its own answers only.
THEOREM PreparedAnswersMeetTheirItems ==
  ReviewSpec => PreparedAnswersFit
<1>1. ASSUME ReviewInv, [ReviewNext]_reviewVars, wizard.options.answers, NEW r \in Refs,
             ledger'.session.items[r] # ledger.session.items[r]
      PROVE  ledger.session.items[r] = bundle.seen.items[r]
  <2>1. ledger.session \in Session
    BY <1>1 DEF ReviewInv, ReviewTypeOK
  <2>2. CASE \E q \in Refs, item \in Item : Answers(q, item)
    <3>1. PICK q \in Refs, item \in Item : Answers(q, item)
      BY <2>2
    <3>2. q = r
      BY <1>1, <2>1, <3>1, AnswerItems DEF Answers
    <3> QED
      BY <1>1, <3>1, <3>2 DEF Answers
  <2> QED
    BY <1>1, <2>2, LedgerStep DEF Approves, Untouched
<1>2. ReviewInv /\ [ReviewNext]_reviewVars =>
        [wizard.options.answers =>
           \A r \in Refs : ledger'.session.items[r] # ledger.session.items[r] =>
             ledger.session.items[r] = bundle.seen.items[r]]_reviewVars
  BY <1>1
<1> QED
  BY <1>2, ReviewInvariant, PTL DEF ReviewSpec, PreparedAnswersFit

\* A review that begins and ends in one command compiles, for every show, the
\* IDs that the wizard showed last: compile_active_overrides takes the last
\* item of a show, and the loop has asked about the items in that order.
THEOREM OneSittingCompilesWhatItShowed ==
  ReviewSpec => OneSittingKeepsIds
<1>1. ASSUME ReviewInv, [ReviewNext]_reviewVars, contract' # contract, wizard.fresh
      PROVE  contract'.ids = wizard.scratch
  <2>1. contract' = Compiled(wizard.session)
    BY <1>1, ContractStep, IdleCommand
  <2> QED
    BY <1>1, <2>1 DEF Compiled, ReviewInv, Shown
<1>2. ReviewInv /\ [ReviewNext]_reviewVars =>
        [contract' # contract /\ wizard.fresh => contract'.ids = wizard.scratch]_reviewVars
  BY <1>1
<1> QED
  BY <1>2, ReviewInvariant, PTL DEF ReviewSpec, OneSittingKeepsIds
===============================================================================
