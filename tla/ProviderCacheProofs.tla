-------------------------- MODULE ProviderCacheProofs --------------------------
(***************************************************************************)
(* Proofs about ProviderCache, for any number of commands, titles, shows   *)
(* and faults of every kind.                                               *)
(***************************************************************************)
EXTENDS ProviderCache, NumberSetLemmas

Places == {"idle", "read", "fetch", "write"}
AnyRecord == UNION {Records(request) : request \in Requests}
CommandRecords ==
  [pc : Places, mode : Modes, stage : Stages, todo : SUBSET Titles, got : AnyRecord,
   primary : AnyRecord, secondary : AnyRecord, recovered : SUBSET Shows]

\* What a request may bring.
Fetched(request) == {Ok(found) : found \in Responses(request)} \cup {Error}

\* The request that a command is about, as a function of what the command is doing.
RequestOf(w) ==
  CASE w.stage = "primary" -> Tvmaze(Original)
    [] w.stage = "secondary" -> Tmdb
    [] OTHER -> Tvmaze(Min(w.todo))

\* What search_shows keeps of a record, and whether it asks on.
After(w, record) ==
  CASE w.stage = "primary" -> [w EXCEPT !.primary = record, !.stage = "secondary"]
    [] w.stage = "secondary" ->
         [w EXCEPT !.secondary = record, !.stage = "retry", !.todo = record.found]
    [] OTHER -> [w EXCEPT !.todo = @ \ {Min(@)}, !.recovered = @ \cup record.found]

AsksOn(w, record) ==
  CASE w.stage = "primary" -> NeedsSecond(record)
    [] w.stage = "secondary" -> Helps(record) /\ ~Resolved(w.primary)
    [] OTHER -> After(w, record).todo # {}

PlanOf(w) == [mode |-> w.mode, answer |-> Snapshot(w.primary, w.secondary, w.recovered)]

\* The records in the files.
HeldRecords == [r \in Requests |-> cache[r].record]

\* What a command that nobody disturbed has found is what the files hold; an
\* online command leaves a file behind each request.
Held(w, held, request) == w.mode = "online" => held[request] # Miss

Knows(w, held) ==
  /\ w.stage # "retry" => w.recovered = {}
  /\ w.stage # "primary" =>
       w.primary = held[Tvmaze(Original)] /\ Held(w, held, Tvmaze(Original))
  /\ w.stage = "retry" =>
       /\ w.secondary = held[Tmdb] /\ Held(w, held, Tmdb) /\ w.todo \subseteq w.secondary.found
       /\ w.recovered = UNION {held[Tvmaze(t)].found : t \in w.secondary.found \ w.todo}
       /\ \A t \in w.secondary.found \ w.todo : Held(w, held, Tvmaze(t))

\* It asks the network only for what no file holds.
Follows(w, held) ==
  /\ Knows(w, held)
  /\ w.pc \in {"fetch", "write"} => w.mode = "online" /\ held[RequestOf(w)] = Miss

\* A request of TVMaze goes out only where there is no fresh answer.
NotFresh(w, entries) ==
  w.pc \in {"fetch", "write"} /\ RequestOf(w) # Tmdb =>
    ~(Resolved(entries[RequestOf(w)].record) /\ ~entries[RequestOf(w)].stale)

CacheShape ==
  /\ cache \in [Requests -> [record : AnyRecord, stale : BOOLEAN]]
  /\ command \in [Commands -> CommandRecords]
  /\ DOMAIN plan = Commands
  /\ CacheTypeOK

\* Nobody changed a file under the command, and it could read all of them.
Undisturbed(c) == ~touched[c] /\ unread[c] = {}

CommandInv(c) ==
  /\ command[c].pc = "write" => command[c].got \in Fetched(RequestOf(command[c]))
  /\ command[c].pc # "idle" => plan[c] = NoPlan
  /\ ~touched[c] /\ RequestOf(command[c]) \notin unread[c] => NotFresh(command[c], cache)
  /\ Undisturbed(c) /\ command[c].pc # "idle" /\ command[c].mode # "refresh" =>
       Follows(command[c], HeldRecords)
  /\ plan[c] # NoPlan /\ plan[c].mode # "refresh" /\ Undisturbed(c) =>
       plan[c].answer = Replay(HeldRecords)

CacheInv == CacheShape /\ \A c \in Commands : CommandInv(c)

-------------------------------------------------------------------------------
(* Requests and records. *)

LEMMA RequestsDiffer ==
  /\ Tmdb \in Requests /\ Original \in Titles /\ \A t \in Titles : Tvmaze(t) \in Requests
  /\ \A t \in Titles : Tvmaze(t) # Tmdb
  /\ \A t, u \in Titles : Tvmaze(t) = Tvmaze(u) => t = u
  /\ \A r \in Requests \ {Tmdb} : \E t \in Titles : r = Tvmaze(t)
<1>1. Original \in Titles
  BY CacheAssumption DEF Original, Titles
<1>2. "tvmaze" # "tmdb"
  OBVIOUS
<1> QED
  BY <1>1, <1>2 DEF Requests, Tvmaze, Tmdb

LEMMA RecordsOfTvmaze ==
  ASSUME NEW t \in Titles, NEW record \in Records(Tvmaze(t))
  PROVE  record.found \subseteq Shows /\ (~Resolved(record) => record.found = {})
<1>1. Responses(Tvmaze(t)) = Listed[t] /\ Listed[t] \subseteq SUBSET Shows
  BY RequestsDiffer, CacheAssumption DEF Responses, Candidates, Tvmaze
<1> QED
  BY <1>1 DEF Records, Ok, Error, Corrupt, Miss, Alien, Record, Resolved

LEMMA RecordsOfTmdb ==
  ASSUME NEW record \in Records(Tmdb)
  PROVE  record.found \subseteq Titles /\ (~Resolved(record) => record.found = {})
<1>1. Responses(Tmdb) \subseteq SUBSET Titles
  BY CacheAssumption DEF Responses, Suggestions
<1> QED
  BY <1>1 DEF Records, Ok, Error, Corrupt, Miss, Alien, Record, Resolved

LEMMA MissFacts ==
  /\ \A r \in Requests : Miss \in Records(r) /\ Corrupt \in Records(r) /\ Alien \in Records(r)
  /\ \A r \in Requests : Records(r) \subseteq AnyRecord
  /\ Miss.found = {} /\ ~Resolved(Miss) /\ Miss # Alien /\ Miss # Corrupt
  /\ \A r \in Requests : \A record \in Fetched(r) :
       record \in Records(r) /\ record # Miss /\ record # Alien
BY DEF Records, AnyRecord, Fetched, Miss, Corrupt, Alien, Error, Ok, Record, Resolved

LEMMA IdleShape ==
  /\ Idle \in CommandRecords /\ Idle.pc = "idle"
  /\ CommandTypeOK(Idle)
<1>1. Miss \in AnyRecord
  BY MissFacts, RequestsDiffer
<1> QED
  BY <1>1 DEF Idle, CommandRecords, Places, Modes, Stages, CommandTypeOK

LEMMA RequestType ==
  ASSUME NEW w \in CommandRecords, CommandTypeOK(w)
  PROVE  /\ RequestOf(w) \in Requests
         /\ w.stage = "primary" => RequestOf(w) = Tvmaze(Original)
         /\ w.stage = "secondary" => RequestOf(w) = Tmdb
         /\ w.stage = "retry" => RequestOf(w) = Tvmaze(Min(w.todo)) /\ Min(w.todo) \in w.todo
                                 /\ Min(w.todo) \in Titles
<1>1. w.stage \in Stages /\ w.todo \subseteq Titles /\ (w.stage = "retry" => w.todo # {})
  BY DEF CommandTypeOK
<1>2. w.todo \in SUBSET Nat
  BY <1>1 DEF Titles
<1>3. w.stage = "retry" => Min(w.todo) \in w.todo
  BY <1>1, <1>2, Smallest
<1> QED
  BY <1>1, <1>3, RequestsDiffer DEF RequestOf, Stages

LEMMA CurrentIs ==
  ASSUME NEW c \in Commands
  PROVE  Current(c) = RequestOf(command[c])
BY DEF Current, RequestOf

\* What a command does with a record.
LEMMA TakesIs ==
  ASSUME NEW c \in Commands, NEW record, Takes(c, record)
  PROVE  IF AsksOn(command[c], record)
         THEN /\ command' = [command EXCEPT ![c] =
                   [After(command[c], record) EXCEPT !.pc = "read", !.got = Miss]]
              /\ UNCHANGED plan
         ELSE /\ command' = [command EXCEPT ![c] = Idle]
              /\ plan' = [plan EXCEPT ![c] = PlanOf(After(command[c], record))]
<1> DEFINE w == command[c]
           next == CASE w.stage = "primary" ->
                          [w EXCEPT !.primary = record, !.stage = "secondary"]
                     [] w.stage = "secondary" ->
                          [w EXCEPT !.secondary = record, !.stage = "retry", !.todo = record.found]
                     [] OTHER -> [w EXCEPT !.todo = @ \ {Min(@)}, !.recovered = @ \cup record.found]
           more == CASE w.stage = "primary" -> NeedsSecond(record)
                     [] w.stage = "secondary" -> Helps(record) /\ ~Resolved(w.primary)
                     [] OTHER -> next.todo # {}
<1>1. next = After(w, record)
  BY DEF After
<1>2. more = AsksOn(w, record)
  BY <1>1 DEF AsksOn
<1>3. IF more THEN Asks(c, next) ELSE Finishes(c, next)
  BY DEF Takes
<1> HIDE DEF next, more, w
<1>4. IF AsksOn(w, record) THEN Asks(c, After(w, record)) ELSE Finishes(c, After(w, record))
  BY <1>1, <1>2, <1>3
<1> QED
  BY <1>4 DEF Asks, Finishes, PlanOf, w

\* What is kept of a record that the request may bring.
LEMMA AfterPrimary ==
  ASSUME NEW w \in CommandRecords, CommandTypeOK(w), w.stage = "primary",
         NEW record \in Records(RequestOf(w))
  PROVE  /\ After(w, record) = [w EXCEPT !.primary = record, !.stage = "secondary"]
         /\ After(w, record) \in CommandRecords /\ CommandTypeOK(After(w, record))
         /\ AsksOn(w, record) = NeedsSecond(record)
<1>1. record \in AnyRecord
  BY RequestType, MissFacts
<1>2. After(w, record) = [w EXCEPT !.primary = record, !.stage = "secondary"]
  BY DEF After
<1>3. [w EXCEPT !.primary = record, !.stage = "secondary"] \in CommandRecords
  BY <1>1 DEF CommandRecords, Stages
<1> QED
  BY <1>2, <1>3 DEF AsksOn, CommandTypeOK, CommandRecords, Places, Stages

LEMMA AfterSecondary ==
  ASSUME NEW w \in CommandRecords, CommandTypeOK(w), w.stage = "secondary",
         NEW record \in Records(RequestOf(w))
  PROVE  /\ After(w, record) =
              [w EXCEPT !.secondary = record, !.stage = "retry", !.todo = record.found]
         /\ After(w, record) \in CommandRecords /\ record.found \subseteq Titles
         /\ AsksOn(w, record) = (Helps(record) /\ ~Resolved(w.primary))
<1>1. record \in AnyRecord /\ record.found \subseteq Titles
  BY RequestType, MissFacts, RecordsOfTmdb
<1>2. After(w, record) =
        [w EXCEPT !.secondary = record, !.stage = "retry", !.todo = record.found]
  BY DEF After
<1>3. [w EXCEPT !.secondary = record, !.stage = "retry", !.todo = record.found]
        \in CommandRecords
  BY <1>1 DEF CommandRecords, Stages
<1> QED
  BY <1>1, <1>2, <1>3 DEF AsksOn

LEMMA AfterRetry ==
  ASSUME NEW w \in CommandRecords, CommandTypeOK(w), w.stage = "retry",
         NEW record \in Records(RequestOf(w))
  PROVE  /\ After(w, record) =
              [w EXCEPT !.todo = w.todo \ {Min(w.todo)}, !.recovered = w.recovered \cup record.found]
         /\ After(w, record) \in CommandRecords
         /\ AsksOn(w, record) = (w.todo \ {Min(w.todo)} # {})
<1>1. record.found \subseteq Shows
  BY RequestType, RecordsOfTvmaze
<1>2. After(w, record) =
        [w EXCEPT !.todo = w.todo \ {Min(w.todo)}, !.recovered = w.recovered \cup record.found]
  BY DEF After, CommandRecords
<1>3. w.todo \ {Min(w.todo)} \subseteq Titles /\ w.recovered \cup record.found \subseteq Shows
  BY <1>1 DEF CommandRecords
<1>4. After(w, record) \in CommandRecords
  BY <1>2, <1>3 DEF CommandRecords
<1>5. After(w, record).todo = w.todo \ {Min(w.todo)}
  BY <1>2 DEF CommandRecords
<1> QED
  BY <1>2, <1>4, <1>5 DEF AsksOn

LEMMA TakesShape ==
  ASSUME CacheShape, NEW c \in Commands, NEW record \in Records(RequestOf(command[c])),
         Takes(c, record)
  PROVE  \E next \in CommandRecords :
           /\ command' = [command EXCEPT ![c] = next] /\ CommandTypeOK(next)
           /\ \/ next.pc = "read" /\ AsksOn(command[c], record) /\ UNCHANGED plan
                 /\ next = [After(command[c], record) EXCEPT !.pc = "read", !.got = Miss]
              \/ next = Idle /\ ~AsksOn(command[c], record)
                 /\ plan' = [plan EXCEPT ![c] = PlanOf(After(command[c], record))]
<1>1. command[c] \in CommandRecords /\ CommandTypeOK(command[c])
  BY DEF CacheShape, CacheTypeOK
<1>2. CASE ~AsksOn(command[c], record)
  BY <1>2, TakesIs, IdleShape
<1>3. CASE AsksOn(command[c], record)
  <2> DEFINE w == command[c]
             after == After(w, record)
             next == [after EXCEPT !.pc = "read", !.got = Miss]
  <2>1. command' = [command EXCEPT ![c] = next] /\ UNCHANGED plan
    BY <1>3, TakesIs
  <2>2. after \in CommandRecords /\ CommandTypeOK(after)
    <3> HIDE DEF w
    <3>1. w \in CommandRecords /\ CommandTypeOK(w) /\ record \in Records(RequestOf(w))
          /\ AsksOn(w, record)
      BY <1>1, <1>3 DEF w
    <3>2. CASE w.stage = "primary"
      BY <3>1, <3>2, AfterPrimary
    <3>3. CASE w.stage = "secondary"
      <4>1. after = [w EXCEPT !.secondary = record, !.stage = "retry", !.todo = record.found]
            /\ after \in CommandRecords /\ Helps(record)
        BY <3>1, <3>3, AfterSecondary
      <4>2. after.todo # {}
        BY <3>1, <4>1 DEF Helps, CommandRecords
      <4> QED
        BY <4>1, <4>2 DEF CommandTypeOK, CommandRecords, Places
    <3>4. CASE w.stage = "retry"
      <4>1. after = [w EXCEPT !.todo = w.todo \ {Min(w.todo)},
                              !.recovered = w.recovered \cup record.found]
            /\ after \in CommandRecords /\ w.todo \ {Min(w.todo)} # {}
        BY <3>1, <3>4, AfterRetry
      <4>2. after.todo # {}
        BY <3>1, <4>1 DEF CommandRecords
      <4> QED
        BY <4>1, <4>2 DEF CommandTypeOK, CommandRecords, Places
    <3> QED
      BY <3>1, <3>2, <3>3, <3>4 DEF CommandTypeOK, Stages
  <2> HIDE DEF after
  <2>3. Miss \in AnyRecord
    BY MissFacts, RequestsDiffer
  <2>4. next \in CommandRecords /\ next.pc = "read"
    BY <2>2, <2>3 DEF CommandRecords, Places
  <2>5. CommandTypeOK(next)
    BY <2>2, <2>4 DEF CommandTypeOK, CommandRecords
  <2> QED
    BY <1>3, <2>1, <2>4, <2>5 DEF after
<1> QED
  BY <1>2, <1>3

\* The records in the files, as the proofs use them.
Files(held) == held \in [Requests -> AnyRecord] /\ \A r \in Requests : held[r] \in Records(r)

LEMMA HeldFiles ==
  ASSUME CacheShape
  PROVE  Files(HeldRecords) /\ \A r \in Requests : HeldRecords[r] = cache[r].record
BY DEF CacheShape, CacheTypeOK, Files, HeldRecords

\* A record that was read, or written, adds to what is known; the last one makes
\* the plan that replaying makes.
LEMMA TakesKnows ==
  ASSUME NEW w \in CommandRecords, CommandTypeOK(w), NEW held, Files(held), Knows(w, held),
         Held(w, held, RequestOf(w)), NEW record, record = held[RequestOf(w)]
  PROVE  /\ AsksOn(w, record) =>
              Knows([After(w, record) EXCEPT !.pc = "read", !.got = Miss], held)
         /\ ~AsksOn(w, record) => PlanOf(After(w, record)).answer = Replay(held)
<1> DEFINE after == After(w, record)
           next == [after EXCEPT !.pc = "read", !.got = Miss]
<1>1. RequestOf(w) \in Requests /\ record \in Records(RequestOf(w))
  BY RequestType DEF Files
<1>2. after \in CommandRecords
  BY <1>1, AfterPrimary, AfterSecondary, AfterRetry DEF CommandTypeOK, Stages
<1>3. PlanOf(after).answer = Snapshot(after.primary, after.secondary, after.recovered)
  BY DEF PlanOf
<1>4. Replay(held) = Snapshot(held[Tvmaze(Original)], held[Tmdb],
                       UNION {held[Tvmaze(t)].found : t \in held[Tmdb].found})
  BY DEF Replay
<1>5. /\ next.mode = after.mode /\ next.stage = after.stage /\ next.todo = after.todo
      /\ next.primary = after.primary /\ next.secondary = after.secondary
      /\ next.recovered = after.recovered
  BY <1>2 DEF CommandRecords
<1>6. CASE w.stage = "primary"
  <2>1. after = [w EXCEPT !.primary = record, !.stage = "secondary"]
        /\ AsksOn(w, record) = NeedsSecond(record)
    BY <1>1, <1>6, AfterPrimary
  <2>2. /\ after.mode = w.mode /\ after.stage = "secondary" /\ after.primary = record
        /\ after.recovered = w.recovered
    BY <2>1 DEF CommandRecords
  <2>3. RequestOf(w) = Tvmaze(Original)
    BY <1>6, RequestType
  <2> HIDE DEF next, after
  <2>4. Knows(next, held)
    BY <1>5, <1>6, <2>2, <2>3 DEF Knows, Held
  <2>5. ~NeedsSecond(record) => PlanOf(after).answer = Replay(held)
    BY <1>3, <1>4, <2>2, <2>3 DEF Snapshot, Answer
  <2> QED
    BY <2>1, <2>4, <2>5 DEF next, after
<1>7. CASE w.stage = "secondary"
  <2>1. after = [w EXCEPT !.secondary = record, !.stage = "retry", !.todo = record.found]
        /\ AsksOn(w, record) = (Helps(record) /\ ~Resolved(w.primary))
    BY <1>1, <1>7, AfterSecondary
  <2>2. /\ after.mode = w.mode /\ after.stage = "retry" /\ after.primary = w.primary
        /\ after.recovered = w.recovered /\ after.secondary = record /\ after.todo = record.found
    BY <2>1 DEF CommandRecords
  <2>3. RequestOf(w) = Tmdb
    BY <1>7, RequestType
  <2>4. w.primary = held[Tvmaze(Original)] /\ Held(w, held, Tvmaze(Original))
        /\ w.recovered = {}
    BY <1>7 DEF Knows
  <2> HIDE DEF next, after
  <2>5. Knows(next, held)
    BY <1>5, <2>2, <2>3, <2>4 DEF Knows, Held
  <2>6. ~(Helps(record) /\ ~Resolved(w.primary)) => PlanOf(after).answer = Replay(held)
    BY <1>3, <1>4, <2>2, <2>3, <2>4 DEF Snapshot, Answer
  <2> QED
    BY <2>1, <2>5, <2>6 DEF next, after
<1>8. CASE w.stage = "retry"
  <2> DEFINE m == Min(w.todo)
  <2>1. after = [w EXCEPT !.todo = w.todo \ {m}, !.recovered = w.recovered \cup record.found]
        /\ AsksOn(w, record) = (w.todo \ {m} # {})
    BY <1>1, <1>8, AfterRetry
  <2>2. /\ after.mode = w.mode /\ after.stage = "retry" /\ after.primary = w.primary
        /\ after.recovered = w.recovered \cup record.found
        /\ after.secondary = w.secondary /\ after.todo = w.todo \ {m}
    BY <1>8, <2>1 DEF CommandRecords
  <2>3. RequestOf(w) = Tvmaze(m) /\ m \in w.todo
    BY <1>8, RequestType
  <2> HIDE DEF m
  <2>4. /\ w.primary = held[Tvmaze(Original)] /\ Held(w, held, Tvmaze(Original))
        /\ w.secondary = held[Tmdb] /\ Held(w, held, Tmdb) /\ w.todo \subseteq w.secondary.found
        /\ w.recovered = UNION {held[Tvmaze(t)].found : t \in w.secondary.found \ w.todo}
        /\ \A t \in w.secondary.found \ w.todo : Held(w, held, Tvmaze(t))
    BY <1>8 DEF Knows
  <2> HIDE DEF next, after
  <2>5. after.secondary.found \ after.todo = (w.secondary.found \ w.todo) \cup {m}
    BY <2>2, <2>3, <2>4
  <2>6. after.recovered =
          UNION {held[Tvmaze(t)].found : t \in after.secondary.found \ after.todo}
    BY <2>2, <2>3, <2>4, <2>5
  <2>7. Knows(next, held)
    <3>1. after.todo \subseteq after.secondary.found
      BY <2>2, <2>4
    <3>2. \A t \in after.secondary.found \ after.todo : Held(w, held, Tvmaze(t))
      BY <2>3, <2>4, <2>5
    <3> QED
      BY <1>5, <2>2, <2>4, <2>6, <3>1, <3>2 DEF Knows, Held
  <2>8. w.todo \ {m} = {} => PlanOf(after).answer = Replay(held)
    <3>1. SUFFICES ASSUME after.todo = {}
                   PROVE  PlanOf(after).answer = Replay(held)
      BY <2>2
    <3>2. after.recovered = UNION {held[Tvmaze(t)].found : t \in held[Tmdb].found}
      BY <2>2, <2>4, <2>6, <3>1
    <3> QED
      BY <1>3, <1>4, <2>2, <2>4, <3>2
  <2> QED
    BY <2>1, <2>7, <2>8 DEF next, after
<1> QED
  BY <1>6, <1>7, <1>8 DEF CommandTypeOK, Stages

\* Writing what no file held leaves what the command has read in place.
LEMMA WriteKnows ==
  ASSUME NEW w \in CommandRecords, CommandTypeOK(w), NEW held, Files(held), Knows(w, held),
         w.mode = "online", held[RequestOf(w)] = Miss, NEW record \in Fetched(RequestOf(w))
  PROVE  /\ Files([held EXCEPT ![RequestOf(w)] = record])
         /\ Knows(w, [held EXCEPT ![RequestOf(w)] = record])
         /\ Held(w, [held EXCEPT ![RequestOf(w)] = record], RequestOf(w))
<1> DEFINE request == RequestOf(w)
           new == [held EXCEPT ![request] = record]
<1>1. request \in Requests
  BY RequestType
<1>2. record \in AnyRecord /\ record \in Records(request) /\ record # Miss
  BY <1>1, MissFacts
<1> HIDE DEF request
<1>3. /\ Files(new) /\ new[request] = record
      /\ \A r \in Requests : r # request => new[r] = held[r]
  BY <1>1, <1>2 DEF Files
<1> HIDE DEF new
<1>4. \A r \in Requests : Held(w, held, r) => r # request /\ new[r] = held[r]
  BY <1>3 DEF Held, request
<1>5. Tvmaze(Original) \in Requests /\ Tmdb \in Requests
      /\ \A t \in Titles : Tvmaze(t) \in Requests
  BY RequestsDiffer
<1>6. Knows(w, new)
  <2>1. w.stage # "retry" => w.recovered = {}
    BY DEF Knows
  <2>2. w.stage # "primary" => w.primary = new[Tvmaze(Original)]
                               /\ Held(w, new, Tvmaze(Original))
    BY <1>4, <1>5 DEF Knows, Held
  <2>3. SUFFICES ASSUME w.stage = "retry"
                 PROVE  /\ w.secondary = new[Tmdb] /\ Held(w, new, Tmdb)
                        /\ w.todo \subseteq w.secondary.found
                        /\ w.recovered =
                             UNION {new[Tvmaze(t)].found : t \in w.secondary.found \ w.todo}
                        /\ \A t \in w.secondary.found \ w.todo : Held(w, new, Tvmaze(t))
    BY <2>1, <2>2 DEF Knows
  <2>4. /\ w.secondary = held[Tmdb] /\ Held(w, held, Tmdb) /\ w.todo \subseteq w.secondary.found
        /\ w.recovered = UNION {held[Tvmaze(t)].found : t \in w.secondary.found \ w.todo}
        /\ \A t \in w.secondary.found \ w.todo : Held(w, held, Tvmaze(t))
    BY <2>3 DEF Knows
  <2>5. w.secondary.found \subseteq Titles
    BY <1>5, <2>4, RecordsOfTmdb DEF Files
  <2>6. \A t \in w.secondary.found \ w.todo :
          new[Tvmaze(t)] = held[Tvmaze(t)] /\ Held(w, new, Tvmaze(t))
    BY <1>4, <1>5, <2>4, <2>5 DEF Held
  <2>7. w.recovered = UNION {new[Tvmaze(t)].found : t \in w.secondary.found \ w.todo}
    BY <2>4, <2>6
  <2> QED
    BY <1>4, <1>5, <2>4, <2>6, <2>7 DEF Held
<1> QED
  BY <1>2, <1>3, <1>6 DEF Held, new, request

-------------------------------------------------------------------------------
(* The steps. *)

LEMMA AfterMode ==
  ASSUME NEW w \in CommandRecords, CommandTypeOK(w), NEW record \in Records(RequestOf(w))
  PROVE  After(w, record).mode = w.mode
<1>1. w.stage \in Stages
  BY DEF CommandTypeOK
<1>2. CASE w.stage = "primary"
  <2>1. After(w, record) = [w EXCEPT !.primary = record, !.stage = "secondary"]
    BY <1>2, AfterPrimary
  <2> QED
    BY <2>1 DEF CommandRecords
<1>3. CASE w.stage = "secondary"
  <2>1. After(w, record) =
         [w EXCEPT !.secondary = record, !.stage = "retry", !.todo = record.found]
    BY <1>3, AfterSecondary
  <2> QED
    BY <2>1 DEF CommandRecords
<1>4. CASE w.stage = "retry"
  <2>1. After(w, record) =
         [w EXCEPT !.todo = w.todo \ {Min(w.todo)}, !.recovered = w.recovered \cup record.found]
    BY <1>4, AfterRetry
  <2> QED
    BY <2>1 DEF CommandRecords
<1> QED
  BY <1>1, <1>2, <1>3, <1>4 DEF Stages

\* An entry with no record is no entry.
LEMMA MissIsNoEntry ==
  ASSUME CacheShape, NEW r \in Requests
  PROVE  cache[r].record = Miss <=> cache[r] = NoEntry
<1>1. cache[r] \in [record : AnyRecord, stale : BOOLEAN]
      /\ (cache[r].record = Miss => ~cache[r].stale)
  BY DEF CacheShape, CacheTypeOK
<1>2. cache[r].record = Miss => cache[r].stale = FALSE
  BY <1>1
<1>3. cache[r] = [record |-> cache[r].record, stale |-> cache[r].stale]
  BY <1>1
<1>4. NoEntry.record = Miss
  BY DEF NoEntry
<1> QED
  BY <1>2, <1>3, <1>4 DEF NoEntry

\* What the types say of the commands and of their plans.
CommandsShape ==
  /\ command \in [Commands -> CommandRecords]
  /\ DOMAIN plan = Commands
  /\ \A c \in Commands : CommandTypeOK(command[c])
  /\ \A c \in Commands : plan[c] = NoPlan \/ plan[c].mode \in Modes

CacheFileShape ==
  /\ cache \in [Requests -> [record : AnyRecord, stale : BOOLEAN]]
  /\ \A r \in Requests :
       /\ cache[r].record \in Records(r) /\ cache[r].stale \in BOOLEAN
       /\ cache[r].record = Alien => r = Tmdb
       /\ cache[r].record = Miss => ~cache[r].stale

LEMMA ShapeIs ==
  CacheShape <=> /\ CommandsShape /\ CacheFileShape
                 /\ touched \in [Commands -> BOOLEAN] /\ unread \in [Commands -> SUBSET Requests]
                 /\ faults \in FaultRecords
BY DEF CacheShape, CacheTypeOK, CommandsShape, CacheFileShape

\* A command whose files nobody else changes, or that is told that they were.
LEMMA OtherCommandInv ==
  ASSUME NEW c \in Commands, CommandInv(c), command'[c] = command[c], plan'[c] = plan[c],
         unread'[c] = unread[c],
         touched'[c] \/ (cache' = cache /\ touched'[c] = touched[c])
  PROVE  CommandInv(c)'
<1>1. CASE touched'[c]
  BY <1>1 DEF CommandInv, Undisturbed
<1>2. CASE cache' = cache /\ touched'[c] = touched[c]
  <2>1. HeldRecords' = HeldRecords
    BY <1>2 DEF HeldRecords
  <2> QED
    BY <1>2, <2>1 DEF CommandInv, Undisturbed
<1> QED
  BY <1>1, <1>2

\* A command that takes a record.
LEMMA TakesInv ==
  ASSUME CacheShape, NEW c \in Commands, NEW record \in Records(RequestOf(command[c])),
         plan[c] = NoPlan, Takes(c, record), Files(HeldRecords)',
         Undisturbed(c)' /\ command[c].mode # "refresh" =>
           /\ Knows(command[c], HeldRecords') /\ Held(command[c], HeldRecords', RequestOf(command[c]))
           /\ record = HeldRecords'[RequestOf(command[c])]
  PROVE  /\ CommandsShape' /\ CommandInv(c)'
         /\ \A d \in Commands \ {c} : command'[d] = command[d] /\ plan'[d] = plan[d]
<1> DEFINE w == command[c]
           after == After(w, record)
<1>1. PICK next \in CommandRecords :
        /\ command' = [command EXCEPT ![c] = next] /\ CommandTypeOK(next)
        /\ \/ next.pc = "read" /\ AsksOn(command[c], record) /\ UNCHANGED plan
              /\ next = [After(command[c], record) EXCEPT !.pc = "read", !.got = Miss]
           \/ next = Idle /\ ~AsksOn(command[c], record)
              /\ plan' = [plan EXCEPT ![c] = PlanOf(After(command[c], record))]
  BY TakesShape
<1>2. w \in CommandRecords /\ CommandTypeOK(w) /\ w.mode \in Modes /\ record \in Records(RequestOf(w))
      /\ DOMAIN plan = Commands /\ command \in [Commands -> CommandRecords]
  BY DEF CacheShape, CacheTypeOK, CommandTypeOK
<1>3. PlanOf(after).mode = w.mode
  BY <1>2, AfterMode DEF PlanOf
<1>4. command'[c] = next /\ \A d \in Commands \ {c} : command'[d] = command[d]
  BY <1>1, <1>2
<1>5. CASE next.pc = "read" /\ AsksOn(w, record) /\ UNCHANGED plan
           /\ next = [after EXCEPT !.pc = "read", !.got = Miss]
  <2>1. Undisturbed(c)' /\ next.mode # "refresh" => Knows(next, HeldRecords')
    <3>1. next.mode = w.mode
      <4>1. after.mode = w.mode /\ after \in CommandRecords
        BY <1>2, AfterMode, AfterPrimary, AfterSecondary, AfterRetry DEF CommandTypeOK, Stages
      <4> HIDE DEF after
      <4> QED
        BY <1>5, <4>1 DEF CommandRecords
    <3> HIDE DEF w
    <3>2. SUFFICES ASSUME Undisturbed(c)', w.mode # "refresh"
                   PROVE  Knows(next, HeldRecords')
      BY <3>1
    <3>3. Knows(w, HeldRecords') /\ Held(w, HeldRecords', RequestOf(w))
          /\ record = HeldRecords'[RequestOf(w)] /\ Files(HeldRecords')
      BY <3>2 DEF w, Files
    <3> QED
      BY <1>2, <1>5, <3>3, TakesKnows
  <2>2. CommandInv(c)'
    <3>1. NotFresh(command'[c], cache')
      BY <1>4, <1>5 DEF NotFresh
    <3>2. Undisturbed(c)' /\ command'[c].mode # "refresh" => Follows(command'[c], HeldRecords')
      BY <1>4, <1>5, <2>1 DEF Follows
    <3> QED
      BY <1>4, <1>5, <3>1, <3>2 DEF CommandInv
  <2> QED
    BY <1>1, <1>2, <1>4, <1>5, <2>2 DEF CommandsShape, CacheShape, CacheTypeOK
<1>6. CASE next = Idle /\ ~AsksOn(w, record) /\ plan' = [plan EXCEPT ![c] = PlanOf(after)]
  <2>1. plan'[c] = PlanOf(after) /\ \A d \in Commands \ {c} : plan'[d] = plan[d]
    BY <1>2, <1>6
  <2>2. Undisturbed(c)' /\ w.mode # "refresh" => PlanOf(after).answer = Replay(HeldRecords')
    <3>1. Undisturbed(c)' /\ w.mode # "refresh" =>
            Knows(w, HeldRecords') /\ Held(w, HeldRecords', RequestOf(w))
            /\ record = HeldRecords'[RequestOf(w)]
      OBVIOUS
    <3>2. Files(HeldRecords')
      BY DEF Files
    <3> HIDE DEF w
    <3> QED
      BY <1>2, <1>6, <3>1, <3>2, TakesKnows
  <2> HIDE DEF after
  <2>3. CommandInv(c)'
    <3>1. command'[c].pc = "idle"
      BY <1>4, <1>6, IdleShape
    <3>2. NotFresh(command'[c], cache')
      BY <3>1 DEF NotFresh
    <3> QED
      BY <1>3, <2>1, <2>2, <3>1, <3>2 DEF CommandInv
  <2>4. CommandsShape'
    BY <1>1, <1>2, <1>3, <1>4, <1>6, <2>1 DEF CommandsShape, CacheShape, CacheTypeOK
  <2> QED
    BY <1>4, <2>1, <2>3, <2>4
<1> QED
  BY <1>1, <1>5, <1>6

\* A step in which one command changes only what it is doing.
LEMMA CommandOnly ==
  ASSUME CacheInv, NEW c \in Commands, NEW next \in CommandRecords, CommandTypeOK(next),
         command' = [command EXCEPT ![c] = next], UNCHANGED <<cache, plan, touched>>,
         unread' \in [Commands -> SUBSET Requests],
         \A d \in Commands \ {c} : unread'[d] = unread[d],
         faults' \in FaultRecords, CommandInv(c)'
  PROVE  CacheInv'
<1>1. command'[c] = next /\ \A d \in Commands \ {c} : command'[d] = command[d]
  BY DEF CacheInv, CacheShape
<1>2. \A d \in Commands \ {c} : CommandInv(d)'
  BY <1>1, OtherCommandInv DEF CacheInv
<1>3. CommandsShape' /\ CacheFileShape' /\ touched' \in [Commands -> BOOLEAN]
  BY <1>1, ShapeIs DEF CacheInv, CommandsShape, CacheFileShape
<1> QED
  BY <1>2, <1>3, ShapeIs DEF CacheInv, CacheShape, CacheTypeOK, CommandsShape, CacheFileShape

LEMMA StopsInv ==
  ASSUME CacheInv, NEW c \in Commands, command[c].pc # "idle",
         command' = [command EXCEPT ![c] = Idle], UNCHANGED <<cache, plan, touched>>,
         unread' \in [Commands -> SUBSET Requests],
         \A d \in Commands \ {c} : unread'[d] = unread[d],
         faults' \in FaultRecords
  PROVE  CacheInv'
<1>1. command'[c] = Idle /\ plan'[c] = NoPlan
  BY DEF CacheInv, CacheShape, CommandInv
<1>2. CommandInv(c)'
  BY <1>1, IdleShape DEF CommandInv, NotFresh
<1> QED
  BY <1>2, IdleShape, CommandOnly

LEMMA FaultKept ==
  ASSUME CacheInv, NEW kind, Fault(kind)
  PROVE  faults' \in FaultRecords
BY FaultAssumption DEF CacheInv, CacheShape, CacheTypeOK, Fault, Strike, FaultRecords

LEMMA UnreadKept ==
  ASSUME CacheInv, UNCHANGED unread
  PROVE  unread' \in [Commands -> SUBSET Requests] /\ \A d \in Commands : unread'[d] = unread[d]
BY DEF CacheInv, CacheShape, CacheTypeOK

LEMMA StartPlanInv ==
  ASSUME CacheInv, NEW c \in Commands, NEW mode \in Modes, StartPlan(c, mode)
  PROVE  CacheInv'
<1> DEFINE next == [Idle EXCEPT !.pc = "read", !.mode = mode]
<1>1. /\ command' = [command EXCEPT ![c] = next] /\ plan' = [plan EXCEPT ![c] = NoPlan]
      /\ touched' = [touched EXCEPT ![c] = FALSE] /\ unread' = [unread EXCEPT ![c] = {}]
      /\ UNCHANGED <<cache, faults>>
  BY DEF StartPlan, NoFault
<1>2. /\ next \in CommandRecords /\ next.pc = "read" /\ next.stage = "primary"
      /\ next.recovered = {} /\ CommandTypeOK(next)
  <2>1. next \in CommandRecords
    BY IdleShape DEF CommandRecords, Places
  <2>2. next.pc = "read" /\ next.mode = mode /\ next.stage = "primary" /\ next.todo = {}
        /\ next.recovered = {}
    BY DEF Idle
  <2> QED
    BY <2>1, <2>2 DEF CommandTypeOK, Stages
<1> HIDE DEF next
<1>3. /\ command'[c] = next /\ plan'[c] = NoPlan
      /\ \A d \in Commands \ {c} : command'[d] = command[d] /\ plan'[d] = plan[d]
                                    /\ touched'[d] = touched[d] /\ unread'[d] = unread[d]
  BY <1>1 DEF CacheInv, CacheShape, CacheTypeOK
<1>4. \A d \in Commands \ {c} : CommandInv(d)'
  BY <1>1, <1>3, OtherCommandInv DEF CacheInv
<1>5. CommandInv(c)'
  BY <1>2, <1>3 DEF CommandInv, NotFresh, Follows, Knows
<1>6. CacheShape'
  <2>1. CommandsShape'
    BY <1>1, <1>2, <1>3, ShapeIs DEF CacheInv, CommandsShape
  <2>2. CacheFileShape'
    BY <1>1, ShapeIs DEF CacheInv, CacheFileShape
  <2>3. touched' \in [Commands -> BOOLEAN] /\ unread' \in [Commands -> SUBSET Requests]
        /\ faults' \in FaultRecords
    BY <1>1, ShapeIs DEF CacheInv
  <2> QED
    BY <2>1, <2>2, <2>3 DEF CacheShape, CacheTypeOK, CommandsShape, CacheFileShape
<1> QED
  BY <1>4, <1>5, <1>6 DEF CacheInv

\* An entry that is not kept, outside a refresh, is none.
LEMMA NotKept ==
  ASSUME CacheShape, NEW c \in Commands, ~Kept(c, cache[Current(c)])
  PROVE  /\ command[c].mode # "refresh" => cache[Current(c)].record = Miss
         /\ NotFresh([command[c] EXCEPT !.pc = "fetch"], cache)
<1> DEFINE w == command[c]
           next == [w EXCEPT !.pc = "fetch"]
<1>1. w \in CommandRecords /\ CommandTypeOK(w) /\ Current(c) = RequestOf(w)
  BY CurrentIs DEF CacheShape, CacheTypeOK
<1>2. RequestOf(w) \in Requests
  BY <1>1, RequestType
<1>3. ~(cache[RequestOf(w)] # NoEntry /\ w.mode # "refresh")
  BY <1>1 DEF Kept, KeptByTmdb, KeptByTvmaze
<1>4. RequestOf(w) # Tmdb =>
        cache[RequestOf(w)] = NoEntry
        \/ ~(Resolved(cache[RequestOf(w)].record) /\ ~cache[RequestOf(w)].stale)
  BY <1>1 DEF Kept, KeptByTvmaze
<1>5. RequestOf(next) = RequestOf(w)
  BY <1>1 DEF RequestOf, CommandRecords
<1>6. ~Resolved(NoEntry.record)
  BY MissFacts DEF NoEntry
<1> HIDE DEF next
<1> QED
  BY <1>1, <1>2, <1>3, <1>4, <1>5, <1>6, MissIsNoEntry DEF NotFresh, next

LEMMA ReadsFileInv ==
  ASSUME CacheInv, NEW c \in Commands, At(c, "read"), ReadsFile(c), UNCHANGED <<cache, touched>>
  PROVE  CacheInv'
<1> DEFINE w == command[c]
           request == RequestOf(w)
<1>1. /\ w \in CommandRecords /\ CommandTypeOK(w) /\ Current(c) = request /\ w.pc = "read"
      /\ CacheShape /\ CommandInv(c)
  BY CurrentIs DEF CacheInv, CacheShape, CacheTypeOK, At
<1>2. UNCHANGED <<cache, touched, unread, faults>>
  BY DEF ReadsFile, NoFault
<1>3. request \in Requests
  BY <1>1, RequestType
<1>4. plan[c] = NoPlan /\ faults' \in FaultRecords /\ HeldRecords' = HeldRecords
  BY <1>1, <1>2 DEF CommandInv, CacheShape, CacheTypeOK, HeldRecords
<1>5. ASSUME NEW record, Takes(c, record), record = cache[request].record,
             w.mode = "online" => record # Miss
      PROVE  CacheInv'
  <2>1. record \in Records(request) /\ Files(HeldRecords) /\ HeldRecords[request] = record
    BY <1>1, <1>3, <1>5, HeldFiles DEF CacheShape, CacheTypeOK
  <2>2. Undisturbed(c)' /\ w.mode # "refresh" =>
          Knows(w, HeldRecords) /\ Held(w, HeldRecords, request)
    BY <1>1, <1>2, <1>5, <2>1 DEF CommandInv, Follows, Held, Undisturbed
  <2>3. Files(HeldRecords)'
    BY <1>4, <2>1 DEF Files
  <2>4. /\ CommandsShape' /\ CommandInv(c)'
        /\ \A d \in Commands \ {c} : command'[d] = command[d] /\ plan'[d] = plan[d]
    BY <1>1, <1>4, <1>5, <2>1, <2>2, <2>3, TakesInv
  <2>5. \A d \in Commands \ {c} : CommandInv(d)'
    BY <1>2, <2>4, OtherCommandInv DEF CacheInv
  <2>6. CacheFileShape' /\ touched' \in [Commands -> BOOLEAN]
        /\ unread' \in [Commands -> SUBSET Requests]
    BY <1>1, <1>2, ShapeIs DEF CacheFileShape
  <2> QED
    BY <1>4, <2>4, <2>5, <2>6
    DEF CacheInv, CacheShape, CacheTypeOK, CommandsShape, CacheFileShape
<1>6. CASE cache[request].record = Alien
  <2>1. command' = [command EXCEPT ![c] = Idle] /\ UNCHANGED plan
    BY <1>1, <1>6 DEF ReadsFile, Raises
  <2> QED
    BY <1>1, <1>2, <1>4, <2>1, StopsInv, UnreadKept
<1>7. CASE cache[request].record # Alien /\ Kept(c, cache[request])
  <2>1. Takes(c, cache[request].record)
    BY <1>1, <1>7 DEF ReadsFile, Decide
  <2>2. w.mode = "online" => cache[request].record # Miss
    BY <1>1, <1>3, <1>7, MissIsNoEntry DEF Kept, KeptByTmdb, KeptByTvmaze
  <2> QED
    BY <1>5, <2>1, <2>2
<1>8. CASE cache[request].record # Alien /\ ~Kept(c, cache[request]) /\ w.mode = "offline"
  <2>1. Takes(c, Miss)
    BY <1>1, <1>8 DEF ReadsFile, Decide
  <2>2. cache[request].record = Miss
    BY <1>1, <1>8, NotKept
  <2> QED
    BY <1>5, <1>8, <2>1, <2>2
<1>9. CASE cache[request].record # Alien /\ ~Kept(c, cache[request]) /\ w.mode # "offline"
  <2> DEFINE next == [w EXCEPT !.pc = "fetch"]
  <2>1. command' = [command EXCEPT ![c] = next] /\ UNCHANGED plan
    BY <1>1, <1>9 DEF ReadsFile, Decide
  <2>2. next \in CommandRecords /\ CommandTypeOK(next)
    BY <1>1 DEF CommandRecords, CommandTypeOK, Places
  <2>3. /\ next.pc = "fetch" /\ next.mode = w.mode /\ RequestOf(next) = request
        /\ (Knows(w, HeldRecords) => Knows(next, HeldRecords))
    BY <1>1 DEF CommandRecords, RequestOf, Knows, Held
  <2>4. NotFresh(next, cache) /\ (w.mode # "refresh" => cache[request].record = Miss)
    BY <1>1, <1>9, NotKept
  <2>5. w.mode # "refresh" => w.mode = "online"
    BY <1>1, <1>9 DEF CommandTypeOK, Modes
  <2>6. Undisturbed(c) /\ w.mode # "refresh" => Follows(next, HeldRecords)
    BY <1>1, <1>3, <2>3, <2>4, <2>5, HeldFiles DEF CommandInv, Follows
  <2>7. command'[c] = next
    BY <1>1, <2>1 DEF CacheShape
  <2> HIDE DEF next
  <2>8. CommandInv(c)'
    BY <1>2, <1>4, <2>1, <2>3, <2>4, <2>6, <2>7 DEF CommandInv, Undisturbed
  <2> QED
    BY <1>2, <1>4, <2>1, <2>2, <2>8, CommandOnly, UnreadKept
<1> QED
  BY <1>6, <1>7, <1>8, <1>9

\* A read that fails: whatever the command makes of it, it claims nothing more
\* about this file.
LEMMA FailsToReadInv ==
  ASSUME CacheInv, NEW c \in Commands, At(c, "read"), FailsToRead(c), UNCHANGED <<cache, touched>>
  PROVE  CacheInv'
<1> DEFINE w == command[c]
           request == RequestOf(w)
<1>1. /\ w \in CommandRecords /\ CommandTypeOK(w) /\ Current(c) = request /\ w.pc = "read"
      /\ CacheShape /\ CommandInv(c)
  BY CurrentIs DEF CacheInv, CacheShape, CacheTypeOK, At
<1>2. request \in Requests
  BY <1>1, RequestType
<1>3. plan[c] = NoPlan /\ faults' \in FaultRecords /\ HeldRecords' = HeldRecords
      /\ Files(HeldRecords)'
  BY <1>1, FaultKept, HeldFiles DEF CommandInv, FailsToRead, HeldRecords, Files
<1>4. /\ unread' \in [Commands -> SUBSET Requests] /\ request \in unread'[c]
      /\ \A d \in Commands \ {c} : unread'[d] = unread[d]
  <2>1. unread' = [unread EXCEPT ![c] = @ \cup {request}]
    BY <1>1 DEF FailsToRead
  <2> QED
    BY <1>1, <1>2, <2>1 DEF CacheShape, CacheTypeOK
<1>5. ~Undisturbed(c)'
  BY <1>4 DEF Undisturbed
<1>6. ASSUME NEW record \in Records(request), Takes(c, record)
      PROVE  CacheInv'
  <2>1. /\ CommandsShape' /\ CommandInv(c)'
        /\ \A d \in Commands \ {c} : command'[d] = command[d] /\ plan'[d] = plan[d]
    BY <1>1, <1>3, <1>5, <1>6, TakesInv
  <2>2. \A d \in Commands \ {c} : CommandInv(d)'
    BY <1>4, <2>1, OtherCommandInv DEF CacheInv
  <2>3. CacheFileShape' /\ touched' \in [Commands -> BOOLEAN]
    BY <1>1, ShapeIs DEF CacheFileShape
  <2> QED
    BY <1>3, <1>4, <2>1, <2>2, <2>3
    DEF CacheInv, CacheShape, CacheTypeOK, CommandsShape, CacheFileShape
<1>7. CASE Raises(c)
  BY <1>1, <1>3, <1>4, <1>7, StopsInv DEF Raises
<1>8. CASE command' = [command EXCEPT ![c].pc = "fetch"] /\ UNCHANGED plan
  <2> DEFINE next == [w EXCEPT !.pc = "fetch"]
  <2>1. command' = [command EXCEPT ![c] = next] /\ command'[c] = next
    BY <1>1, <1>8 DEF CacheShape
  <2>2. next \in CommandRecords /\ CommandTypeOK(next)
    BY <1>1 DEF CommandRecords, CommandTypeOK, Places
  <2>3. next.pc = "fetch" /\ RequestOf(next) = request
    BY <1>1 DEF CommandRecords, RequestOf
  <2> HIDE DEF next
  <2>4. CommandInv(c)'
    BY <1>3, <1>4, <1>5, <1>8, <2>1, <2>3 DEF CommandInv
  <2> QED
    BY <1>3, <1>4, <1>8, <2>1, <2>2, <2>4, CommandOnly
<1>9. CASE Decide(c, Entry(Corrupt)) \/ Decide(c, NoEntry)
  <2>1. PICK record \in {Corrupt, Miss} :
          \/ Takes(c, record)
          \/ command' = [command EXCEPT ![c].pc = "fetch"] /\ UNCHANGED plan
    BY <1>9 DEF Decide, Entry, NoEntry
  <2>2. record \in Records(request)
    BY <1>2, <2>1, MissFacts
  <2> QED
    BY <1>6, <1>8, <2>1, <2>2
<1> QED
  BY <1>7, <1>9 DEF FailsToRead

LEMMA ReadEntryInv ==
  ASSUME CacheInv, NEW c \in Commands, ReadEntry(c)
  PROVE  CacheInv'
BY ReadsFileInv, FailsToReadInv DEF ReadEntry

LEMMA FetchInv ==
  ASSUME CacheInv, NEW c \in Commands, Fetch(c)
  PROVE  CacheInv'
<1> DEFINE w == command[c]
<1>1. /\ w \in CommandRecords /\ CommandTypeOK(w) /\ Current(c) = RequestOf(w) /\ w.pc = "fetch"
      /\ CommandInv(c) /\ command \in [Commands -> CommandRecords]
  BY CurrentIs DEF CacheInv, CacheShape, CacheTypeOK, Fetch, At
<1>2. PICK record \in Fetched(RequestOf(w)) : Got(c, record)
  BY <1>1 DEF Fetch, Fetched
<1>3. faults' \in FaultRecords
  BY FaultKept DEF Fetch, NoFault, CacheInv, CacheShape, CacheTypeOK
<1>4. RequestOf(w) \in Requests
  BY <1>1, RequestType
<1>5. record \in AnyRecord
  BY <1>2, <1>4, MissFacts
<1> DEFINE next == [w EXCEPT !.got = record, !.pc = "write"]
<1>6. command' = [command EXCEPT ![c] = next] /\ UNCHANGED <<cache, plan, touched, unread>>
  BY <1>1, <1>2 DEF Got
<1>7. next \in CommandRecords /\ CommandTypeOK(next)
  BY <1>1, <1>5 DEF CommandRecords, CommandTypeOK, Places
<1>8. /\ next.pc = "write" /\ next.mode = w.mode /\ RequestOf(next) = RequestOf(w)
      /\ next.got = record /\ (Knows(w, HeldRecords) => Knows(next, HeldRecords))
  BY <1>1 DEF CommandRecords, RequestOf, Knows, Held
<1>9. command'[c] = next
  BY <1>1, <1>6
<1> HIDE DEF next
<1>10. HeldRecords' = HeldRecords
  BY <1>6 DEF HeldRecords
<1>11. CommandInv(c)'
  BY <1>1, <1>2, <1>6, <1>8, <1>9, <1>10 DEF CommandInv, NotFresh, Follows, Undisturbed
<1> QED
  BY <1>3, <1>6, <1>7, <1>11, CommandOnly, UnreadKept

LEMMA WriteEntryInv ==
  ASSUME CacheInv, NEW c \in Commands, WriteEntry(c)
  PROVE  CacheInv'
<1> DEFINE w == command[c]
           request == RequestOf(w)
           record == w.got
<1>1. /\ w \in CommandRecords /\ CommandTypeOK(w) /\ Current(c) = request /\ w.pc = "write"
      /\ CacheShape /\ CommandInv(c)
  BY CurrentIs DEF CacheInv, CacheShape, CacheTypeOK, WriteEntry, At
<1> UNCHANGED unread
  BY DEF WriteEntry
<1>2. CASE Fault("io") /\ Raises(c) /\ UNCHANGED <<cache, touched>>
  BY <1>1, <1>2, FaultKept, StopsInv, UnreadKept DEF Raises
<1>3. CASE /\ cache' = [cache EXCEPT ![Current(c)] = Stored(@, command[c].got)]
           /\ touched' = [d \in Commands |-> touched[d] \/ d # c]
           /\ Takes(c, command[c].got) /\ NoFault
  <2>1. request \in Requests /\ record \in Fetched(request)
    BY <1>1, RequestType DEF CommandInv
  <2>2. record \in AnyRecord /\ record \in Records(request) /\ record # Miss /\ record # Alien
    BY <2>1, MissFacts
  <2>3. cache' = [cache EXCEPT ![request] = Entry(record)]
    BY <1>1, <1>3 DEF Stored
  <2>4. /\ Takes(c, record) /\ faults' = faults
        /\ \A d \in Commands : touched'[d] = (touched[d] \/ d # c)
        /\ touched' \in [Commands -> BOOLEAN]
    BY <1>3 DEF NoFault
  <2> HIDE DEF request, record
  <2>5. Entry(record).record = record /\ Entry(record).stale = FALSE
    BY DEF Entry
  <2>6. CacheFileShape'
    <3>1. cache \in [Requests -> [record : AnyRecord, stale : BOOLEAN]] /\ CacheFileShape
      BY <1>1, ShapeIs DEF CacheShape
    <3>2. Entry(record) \in [record : AnyRecord, stale : BOOLEAN]
      BY <2>2 DEF Entry
    <3>3. cache'[request] = Entry(record) /\ \A r \in Requests \ {request} : cache'[r] = cache[r]
      BY <2>1, <2>3, <3>1
    <3>4. cache' \in [Requests -> [record : AnyRecord, stale : BOOLEAN]]
      BY <2>3, <3>1, <3>2
    <3> QED
      BY <2>2, <2>5, <3>1, <3>3, <3>4 DEF CacheFileShape
  <2>7. HeldRecords' = [HeldRecords EXCEPT ![request] = record]
    <3>1. cache \in [Requests -> [record : AnyRecord, stale : BOOLEAN]]
      BY <1>1 DEF CacheShape
    <3> QED
      BY <2>1, <2>3, <2>5, <3>1 DEF HeldRecords
  <2>8. Files(HeldRecords)'
    <3>1. \A r \in Requests : cache'[r].record \in Records(r) /\ cache'[r].record \in AnyRecord
      BY <2>6, MissFacts DEF CacheFileShape
    <3> QED
      BY <3>1 DEF Files, HeldRecords
  <2>9. Undisturbed(c)' /\ w.mode # "refresh" =>
          /\ Knows(w, HeldRecords') /\ Held(w, HeldRecords', request)
          /\ record = HeldRecords'[request]
    <3>1. SUFFICES ASSUME Undisturbed(c), w.mode # "refresh"
                   PROVE  /\ Knows(w, HeldRecords') /\ Held(w, HeldRecords', request)
                          /\ record = HeldRecords'[request]
      BY <2>4 DEF Undisturbed
    <3>2. Follows(w, HeldRecords) /\ Files(HeldRecords)
      BY <1>1, <3>1, HeldFiles DEF CommandInv
    <3>3. Knows(w, HeldRecords) /\ w.mode = "online" /\ HeldRecords[request] = Miss
      BY <1>1, <3>2 DEF Follows, request
    <3> HIDE DEF w
    <3>4. Knows(w, HeldRecords') /\ Held(w, HeldRecords', request)
      BY <1>1, <2>1, <2>7, <3>2, <3>3, WriteKnows DEF request
    <3>5. HeldRecords'[request] = record
      BY <2>1, <2>7, <3>2 DEF Files
    <3> QED
      BY <3>4, <3>5
  <2>10. plan[c] = NoPlan
    BY <1>1 DEF CommandInv
  <2>11. /\ CommandsShape' /\ CommandInv(c)'
         /\ \A d \in Commands \ {c} : command'[d] = command[d] /\ plan'[d] = plan[d]
    BY <1>1, <2>2, <2>4, <2>8, <2>9, <2>10, TakesInv DEF request
  <2>12. \A d \in Commands \ {c} : CommandInv(d)'
    BY <2>4, <2>11, OtherCommandInv DEF CacheInv
  <2>13. faults' \in FaultRecords
    BY <1>1, <2>4, ShapeIs
  <2> QED
    BY <2>4, <2>6, <2>11, <2>12, <2>13
    DEF CacheInv, CacheShape, CacheTypeOK, CommandsShape, CacheFileShape
<1> QED
  BY <1>2, <1>3 DEF WriteEntry

LEMMA CrashInv ==
  ASSUME CacheInv, NEW c \in Commands, Crash(c)
  PROVE  CacheInv'
BY StopsInv, FaultKept, UnreadKept DEF Crash, Raises, At

LEMMA ExpireInv ==
  ASSUME CacheInv, NEW request \in Requests, Expire(request)
  PROVE  CacheInv'
<1>1. /\ cache' = [cache EXCEPT ![request].stale = TRUE] /\ Resolved(cache[request].record)
      /\ UNCHANGED <<command, plan, touched, unread, faults>>
  BY DEF Expire, NoFault
<1>2. cache \in [Requests -> [record : AnyRecord, stale : BOOLEAN]] /\ CacheFileShape
  BY ShapeIs DEF CacheInv, CacheShape
<1>3. /\ cache'[request] = [cache[request] EXCEPT !.stale = TRUE]
      /\ \A r \in Requests \ {request} : cache'[r] = cache[r]
  BY <1>1, <1>2
<1>4. cache'[request].record = cache[request].record /\ cache'[request].stale = TRUE
      /\ cache'[request] \in [record : AnyRecord, stale : BOOLEAN]
  BY <1>2, <1>3
<1>5. cache' \in [Requests -> [record : AnyRecord, stale : BOOLEAN]]
  BY <1>1, <1>2
<1>6. cache[request].record # Miss
  BY <1>1, MissFacts
<1>7. CacheFileShape'
  BY <1>2, <1>3, <1>4, <1>5, <1>6 DEF CacheFileShape
<1>8. HeldRecords' = HeldRecords
  BY <1>3, <1>4 DEF HeldRecords
<1>9. ASSUME NEW c \in Commands
      PROVE  CommandInv(c)'
  <2>1. CommandInv(c) /\ RequestOf(command[c]) \in Requests
    BY RequestType DEF CacheInv, CacheShape, CacheTypeOK
  <2>2. NotFresh(command[c], cache) => NotFresh(command[c], cache')
    BY <1>3, <1>4, <2>1 DEF NotFresh
  <2> QED
    BY <1>1, <1>8, <2>1, <2>2 DEF CommandInv, Undisturbed
<1>10. CommandsShape' /\ touched' \in [Commands -> BOOLEAN] /\ faults' \in FaultRecords
       /\ unread' \in [Commands -> SUBSET Requests]
  BY <1>1, ShapeIs DEF CacheInv, CommandsShape
<1> QED
  BY <1>7, <1>9, <1>10 DEF CacheInv, CacheShape, CacheTypeOK, CommandsShape, CacheFileShape

LEMMA DamageInv ==
  ASSUME CacheInv, NEW request \in Requests, Damage(request)
  PROVE  CacheInv'
<1>1. PICK record \in {Corrupt} \cup (IF request = Tmdb THEN {Alien} ELSE {}) :
        cache' = [cache EXCEPT ![request] = Entry(record)]
  BY DEF Damage
<1>2. touched' = [c \in Commands |-> TRUE] /\ UNCHANGED <<command, plan, unread>>
  BY DEF Damage
<1>3. cache \in [Requests -> [record : AnyRecord, stale : BOOLEAN]] /\ CacheFileShape
  BY ShapeIs DEF CacheInv, CacheShape
<1>4. record \in AnyRecord /\ record \in Records(request) /\ record # Miss
      /\ (record = Alien => request = Tmdb)
  <2>1. Corrupt # Alien /\ Corrupt # Miss
    BY DEF Corrupt, Alien, Miss, Record
  <2> QED
    BY <1>1, <2>1, MissFacts
<1>5. /\ Entry(record) \in [record : AnyRecord, stale : BOOLEAN]
      /\ Entry(record).record = record /\ Entry(record).stale = FALSE
  BY <1>4 DEF Entry
<1>6. cache'[request] = Entry(record) /\ \A r \in Requests \ {request} : cache'[r] = cache[r]
  BY <1>1, <1>3
<1>7. cache' \in [Requests -> [record : AnyRecord, stale : BOOLEAN]]
  BY <1>1, <1>3, <1>5
<1>8. CacheFileShape'
  BY <1>3, <1>4, <1>5, <1>6, <1>7 DEF CacheFileShape
<1>9. ASSUME NEW c \in Commands
      PROVE  CommandInv(c)'
  BY <1>2, OtherCommandInv DEF CacheInv
<1>10. CommandsShape' /\ touched' \in [Commands -> BOOLEAN]
       /\ unread' \in [Commands -> SUBSET Requests]
  BY <1>2, ShapeIs DEF CacheInv, CommandsShape
<1>11. faults' \in FaultRecords
  BY FaultKept DEF Damage
<1> QED
  BY <1>8, <1>9, <1>10, <1>11 DEF CacheInv, CacheShape, CacheTypeOK, CommandsShape, CacheFileShape

LEMMA CacheInitInv ==
  ASSUME CacheInit
  PROVE  CacheInv
<1>1. Miss \in AnyRecord /\ \A r \in Requests : Miss \in Records(r)
  BY MissFacts, RequestsDiffer
<1>2. CacheFileShape
  BY <1>1, MissFacts DEF CacheInit, CacheFileShape, NoEntry
<1>3. CommandsShape /\ touched \in [Commands -> BOOLEAN] /\ faults \in FaultRecords
      /\ unread \in [Commands -> SUBSET Requests]
  BY IdleShape, FaultAssumption DEF CacheInit, CommandsShape, NoneYet, FaultRecords
<1>4. \A c \in Commands : CommandInv(c)
  BY IdleShape DEF CacheInit, CommandInv, NotFresh
<1> QED
  BY <1>2, <1>3, <1>4, ShapeIs DEF CacheInv

LEMMA CacheNextInv ==
  ASSUME CacheInv, [CacheNext]_cacheVars
  PROVE  CacheInv'
<1>1. CASE \E c \in Commands : \E mode \in Uses[c] : StartPlan(c, mode)
  <2>1. PICK c \in Commands : \E mode \in Uses[c] : StartPlan(c, mode)
    BY <1>1
  <2>2. Uses[c] \subseteq Modes
    BY CacheAssumption
  <2> QED
    BY <2>1, <2>2, StartPlanInv
<1>2. CASE \E c \in Commands : PlanStep(c) \/ Crash(c)
  BY <1>2, ReadEntryInv, FetchInv, WriteEntryInv, CrashInv DEF PlanStep
<1>3. CASE \E request \in Requests : Expire(request) \/ Damage(request)
  BY <1>3, ExpireInv, DamageInv
<1>4. CASE UNCHANGED cacheVars
  <2>1. HeldRecords' = HeldRecords
    BY <1>4 DEF cacheVars, HeldRecords
  <2> QED
    BY <1>4, <2>1 DEF cacheVars, CacheInv, CacheShape, CacheTypeOK, CommandInv, Undisturbed
<1> QED
  BY <1>1, <1>2, <1>3, <1>4 DEF CacheNext

LEMMA CacheInvariant ==
  CacheSpec => []CacheInv
<1>1. CacheInit => CacheInv
  BY CacheInitInv
<1>2. CacheInv /\ [CacheNext]_cacheVars => CacheInv'
  BY CacheNextInv
<1> QED
  BY <1>1, <1>2, PTL DEF CacheSpec

-------------------------------------------------------------------------------
(* The theorems. *)

\* Through every failed request, failed write, crash, damaged file and second
\* command, each file holds nothing or a record of its own request, and no
\* command has a title to retry that TMDb did not list.
THEOREM CacheTypeCorrectness ==
  CacheSpec => []CacheTypeOK
<1>1. CacheInv => CacheTypeOK
  BY DEF CacheInv, CacheShape
<1> QED
  BY <1>1, CacheInvariant, PTL

\* Planning is reproducible: what a command without refresh found, it finds
\* again offline in the files that it leaves, however many requests its lookup
\* took and whatever of them failed, as long as it could read the files and nobody
\* else touched them.
THEOREM PlanningIsReproducible ==
  CacheSpec => []ReplayFaithful
<1>1. CacheInv => ReplayFaithful
  BY DEF CacheInv, CommandInv, ReplayFaithful, HeldRecords, Undisturbed
<1> QED
  BY <1>1, CacheInvariant, PTL

\* A fresh answer of TVMaze is replaced only by a command that could not read it,
\* by one whose files another has changed since it began, or by damage.
THEOREM FreshAnswersAreKept ==
  CacheSpec => FreshAnswersKept
<1>1. ASSUME CacheInv, [CacheNext]_cacheVars, NEW r \in Requests \ {Tmdb},
             Resolved(cache[r].record), ~cache[r].stale, cache'[r].record # cache[r].record
      PROVE  \/ cache'[r].record = Corrupt
             \/ \E c \in Commands : At(c, "write") /\ Current(c) = r
                                  /\ (touched[c] \/ r \in unread[c])
  <2>1. cache \in [Requests -> [record : AnyRecord, stale : BOOLEAN]]
    BY <1>1 DEF CacheInv, CacheShape
  <2>2. CASE \E c \in Commands : WriteEntry(c)
    <3>1. PICK c \in Commands : WriteEntry(c)
      BY <2>2
    <3>2. cache' = [cache EXCEPT ![Current(c)] = Stored(@, command[c].got)] /\ At(c, "write")
      BY <1>1, <3>1 DEF WriteEntry
    <3>3. Current(c) = r /\ Current(c) = RequestOf(command[c])
      BY <1>1, <2>1, <3>2, CurrentIs
    <3>4. CommandInv(c)
      BY <1>1 DEF CacheInv
    <3>5. touched[c] \/ r \in unread[c]
      BY <1>1, <3>2, <3>3, <3>4 DEF CommandInv, NotFresh, At
    <3> QED
      BY <3>2, <3>3, <3>5
  <2>3. CASE \E request \in Requests : Expire(request)
    <3>1. PICK request \in Requests : Expire(request)
      BY <2>3
    <3>2. cache' = [cache EXCEPT ![request].stale = TRUE]
      BY <3>1 DEF Expire
    <3>3. cache'[r].record = cache[r].record
      BY <2>1, <3>2
    <3> QED
      BY <1>1, <3>3
  <2>4. CASE \E request \in Requests : Damage(request)
    <3>1. PICK request \in Requests : Damage(request)
      BY <2>4
    <3>2. PICK record \in {Corrupt} \cup (IF request = Tmdb THEN {Alien} ELSE {}) :
            cache' = [cache EXCEPT ![request] = Entry(record)]
      BY <3>1 DEF Damage
    <3>3. request = r
      BY <1>1, <2>1, <3>2
    <3>4. cache'[r] = Entry(Corrupt)
      BY <2>1, <3>2, <3>3
    <3> QED
      BY <3>4 DEF Entry
  <2>5. CASE \E c \in Commands : ReadEntry(c) \/ Fetch(c) \/ Crash(c)
    BY <1>1, <2>5 DEF ReadEntry, Fetch, Got, Crash
  <2>6. CASE \E c \in Commands : \E mode \in Uses[c] : StartPlan(c, mode)
    BY <1>1, <2>6 DEF StartPlan
  <2> QED
    BY <1>1, <2>2, <2>3, <2>4, <2>5, <2>6 DEF CacheNext, PlanStep, cacheVars
<1>2. CacheInv /\ [CacheNext]_cacheVars =>
        [\A r \in Requests \ {Tmdb} :
           Resolved(cache[r].record) /\ ~cache[r].stale /\ cache'[r].record # cache[r].record =>
             \/ cache'[r].record = Corrupt
             \/ \E c \in Commands : /\ At(c, "write") /\ Current(c) = r
                                    /\ touched[c] \/ r \in unread[c]]_cacheVars
  BY <1>1
<1> QED
  BY <1>2, CacheInvariant, PTL DEF CacheSpec, FreshAnswersKept
===============================================================================
