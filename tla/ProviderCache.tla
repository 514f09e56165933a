---------------------------- MODULE ProviderCache ----------------------------
(***************************************************************************)
(* The cache files of the metadata providers, and the planning commands    *)
(* that look up a show through them: TvmazeCatalogCache and                *)
(* TmdbCatalogCache under AutoProviderAdapter.search_shows, with a TMDb    *)
(* token.  A lookup is one to several requests: the title at TVMaze, the   *)
(* title at TMDb when that is not one show, and, when it failed, the       *)
(* titles TMDb gave at TVMaze again.                                       *)
(*                                                                         *)
(* A response is the set of the shows it lists; one of TMDb is the set of  *)
(* their titles.  A retrieval date is whether the entry is stale; the      *)
(* kinds of failure of a request, which are logged, are one.               *)
(***************************************************************************)
EXTENDS FaultModel, FiniteSets, FiniteSetsExt

CONSTANTS
  Commands,          \* the planning processes that may run at once
  Uses,              \* the modes that each of them is used in
  TitleCount,        \* the normalized titles are 1..TitleCount, in their order
  Shows, TitleOf,    \* the shows of TVMaze, and the title of each
  Listed,            \* what TVMaze may list for each title
  Suggested          \* what TMDb may list for the title of the library

VARIABLES
  cache,    \* the entry of each request
  command,  \* what each process is doing
  plan,     \* what each process found last
  touched,  \* whether others changed the cache since the process began
  unread    \* the requests whose entry the process could not read

cacheVars == <<cache, command, plan, touched, unread, faults>>

Titles == 1..TitleCount
Original == 1  \* the title that the library has

Modes == {"online", "offline", "refresh"}

ASSUME CacheAssumption ==
  /\ Uses \in [Commands -> SUBSET Modes]
  /\ TitleCount \in Nat \ {0} /\ TitleOf \in [Shows -> Titles]
  /\ Listed \in [Titles -> SUBSET SUBSET Shows] /\ Suggested \subseteq SUBSET Titles

Tvmaze(title) == <<"tvmaze", title>>
Tmdb == <<"tmdb", Original>>
Requests == {Tvmaze(title) : title \in Titles} \cup {Tmdb}

\* The shows that an answer of TVMaze lists; the titles that one of TMDb lists.
Candidates(title) == Listed[title]
Suggestions == Suggested
Responses(request) == IF request = Tmdb THEN Suggestions ELSE Candidates(request[2])

\* A record is what a lookup returns and what a file holds; "miss" is never in
\* a file.  "alien" is JSON that is no object.
Record(state, found) == [state |-> state, found |-> found]
Ok(found) == Record("ok", found)
Error == Record("error", {})
Corrupt == Record("corrupt", {})
Miss == Record("miss", {})
Alien == Record("alien", {})
Records(request) == {Ok(found) : found \in Responses(request)} \cup {Error, Corrupt, Miss, Alien}

NoEntry == [record |-> Miss, stale |-> FALSE]
Entry(record) == [record |-> record, stale |-> FALSE]

Resolved(record) == record.state = "ok"
-------------------------------------------------------------------------------
(* Which answer a few records give: AutoProviderAdapter.search_shows. *)

\* One show of TVMaze needs no second opinion.
NeedsSecond(primary) == ~(Resolved(primary) /\ Cardinality(primary.found) = 1)

\* Mutant: an empty list of TMDb is retried.
HelpsWhenEmpty(secondary) == Resolved(secondary)

\* TMDb is of use where it lists something.
Helps(secondary) == Resolved(secondary) /\ secondary.found # {}

\* A failed search is recovered, and an ambiguous one decided, by one show only.
Answer(primary, secondary, recovered) ==
  LET consensus == {s \in primary.found : TitleOf[s] \in secondary.found}
  IN IF ~NeedsSecond(primary) \/ ~Helps(secondary) THEN primary.found
     ELSE IF ~Resolved(primary) THEN (IF Cardinality(recovered) = 1 THEN recovered ELSE {})
     ELSE IF Cardinality(consensus) = 1 THEN consensus
     ELSE primary.found

\* The snapshot that search_shows returns: it names the first record, whatever
\* the shows come from.
Snapshot(primary, secondary, recovered) ==
  [record |-> primary, shows |-> Answer(primary, secondary, recovered)]

-------------------------------------------------------------------------------
(* A command: for each request it reads the entry, or fetches and writes it. *)

Stages == {"primary", "secondary", "retry"}
Idle ==
  [pc |-> "idle", mode |-> "online", stage |-> "primary", todo |-> {}, got |-> Miss,
   primary |-> Miss, secondary |-> Miss, recovered |-> {}]

CommandTypeOK(state) ==
  /\ state.pc \in {"idle", "read", "fetch", "write"} /\ state.mode \in Modes
  /\ state.stage \in Stages /\ state.todo \subseteq Titles /\ state.recovered \subseteq Shows
  /\ state.stage = "retry" => state.todo # {}

NoPlan == [mode |-> "none"]

CacheTypeOK ==
  /\ \A r \in Requests :
       /\ cache[r].record \in Records(r) /\ cache[r].stale \in BOOLEAN
       /\ cache[r].record = Alien => r = Tmdb
       /\ cache[r].record = Miss => ~cache[r].stale
  /\ \A c \in Commands : CommandTypeOK(command[c])
  /\ \A c \in Commands : plan[c] = NoPlan \/ plan[c].mode \in Modes
  /\ touched \in [Commands -> BOOLEAN]
  /\ unread \in [Commands -> SUBSET Requests]
  /\ faults \in FaultRecords

CacheInit ==
  /\ cache = [r \in Requests |-> NoEntry]
  /\ command = [c \in Commands |-> Idle]
  /\ plan = [c \in Commands |-> NoPlan]
  /\ touched = [c \in Commands |-> FALSE]
  /\ unread = [c \in Commands |-> {}]
  /\ faults = NoneYet

At(c, place) == command[c].pc = place

\* execute_plan: offline and refresh exclude each other.
StartPlan(c, mode) ==
  /\ At(c, "idle")
  /\ command' = [command EXCEPT ![c] = [Idle EXCEPT !.pc = "read", !.mode = mode]]
  /\ plan' = [plan EXCEPT ![c] = NoPlan]
  /\ touched' = [touched EXCEPT ![c] = FALSE]
  /\ unread' = [unread EXCEPT ![c] = {}]
  /\ UNCHANGED cache /\ NoFault

\* The request that a command is about; the titles to retry are taken in order.
Current(c) ==
  CASE command[c].stage = "primary" -> Tvmaze(Original)
    [] command[c].stage = "secondary" -> Tmdb
    [] OTHER -> Tvmaze(Min(command[c].todo))

\* The lookup is over and, here, the plan.
Finishes(c, next) ==
  /\ command' = [command EXCEPT ![c] = Idle]
  /\ plan' = [plan EXCEPT ![c] =
       [mode |-> next.mode, answer |-> Snapshot(next.primary, next.secondary, next.recovered)]]

Asks(c, next) ==
  /\ command' = [command EXCEPT ![c] = [next EXCEPT !.pc = "read", !.got = Miss]]
  /\ UNCHANGED plan

\* What search_shows does with the record of the request that it is about.
Takes(c, record) ==
  LET now == command[c]
      next == CASE now.stage = "primary" -> [now EXCEPT !.primary = record, !.stage = "secondary"]
                [] now.stage = "secondary" ->
                     [now EXCEPT !.secondary = record, !.stage = "retry", !.todo = record.found]
                [] OTHER -> [now EXCEPT !.todo = @ \ {Min(@)}, !.recovered = @ \cup record.found]
      more == CASE now.stage = "primary" -> NeedsSecond(record)
                [] now.stage = "secondary" -> Helps(record) /\ ~Resolved(now.primary)
                [] OTHER -> next.todo # {}
  IN IF more THEN Asks(c, next) ELSE Finishes(c, next)

\* Mutant: a refresh takes what was once fetched for an answer.
AnyFetchKept(entry, mode) == entry # NoEntry /\ (mode # "refresh" \/ ~entry.stale)

\* Mutant: a refresh fetches everything.
NothingKept(entry, mode) == entry # NoEntry /\ mode # "refresh"

\* A refresh keeps a fresh answer, and otherwise every entry is returned as it
\* is, whatever it holds ...
KeptByTvmaze(entry, mode) ==
  entry # NoEntry /\ (mode # "refresh" \/ (Resolved(entry.record) /\ ~entry.stale))

\* ... and a refresh of TMDb keeps nothing.
KeptByTmdb(entry, mode) == entry # NoEntry /\ mode # "refresh"

Kept(c, entry) ==
  IF Current(c) = Tmdb THEN KeptByTmdb(entry, command[c].mode)
  ELSE KeptByTvmaze(entry, command[c].mode)

Raises(c) == command' = [command EXCEPT ![c] = Idle] /\ UNCHANGED plan

\* The decision of _get_or_fetch about what _read made of a file.
Decide(c, entry) ==
  IF Kept(c, entry) THEN Takes(c, entry.record)
  ELSE IF command[c].mode = "offline" THEN Takes(c, Miss)
  ELSE command' = [command EXCEPT ![c].pc = "fetch"] /\ UNCHANGED plan

\* The command raises where the entry of TMDb is no object, in every mode.
ReadsFile(c) ==
  /\ IF cache[Current(c)].record = Alien THEN Raises(c) ELSE Decide(c, cache[Current(c)])
  /\ UNCHANGED unread /\ NoFault

\* A file that cannot be read passes for a corrupt one, and the file stays; one
\* that cannot be looked at passes for none, or the command raises (exists and
\* is_file, by the version of Python).
FailsToRead(c) ==
  /\ cache[Current(c)] # NoEntry /\ Fault("read")
  /\ Decide(c, Entry(Corrupt)) \/ Decide(c, NoEntry) \/ Raises(c)
  /\ unread' = [unread EXCEPT ![c] = @ \cup {Current(c)}]

\* _read and what follows.
ReadEntry(c) ==
  /\ At(c, "read")
  /\ ReadsFile(c) \/ FailsToRead(c)
  /\ UNCHANGED <<cache, touched>>

Got(c, record) ==
  /\ command' = [command EXCEPT ![c].got = record, ![c].pc = "write"]
  /\ UNCHANGED <<cache, plan, touched, unread>>

\* The request is answered, or it times out, is refused or malformed.
Fetch(c) ==
  /\ At(c, "fetch")
  /\ \/ (\E found \in Responses(Current(c)) : Got(c, Ok(found))) /\ NoFault
     \/ Got(c, Error) /\ Fault("outage")

\* Mutant: a failure is not stored.
OnlyGoodStored(entry, record) == IF Resolved(record) THEN Entry(record) ELSE entry

\* What an entry becomes: the last fetch, whatever it brought.
Stored(entry, record) == Entry(record)

\* _write replaces the file; where that fails the command raises.
WriteEntry(c) ==
  /\ At(c, "write") /\ UNCHANGED unread
  /\ \/ /\ cache' = [cache EXCEPT ![Current(c)] = Stored(@, command[c].got)]
        /\ touched' = [d \in Commands |-> touched[d] \/ d # c]
        /\ Takes(c, command[c].got) /\ NoFault
     \/ Fault("io") /\ Raises(c) /\ UNCHANGED <<cache, touched>>

Crash(c) ==
  /\ ~At(c, "idle") /\ Fault("crash")
  /\ Raises(c) /\ UNCHANGED <<cache, touched, unread>>

\* Time passes.
Expire(request) ==
  /\ Resolved(cache[request].record)
  /\ cache' = [cache EXCEPT ![request].stale = TRUE]
  /\ UNCHANGED <<command, plan, touched, unread>> /\ NoFault

\* A file is damaged, or replaced by hand.
Damage(request) ==
  /\ cache[request] # NoEntry /\ Fault("damage")
  /\ \E record \in {Corrupt} \cup (IF request = Tmdb THEN {Alien} ELSE {}) :
       cache' = [cache EXCEPT ![request] = Entry(record)]
  /\ touched' = [c \in Commands |-> TRUE]
  /\ UNCHANGED <<command, plan, unread>>

PlanStep(c) == ReadEntry(c) \/ Fetch(c) \/ WriteEntry(c)

CacheNext ==
  \/ \E c \in Commands : \E mode \in Uses[c] : StartPlan(c, mode)
  \/ \E c \in Commands : PlanStep(c) \/ Crash(c)
  \/ \E request \in Requests : Expire(request) \/ Damage(request)

\* Commands go on, and somebody refreshes again and again.
CacheSpec == CacheInit /\ [][CacheNext]_cacheVars

FairCacheSpec ==
  /\ CacheSpec
  /\ \A c \in Commands : WF_cacheVars(PlanStep(c)) /\ SF_cacheVars(StartPlan(c, "refresh"))

-------------------------------------------------------------------------------
(* What the caches promise. *)

\* The answer that a set of records gives, without any network.
Replay(records) ==
  LET primary == records[Tvmaze(Original)]
      secondary == records[Tmdb]
  IN Snapshot(primary, secondary,
       UNION {records[Tvmaze(title)].found : title \in secondary.found})

\* Planning is reproducible: what a command without refresh found, an offline
\* command finds again in the cache it leaves, until somebody else changes it.
\* Its answer may rest on one file that it read twice, or wrote and read again.
\* Only a command that could read every file promises that: a read that fails
\* passes for a corrupt entry, which is in no file.
ReplayFaithful ==
  \A c \in Commands :
    plan[c] # NoPlan /\ plan[c].mode # "refresh" /\ ~touched[c] /\ unread[c] = {} =>
      plan[c].answer = Replay([r \in Requests |-> cache[r].record])

\* No command replaces a fresh answer of TVMaze, with a failure or with
\* anything: not a refresh, and not the second lookup of a title in one
\* command.  Two commands at once may: one that found an entry stale or failed
\* writes over what the other has fetched meanwhile.  And so may one that could
\* not read the very entry.
FreshAnswersKept ==
  [][\A r \in Requests \ {Tmdb} :
       Resolved(cache[r].record) /\ ~cache[r].stale /\ cache'[r].record # cache[r].record =>
         \/ cache'[r].record = Corrupt
         \/ \E c \in Commands : /\ At(c, "write") /\ Current(c) = r
                                /\ touched[c] \/ r \in unread[c]]_cacheVars

\* Failed requests, damaged files, reads and writes that failed and commands that
\* stop in the middle leave nothing behind at TVMaze that refreshing does not
\* repair: in the end the title has an answer there.  Where that is not one show,
\* TMDb has answered too, unless its file was replaced by JSON that is no object:
\* over that one every command raises, a refresh too, until somebody deletes it.
RefreshRepairs ==
  <>[](LET primary == cache[Tvmaze(Original)].record
           secondary == cache[Tmdb].record
       IN /\ Resolved(primary)
          /\ NeedsSecond(primary) => Resolved(secondary) \/ secondary = Alien)

===============================================================================
