----------------------------- MODULE Supervisor -----------------------------
(***************************************************************************)
(* cmd/evmscand: which chains a process runs.  The configured chains start *)
(* first and a failure there ends the process; the chains operators added  *)
(* come after them, from their stored profiles, and only the failing one   *)
(* is lost.  Operators add, stop and judge chains over HTTP while indexers *)
(* begin and fail, statements are lost with the database or the client,    *)
(* and the process dies and starts again.                                  *)
(*                                                                         *)
(* An ENS name only picks the chain id of a request and is left out, as    *)
(* are tuning, labels and the pricer.  The chain set is a sequence: the    *)
(* first entry is what a request without a chain id means.                 *)
(***************************************************************************)
EXTENDS Integers, Sequences, FiniteSets, SequencesExt

CONSTANTS
  Chains, Nodes,
  ConfigChains,   \* the YAML: a sequence of [id, node, requireLocal]
  Serves,         \* the chain a node answers for
  LocalNodes,     \* endpoints on loopback or a socket
  Main, Operators, NoOne,
  Databases,      \* the chains tables a process may find
  Scenarios       \* bounds: which disturbances may happen together, how often

Disturbance ==
  {"adds", "deletes", "toggles", "judgements",  \* operators' requests
   "dials", "writes", "fails",                  \* nodes, statements and indexers that fail
   "signals", "crashes"}

Threads == Operators \cup {Main}
ConfigIds == {ConfigChains[i].id : i \in DOMAIN ConfigChains}

Trust == {"verified", "unverified", "quarantined"}
Profile == [enabled : BOOLEAN, source : {"config", "api"}, trust : Trust,
            by : {"nobody", "operator", "daemon"}, node : Nodes \cup {NoOne},
            error : BOOLEAN]

\* Config.validate: at least one chain, none named twice.
ASSUME SupervisorAssumption ==
  /\ ConfigChains \in Seq([id : Chains, node : Nodes, requireLocal : BOOLEAN])
  /\ ConfigChains # <<>> /\ Cardinality(ConfigIds) = Len(ConfigChains)
  /\ IsFiniteSet(Chains)
  /\ Serves \in [Nodes -> Chains] /\ LocalNodes \subseteq Nodes
  /\ Main \notin Operators /\ NoOne \notin Threads \cup Nodes
  /\ \A db \in Databases : DOMAIN db \subseteq Chains /\ \A c \in DOMAIN db : db[c] \in Profile
  /\ Scenarios \subseteq [Disturbance -> Nat]

VARIABLES
  phase,      \* of the process: "config", "stored", "serving" or "down"
  cancelled,  \* runCtx: every indexer is told to stop
  signalled,  \* ctx: the process is told to stop
  set,        \* chainset.Set: entries in insertion order
  indexers,   \* the goroutines launch started
  launches,   \* entries built so far, which names them
  todo,       \* what startup has still to start
  lock,       \* supervisor.mu
  calls,      \* what main and each request is doing
  profiles,   \* the chains table
  asked,      \* the last request about a chain: "run", "stop" or, when unclear, "both"
  trouble     \* how often each disturbance may happen in this behaviour, and has

process  == <<phase, cancelled, signalled, launches, todo>>
vars == <<process, set, indexers, lock, calls, profiles, asked, trouble>>

Idle == [op |-> "idle", id |-> ConfigChains[1].id, node |-> NoOne, launch |-> 0]
Running(c) == \E i \in DOMAIN set : set[i].id = c
Known(c) == c \in DOMAIN profiles

Disturb(kind) ==
  /\ trouble.seen[kind] < trouble.allowed[kind]
  /\ trouble' = [trouble EXCEPT !.seen[kind] = @ + 1]
NoTrouble == UNCHANGED trouble

-----------------------------------------------------------------------------
(* The chain set and the chains table.                                     *)

AddEntry(e) == set' = Append(set, e)

\* The first entry of that chain, and Add sees to it that there is no other.
RemoveEntry(c) ==
  set' = IF Running(c) THEN RemoveAt(set, CHOOSE i \in DOMAIN set : set[i].id = c) ELSE set

IsLocal(n) == n \in LocalNodes
TrustForEndpoint(n) == IF IsLocal(n) THEN "verified" ELSE "unverified"

\* Faulty variant of UpsertChainProfile: an existing row takes the new endpoint's trust.
UpsertChainProfileAndTrust(c, n, source) ==
  LET trust == TrustForEndpoint(n)
      by    == IF Known(c) THEN profiles[c].by ELSE "nobody"
      error == Known(c) /\ profiles[c].error
      row   == [enabled |-> TRUE, source |-> source, trust |-> trust, by |-> by,
                node |-> n, error |-> error]
  IN  profiles' = [d \in DOMAIN profiles \cup {c} |-> IF d = c THEN row ELSE profiles[d]]

\* Everything follows the new row except the trust of a chain already known.
UpsertChainProfile(c, n, source) ==
  LET trust == IF Known(c) THEN profiles[c].trust ELSE TrustForEndpoint(n)
      by    == IF Known(c) THEN profiles[c].by ELSE "nobody"
      error == Known(c) /\ profiles[c].error
      row   == [enabled |-> TRUE, source |-> source, trust |-> trust, by |-> by,
                node |-> n, error |-> error]
  IN  profiles' = [d \in DOMAIN profiles \cup {c} |-> IF d = c THEN row ELSE profiles[d]]

\* What the indexer writes when it begins: a row of defaults, if there is none.
UpsertChain(c) ==
  profiles' = IF Known(c) THEN profiles
              ELSE [d \in DOMAIN profiles \cup {c} |->
                      IF d = c THEN [enabled |-> TRUE, source |-> "config",
                                     trust |-> "unverified", by |-> "nobody",
                                     node |-> NoOne, error |-> FALSE]
                      ELSE profiles[d]]

SetChainError(c, e) ==
  profiles' = IF Known(c) THEN [profiles EXCEPT ![c].error = e] ELSE profiles

SetChainTrust(c, t, who) ==
  profiles' = IF Known(c) THEN [profiles EXCEPT ![c].trust = t, ![c].by = who] ELSE profiles

SetChainEnabled(c, b) ==
  profiles' = IF Known(c) THEN [profiles EXCEPT ![c].enabled = b] ELSE profiles

\* listChains: the table, and over it what runs, with a guess for an entry without a row.
ListChains ==
  [c \in DOMAIN profiles \cup {set[i].id : i \in DOMAIN set} |->
     [running |-> Running(c),
      enabled |-> Known(c) => profiles[c].enabled,
      source  |-> IF Known(c) THEN profiles[c].source ELSE "config",
      trust   |-> IF Known(c) THEN profiles[c].trust ELSE "unverified"]]

\* A statement that fails changes nothing.
Lost == Disturb("writes") /\ UNCHANGED profiles
Attempt(write) == (write /\ NoTrouble) \/ Lost

-----------------------------------------------------------------------------
(* Startup.                                                                *)

NextEntry(c, n, config) == [id |-> c, node |-> n, launch |-> launches + 1, config |-> config]

Launch(e) ==
  indexers' = IF cancelled THEN indexers
              ELSE indexers \cup {[entry |-> e, state |-> "starting"]}

Ended ==
  /\ phase' = "down"
  /\ cancelled' = FALSE /\ signalled' = FALSE /\ launches' = 0 /\ todo' = <<>>
  /\ set' = <<>> /\ indexers' = {} /\ lock' = NoOne
  /\ calls' = [t \in Threads |-> Idle]
  \* A request that was not answered may have been carried out or not.
  /\ asked' = [c \in Chains |-> IF \E t \in Operators : calls[t].op # "idle" /\ calls[t].id = c
                                THEN "both" ELSE asked[c]]
  /\ UNCHANGED profiles

Dials(n, requireLocal) == requireLocal => IsLocal(n)

\* dialAndBuild: the node answers, for the chain it is meant to.
Reaches(c, n, requireLocal) == Dials(n, requireLocal) /\ Serves[n] = c

StartConfigChain ==
  /\ phase = "config" /\ todo # <<>>
  /\ LET c == Head(todo)
         e == NextEntry(c.id, c.node, TRUE)
     IN  /\ Reaches(c.id, c.node, c.requireLocal) /\ ~Running(c.id)
         /\ AddEntry(e)
         /\ Attempt(UpsertChainProfile(c.id, c.node, "config"))   \* or only a warning
         /\ Launch(e)
         /\ asked' = [asked EXCEPT ![c.id] = "run"]
  /\ launches' = launches + 1 /\ todo' = Tail(todo)
  /\ UNCHANGED <<phase, cancelled, signalled, lock, calls>>

\* run returns the error, and the process ends.
ConfigChainFails ==
  /\ phase = "config" /\ todo # <<>>
  /\ \/ ~Reaches(Head(todo).id, Head(todo).node, Head(todo).requireLocal) /\ NoTrouble
     \/ Disturb("dials")
  /\ Ended

\* Faulty variant of ListStored: disabled rows are started too.
ListStoredAll ==
  /\ phase = "config" /\ todo = <<>>
  /\ phase' = "stored"
  /\ \/ /\ todo' = SetToSeq(DOMAIN profiles)
        /\ NoTrouble
     \/ Disturb("writes") /\ todo' = <<>>         \* none are started
  /\ UNCHANGED <<cancelled, signalled, launches, set, indexers, lock, calls, profiles, asked>>

\* ListChainProfiles(enabled): in the order of chain ids, for which any order stands.
ListStored ==
  /\ phase = "config" /\ todo = <<>>
  /\ phase' = "stored"
  /\ \/ /\ todo' = SetToSeq({c \in DOMAIN profiles : profiles[c].enabled})
        /\ NoTrouble
     \/ Disturb("writes") /\ todo' = <<>>         \* none are started
  /\ UNCHANGED <<cancelled, signalled, launches, set, indexers, lock, calls, profiles, asked>>

\* Faulty variant of RestartStored: only the first chain of the list is started.
RestartStoredOnce ==
  /\ phase = "stored" /\ todo # <<>> /\ calls[Main] = Idle
  /\ LET c == Head(todo) IN
     calls' = IF profiles[c].source = "config" \/ Running(c) THEN calls
              ELSE [calls EXCEPT ![Main] =
                      [op |-> "start", id |-> c, node |-> profiles[c].node, launch |-> 0]]
  /\ todo' = <<>>
  /\ UNCHANGED <<phase, cancelled, signalled, launches, set, indexers, lock, profiles, asked, trouble>>

RestartStored ==
  /\ phase = "stored" /\ todo # <<>> /\ calls[Main] = Idle
  /\ LET c == Head(todo) IN
     calls' = IF profiles[c].source = "config" \/ Running(c) THEN calls
              ELSE [calls EXCEPT ![Main] =
                      [op |-> "start", id |-> c, node |-> profiles[c].node, launch |-> 0]]
  /\ todo' = Tail(todo)
  /\ UNCHANGED <<phase, cancelled, signalled, launches, set, indexers, lock, profiles, asked, trouble>>

Serve ==
  /\ phase = "stored" /\ todo = <<>> /\ calls[Main] = Idle
  /\ phase' = "serving"
  /\ UNCHANGED <<cancelled, signalled, launches, todo, set, indexers, lock, calls, profiles, asked, trouble>>

-----------------------------------------------------------------------------
(* StartStored and Stop, called by startup and by requests.                *)

Return(t) == calls' = [calls EXCEPT ![t] = Idle]
Goto(t, op) == calls' = [calls EXCEPT ![t].op = op]

BeginStart(t) ==
  /\ calls[t].op = "start" /\ lock = NoOne
  /\ IF Running(calls[t].id) THEN Return(t) /\ UNCHANGED lock
                             ELSE Goto(t, "dial") /\ lock' = t
  /\ UNCHANGED <<process, set, indexers, profiles, asked, trouble>>

DialAndAdd(t) ==
  LET c == calls[t].id  n == calls[t].node
      e == NextEntry(c, n, FALSE)
  IN  /\ calls[t].op = "dial"
      /\ \/ /\ Reaches(c, n, FALSE)
            /\ AddEntry(e) /\ launches' = e.launch
            /\ calls' = [calls EXCEPT ![t].op = "persist", ![t].launch = e.launch]
            /\ UNCHANGED <<lock, profiles, trouble>>
         \/ /\ \/ ~Reaches(c, n, FALSE) /\ Attempt(SetChainError(c, TRUE))
               \/ Disturb("dials") /\ SetChainError(c, TRUE)
            /\ Return(t) /\ lock' = NoOne
            /\ UNCHANGED <<set, launches>>
      /\ UNCHANGED <<phase, cancelled, signalled, todo, indexers, asked>>

\* When the row cannot be written the entry stays, and no indexer is launched.
Persist(t) ==
  /\ calls[t].op = "persist"
  /\ \/ /\ UpsertChainProfile(calls[t].id, calls[t].node, "api")
        /\ Goto(t, "launch")
        /\ UNCHANGED <<lock, trouble>>
     \/ Lost /\ Return(t) /\ lock' = NoOne
  /\ UNCHANGED <<process, set, indexers, asked>>

ClearAndLaunch(t) ==
  /\ calls[t].op = "launch"
  /\ Attempt(SetChainError(calls[t].id, FALSE))
  /\ Launch([id |-> calls[t].id, node |-> calls[t].node, launch |-> calls[t].launch,
             config |-> FALSE])
  /\ Return(t) /\ lock' = NoOne
  /\ UNCHANGED <<process, set, asked>>

StartStored(t) == BeginStart(t) \/ DialAndAdd(t) \/ Persist(t) \/ ClearAndLaunch(t)

-----------------------------------------------------------------------------
(* The requests.                                                           *)

\* Two requests about one chain at a time leave it unclear what was asked for.
Ask(t, c, what) ==
  asked' = [asked EXCEPT ![c] =
              IF \E u \in Operators \ {t} : calls[u].op # "idle" /\ calls[u].id = c
              THEN "both" ELSE what]

Request(t, op, c, n) ==
  /\ phase = "serving" /\ calls[t] = Idle
  /\ calls' = [calls EXCEPT ![t] = [op |-> op, id |-> c, node |-> n, launch |-> 0]]
  /\ UNCHANGED <<process, set, indexers, lock, profiles>>

AddChain(t, c, n) ==
  /\ ~Running(c)
  /\ Request(t, "start", c, n)
  /\ Ask(t, c, "run") /\ Disturb("adds")

DeleteChain(t, c) ==
  /\ Request(t, "stop", c, NoOne)
  /\ Ask(t, c, "stop") /\ Disturb("deletes")

\* Stop: the indexer is not told.
Stop(t) ==
  /\ calls[t].op \in {"stop", "stopDisabled"} /\ lock = NoOne
  /\ RemoveEntry(calls[t].id)
  /\ IF calls[t].op = "stop" THEN Goto(t, "disable") ELSE Return(t)
  /\ UNCHANGED <<process, indexers, lock, profiles, asked, trouble>>

\* The end of deleteChain.
Disable(t) ==
  LET c == calls[t].id IN
  /\ calls[t].op = "disable"
  /\ \/ SetChainEnabled(c, FALSE) /\ UNCHANGED <<asked, trouble>>
     \/ Lost /\ asked' = [asked EXCEPT ![c] = "both"]
  /\ Return(t)
  /\ UNCHANGED <<process, set, indexers, lock>>

\* patchChain: enabling records the wish, disabling also stops the chain.
PatchEnabled(t, c, b) ==
  /\ phase = "serving" /\ calls[t] = Idle /\ Known(c)
  /\ Disturb("toggles")
  /\ SetChainEnabled(c, b)
  /\ Ask(t, c, IF b THEN "run" ELSE "stop")
  /\ calls' = IF b THEN calls
              ELSE [calls EXCEPT ![t] = [op |-> "stopDisabled", id |-> c, node |-> NoOne, launch |-> 0]]
  /\ UNCHANGED <<process, set, indexers, lock>>

PatchTrust(t, c, trust) ==
  /\ phase = "serving" /\ calls[t] = Idle /\ Known(c)
  /\ trust \in {"verified", "unverified"}
  /\ Disturb("judgements")
  /\ SetChainTrust(c, trust, "operator")
  /\ UNCHANGED <<process, set, indexers, lock, calls, asked>>

-----------------------------------------------------------------------------
(* The indexers: Run writes its row or returns an error, once.             *)

Becomes(x, state) == indexers' = (indexers \ {x}) \cup {[x EXCEPT !.state = state]}

IndexerBegins(x) ==
  /\ x.state = "starting"
  /\ UpsertChain(x.entry.id)
  /\ Becomes(x, "running")
  /\ UNCHANGED <<process, set, lock, calls, asked, trouble>>

\* runCtx ends, and with it every other indexer.
FatalFailure(x) ==
  /\ x.state = "starting" /\ x.entry.config
  /\ Disturb("fails")
  /\ cancelled' = TRUE /\ indexers' = {}
  /\ UNCHANGED <<phase, signalled, launches, todo, set, lock, calls, profiles, asked>>

\* Whatever entry the chain has by now leaves the set.
Quarantine(x) ==
  /\ x.state = "starting" /\ ~x.entry.config
  /\ Disturb("fails")
  /\ RemoveEntry(x.entry.id) /\ Becomes(x, "failed")
  /\ UNCHANGED <<process, lock, calls, profiles, asked>>

RecordError(x) ==
  /\ x.state = "failed"
  /\ Attempt(SetChainError(x.entry.id, TRUE))
  /\ Becomes(x, "reported")
  /\ UNCHANGED <<process, set, lock, calls, asked>>

RecordQuarantine(x) ==
  /\ x.state = "reported"
  /\ Attempt(SetChainTrust(x.entry.id, "quarantined", "daemon"))
  /\ indexers' = indexers \ {x}
  /\ UNCHANGED <<process, set, lock, calls, asked>>

-----------------------------------------------------------------------------
(* The end of the process, and the next one.                               *)

Signal ==
  /\ phase = "serving" /\ ~signalled
  /\ signalled' = TRUE
  /\ Disturb("signals")
  /\ UNCHANGED <<phase, cancelled, launches, todo, set, indexers, lock, calls, profiles, asked>>

\* Requests that got in are finished; then everything is cancelled and closed.
Shutdown ==
  /\ phase = "serving" /\ signalled
  /\ \A t \in Operators : calls[t] = Idle
  /\ Ended /\ NoTrouble

Crash == phase # "down" /\ Disturb("crashes") /\ Ended

Restart ==
  /\ phase = "down"
  /\ phase' = "config" /\ todo' = ConfigChains
  /\ UNCHANGED <<cancelled, signalled, launches, set, indexers, lock, calls, profiles, asked, trouble>>

Init ==
  /\ phase = "config" /\ todo = ConfigChains
  /\ cancelled = FALSE /\ signalled = FALSE /\ launches = 0
  /\ set = <<>> /\ indexers = {} /\ lock = NoOne
  /\ calls = [t \in Threads |-> Idle]
  /\ profiles \in Databases
  /\ asked = [c \in Chains |-> "both"]
  /\ \E s \in Scenarios : trouble = [allowed |-> s, seen |-> [d \in Disturbance |-> 0]]

MainStep ==
  \/ StartConfigChain \/ ConfigChainFails \/ ListStored \/ RestartStored \/ Serve
  \/ StartStored(Main) \/ Shutdown

Next ==
  \/ MainStep \/ Signal \/ Crash \/ Restart
  \/ \E t \in Operators :
       \/ StartStored(t) \/ Stop(t) \/ Disable(t)
       \/ \E c \in Chains :
            \/ \E n \in Nodes : AddChain(t, c, n)
            \/ DeleteChain(t, c)
            \/ \E b \in BOOLEAN : PatchEnabled(t, c, b)
            \/ \E trust \in Trust : PatchTrust(t, c, trust)
  \/ \E x \in indexers :
       IndexerBegins(x) \/ FatalFailure(x) \/ Quarantine(x) \/ RecordError(x) \/ RecordQuarantine(x)

Spec == Init /\ [][Next]_vars

\* The main goroutine is always let run.
FairSpec == Spec /\ WF_vars(MainStep)

-----------------------------------------------------------------------------
(* Properties.                                                             *)

Settled(c) == \A t \in Threads : calls[t].op # "idle" => calls[t].id # c

\* A chain whose removal was answered is not run again, by this process or a later one,
\* until it is asked for: deleteChain and patchChain against startup, crashes, requests
\* about other chains and the failure of indexers that go on running.
StaysGone ==
  \A c \in Chains : asked[c] = "stop" /\ Settled(c) =>
    /\ ~Running(c)
    /\ c \in DOMAIN ListChains /\ ListChains[c].source # "config" => ~ListChains[c].enabled

\* Configured chains come before added ones, so what a request without a chain id means
\* (Set.First) is not taken over by a chain somebody added, in this run or before it.
ConfigComesFirst ==
  \A i, j \in DOMAIN set : i < j /\ set[j].config => set[i].config

\* The chain set is what was asked for: nothing that was removed, nothing added in front of
\* the configuration.
SetAsAsked == StaysGone /\ ConfigComesFirst

\* SetChainTrust and UpsertChainProfile: once a chain's row exists, its trust is what the
\* operator or the daemon said last.  Restarts, a chain stopped and added again, or an
\* indexer beginning late do not lift a quarantine or undo a promotion.
TrustIsDeliberate ==
  [][\A c \in DOMAIN profiles : profiles'[c].trust # profiles[c].trust =>
       profiles'[c].by = IF profiles'[c].trust = "quarantined" THEN "daemon" ELSE "operator"]_vars

\* run: a chain added earlier is brought back by the next process, or its row says why not,
\* whatever happens to the chains before it.
AddedReturns ==
  \A c \in Chains :
    phase = "config" /\ Known(c) /\ profiles[c].enabled /\ profiles[c].source = "api"
    ~> \/ Running(c) \/ (Known(c) /\ profiles[c].error)
       \/ phase = "down"                    \* it did not get that far
       \/ trouble.seen["writes"] > 0        \* the list or the error was lost

\* launch's comment: a configured chain that stops takes the process down, so that its
\* supervisor restarts it.
FatalEndsProcess == cancelled ~> phase # "serving"
=============================================================================
