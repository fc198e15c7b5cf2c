------------------------------- MODULE Names --------------------------------
(***************************************************************************)
(* Names for accounts.  The operator hangs a resolver under an ENS name    *)
(* with cmd/evmscan-ens: a command line run that sends up to four          *)
(* transactions in a row, any of which may fail, never be mined, or be     *)
(* given up on and mined later.  Readers then claim labels in              *)
(* HintAliasResolver by signature, which internal/api/names.go carries,    *)
(* or anyone else.  An account can also sign for the hint served under its *)
(* address (internal/api/accounthint.go), which is stored, not sent.       *)
(*                                                                         *)
(* The ENS contracts are not in the repository: they are what attach       *)
(* relies on.  The name's user registry is deployed at one address only    *)
(* (CREATE2, one salt per name), so it either exists or it does not.       *)
(***************************************************************************)
EXTENDS Integers, Sequences, SequencesExt, FiniteSets

CONSTANTS
  Accounts, Labels,
  Resolvers, FirstGoal, LastGoal,  \* resolvers; the one attached first, the one after
  NameRelayWindow, HintMinGap,  \* how long the relay and the hint store wait
  Slots,                   \* requests served at once
  Digests,                 \* hints' contents
  MaxTime,                 \* bound on the clock
  Scenarios  \* bounds: what may happen in a behaviour, how often, and where it starts

\* What is counted: signatures made; requests; transactions sent by others; submits
\* and receipts that failed; pool transactions lost; goals changed; hints signed and
\* posted.
Event == {"signs", "requests", "direct", "faults", "drops", "goals", "hints", "posts"}

None == "none"

ASSUME NamesAssumption ==
  /\ {FirstGoal, LastGoal} \subseteq Resolvers
  /\ None \notin Accounts \cup Labels \cup Resolvers
  /\ NameRelayWindow \in Nat /\ HintMinGap \in Nat /\ MaxTime \in Nat
  /\ Scenarios \subseteq [allowed : [Event -> Nat], attached : BOOLEAN]

VARIABLES
  deployed,        \* resolvers with code
  ens,             \* the name: its user registry, whether it is linked, the label's resolver
  outbox,          \* the operator's transactions in the pool, in nonce order
  tool,            \* the evmscan-ens run
  goal,            \* the resolver the operator wants under the label
  accountOfLabel, labelOfAccount, nonces,  \* HintAliasResolver
  signed,          \* signatures readers have made
  pool,            \* claims in the pool
  nameRelayLast,   \* when the relay last sent for an account
  requests,        \* the requests being served, by slot
  hints,           \* account_hints
  signedHints,     \* the hints accounts have signed
  posts,           \* the posts being served, by slot
  replaced,        \* history: the hints each account has replaced
  now,
  withdrawals,     \* history: how often each account's name was released
  author,          \* history: the signature each account's name comes from
  trouble          \* how often each event may happen in this behaviour, and has

wiring == <<deployed, ens, outbox, tool, goal>>
contract == <<accountOfLabel, labelOfAccount, nonces, withdrawals, author>>
relay == <<nameRelayLast, requests>>
hinting == <<hints, signedHints, posts, replaced>>
vars == <<wiring, contract, relay, signed, pool, hinting, now, trouble>>

Count(event) ==
  /\ trouble.seen[event] < trouble.allowed[event]
  /\ trouble' = [trouble EXCEPT !.seen[event] = @ + 1]

-----------------------------------------------------------------------------
(* The operator's transactions.                                            *)

Idle == [pc |-> "off", receipt |-> None]

\* Whether a transaction would go through as things stand: a proxy is deployed
\* once, a label registered once, and only a registered label re-pointed.
Valid(t) ==
  CASE t.op = "deployProxy" -> ~ens.proxy
    [] t.op = "register" -> ens.points = None
    [] t.op = "setResolver" -> ens.points # None
    [] OTHER -> TRUE

Executed(t) ==
  CASE t.op = "deployProxy" -> [ens EXCEPT !.proxy = TRUE]
    [] t.op = "setSubregistry" -> [ens EXCEPT !.linked = TRUE]
    [] t.op \in {"register", "setResolver"} -> [ens EXCEPT !.points = t.arg]
    [] OTHER -> ens

\* The oldest transaction of the operator's key is mined, or reverts.
MineOutbox ==
  /\ outbox # <<>>
  /\ LET t == Head(outbox)
         ok == Valid(t)
     IN  /\ ens' = IF ok THEN Executed(t) ELSE ens
         /\ deployed' = IF t.op = "resolver" THEN deployed \cup {t.arg} ELSE deployed
         /\ tool' = IF t.awaited
                    THEN [tool EXCEPT !.receipt = IF ok THEN "ok" ELSE "reverted"] ELSE tool
  /\ outbox' = Tail(outbox)
  /\ UNCHANGED <<goal, contract, relay, signed, pool, now, trouble, hinting>>

\* The pool forgets the newest one.
DropOutbox ==
  /\ outbox # <<>>
  /\ outbox' = Front(outbox)
  /\ Count("drops")
  /\ UNCHANGED <<deployed, ens, tool, goal, contract, relay, signed, pool, now, hinting>>

Abandoned(q) == [i \in 1..Len(q) |-> [q[i] EXCEPT !.awaited = FALSE]]

\* A run ends; what it sent stays in the pool.
Quit == tool' = Idle /\ outbox' = Abandoned(outbox)

\* session.send: estimate, sign and send.  A call that would revert now is not
\* sent, and one may fail to be, as when the daemon takes the nonce.
Submit(op, arg, next) ==
  LET t == [op |-> op, arg |-> arg, awaited |-> TRUE]
  IN  \/ /\ Valid(t)
         /\ outbox' = Append(outbox, t)
         /\ tool' = [tool EXCEPT !.pc = next, !.receipt = "waiting"]
         /\ UNCHANGED trouble
      \/ ~Valid(t) /\ Quit /\ UNCHANGED trouble
      \/ Count("faults") /\ Quit

\* ... and wait for the receipt: mined, reverted, or not in time.
Wait(at, next) ==
  /\ tool.pc = at
  /\ \/ /\ tool.receipt = "ok" /\ tool' = [tool EXCEPT !.pc = next]
        /\ UNCHANGED <<outbox, trouble>>
     \/ tool.receipt = "reverted" /\ Quit /\ UNCHANGED trouble
     \/ /\ tool.receipt = "waiting" /\ \A i \in 1..Len(outbox) : ~outbox[i].awaited
        /\ Quit /\ UNCHANGED trouble
     \/ Count("faults") /\ Quit
  /\ UNCHANGED <<deployed, ens, goal, contract, relay, signed, pool, now, hinting>>

-----------------------------------------------------------------------------
(* evmscan-ens.                                                            *)

\* What a Universal Resolver finds for a name below the label.
FindResolver == IF ens.linked THEN ens.points ELSE None

\* evmscan-ens check, which tells the operator to stop.
Resolves == FindResolver = goal

\* Nothing is sent to or pointed at an address without code.
HasCode(r) == r \in deployed

\* The tool reads the registries before each transaction it decides on.
GetSubregistry == ens.linked
GetResolver == ens.points

\* The operator runs the tool until the label resolves where it should: first
\* the resolver itself, then attach.
DeployResolver ==
  /\ tool.pc = "off" /\ ~HasCode(goal)
  /\ Submit("resolver", goal, "resolver")
  /\ UNCHANGED <<deployed, ens, goal, contract, relay, signed, pool, now, hinting>>

DeployResolverWait == Wait("resolver", "off")

\* Faulty variant of Attach: a subregistry is deployed without looking for one.
AttachBlind ==
  /\ tool.pc = "off" /\ HasCode(goal) /\ ~Resolves
  /\ Submit("deployProxy", None, "proxy")
  /\ UNCHANGED <<deployed, ens, goal, contract, relay, signed, pool, now, hinting>>

\* attach probes the resolver and the name, then reads whether the name has a
\* subregistry, and deploys one only if it does not.
Attach ==
  /\ tool.pc = "off" /\ HasCode(goal) /\ ~Resolves
  /\ IF GetSubregistry
     THEN tool' = [tool EXCEPT !.pc = "label"] /\ UNCHANGED <<outbox, trouble>>
     ELSE Submit("deployProxy", None, "proxy")
  /\ UNCHANGED <<deployed, ens, goal, contract, relay, signed, pool, now, hinting>>

DeployProxyWait == Wait("proxy", "link")

SetSubregistry ==
  /\ tool.pc = "link"
  /\ Submit("setSubregistry", None, "linking")
  /\ UNCHANGED <<deployed, ens, goal, contract, relay, signed, pool, now, hinting>>

SetSubregistryWait == Wait("linking", "label")

\* The label is registered, re-pointed, or left alone.
PointLabel ==
  /\ tool.pc = "label"
  /\ CASE GetResolver = goal -> tool' = [tool EXCEPT !.pc = "check"] /\ UNCHANGED <<outbox, trouble>>
       [] GetResolver = None -> Submit("register", goal, "pointing")
       [] OTHER -> Submit("setResolver", goal, "pointing")
  /\ UNCHANGED <<deployed, ens, goal, contract, relay, signed, pool, now, hinting>>

PointLabelWait == Wait("pointing", "check")

\* The run reads the label back before it says that it is wired.
ReadBack ==
  /\ tool.pc = "check"
  /\ Quit
  /\ UNCHANGED <<deployed, ens, goal, contract, relay, signed, pool, now, trouble, hinting>>

\* A proxy that is deployed and not linked stops every later attach: the operator
\* links it by hand (docs/MAINNET.md).
Stranded == ens.proxy /\ ~ens.linked /\ outbox = <<>>

LinkByHand ==
  /\ tool.pc = "off" /\ Stranded
  /\ Submit("setSubregistry", None, "byhand")
  /\ UNCHANGED <<deployed, ens, goal, contract, relay, signed, pool, now, hinting>>

LinkByHandWait == Wait("byhand", "off")

\* A new resolver is to replace the one under the label.
ChangeGoal ==
  /\ goal = FirstGoal /\ goal # LastGoal /\ tool.pc = "off"
  /\ goal' = LastGoal
  /\ Count("goals")
  /\ UNCHANGED <<deployed, ens, outbox, tool, contract, relay, signed, pool, now, hinting>>

-----------------------------------------------------------------------------
(* HintAliasResolver.                                                      *)

NoSig == [kind |-> None, label |-> None, account |-> None, deadline |-> 0, nonce |-> 0,
          after |-> 0]

\* A reader signs against the nonce GET /v1/names shows; after counts the
\* withdrawals that had happened by then.
NameNonce(a) == nonces[a]
NameHolder(l) == accountOfLabel[l]
NameInfo(a) == [nonce |-> NameNonce(a), held |-> labelOfAccount[a]]

Sign(kind, l, a, deadline) ==
  /\ signed' = signed \cup {[kind |-> kind, label |-> l, account |-> a, deadline |-> deadline,
                             nonce |-> NameInfo(a).nonce, after |-> withdrawals[a]]}
  /\ signed' # signed
  /\ Count("signs")
  /\ UNCHANGED <<wiring, contract, relay, pool, now, hinting>>

\* The signature is in time, and the account's own for this nonce.
Authorize(s) == now <= s.deadline /\ s.nonce = nonces[s.account]

Accepts(s) ==
  /\ Authorize(s)
  /\ IF s.kind = "claim" THEN NameHolder(s.label) \in {None, s.account}
     ELSE NameHolder(s.label) = s.account

\* claimFor: the name the account had is freed first.
ClaimFor(s) ==
  /\ accountOfLabel' = [l \in Labels |-> IF l = s.label THEN s.account
                                         ELSE IF labelOfAccount[s.account] = l THEN None
                                         ELSE accountOfLabel[l]]
  /\ labelOfAccount' = [labelOfAccount EXCEPT ![s.account] = s.label]
  /\ nonces' = [nonces EXCEPT ![s.account] = @ + 1]
  /\ author' = [author EXCEPT ![s.account] = s]
  /\ UNCHANGED withdrawals

\* Faulty variant of ReleaseFor: no nonce is spent.
ReleaseUnspent(s) ==
  /\ accountOfLabel' = [accountOfLabel EXCEPT ![s.label] = None]
  /\ labelOfAccount' = [labelOfAccount EXCEPT ![s.account] = None]
  /\ withdrawals' = [withdrawals EXCEPT ![s.account] = @ + 1]
  /\ UNCHANGED <<nonces, author>>

ReleaseFor(s) ==
  /\ accountOfLabel' = [accountOfLabel EXCEPT ![s.label] = None]
  /\ labelOfAccount' = [labelOfAccount EXCEPT ![s.account] = None]
  /\ nonces' = [nonces EXCEPT ![s.account] = @ + 1]
  /\ withdrawals' = [withdrawals EXCEPT ![s.account] = @ + 1]
  /\ UNCHANGED author

Execute(s) ==
  IF ~Accepts(s) THEN UNCHANGED contract
  ELSE IF s.kind = "claim" THEN ClaimFor(s) ELSE ReleaseFor(s)

\* A claim from the pool is mined, in any order, or reverts; once lost it may be
\* mined no more.
MinePool(t) ==
  /\ pool' = pool \ {t}
  /\ Execute(t.sig)
  /\ requests' = [i \in Slots |->
       IF requests[i].pc = "wait" /\ requests[i].tx = t THEN [requests[i] EXCEPT !.pc = "mined"]
       ELSE requests[i]]
  /\ UNCHANGED <<wiring, nameRelayLast, signed, now, trouble, hinting>>

DropPool(t) ==
  /\ pool' = pool \ {t}
  /\ Count("drops")
  /\ UNCHANGED <<wiring, contract, relay, signed, now, hinting>>

\* Anyone who has seen a signature may carry it.
CarriedByOther(s) ==
  /\ Accepts(s) /\ Execute(s)
  /\ Count("direct")
  /\ UNCHANGED <<wiring, relay, signed, pool, now, hinting>>

Tick ==
  /\ now < MaxTime
  /\ now' = now + 1
  /\ UNCHANGED <<wiring, contract, relay, signed, pool, trouble, hinting>>

-----------------------------------------------------------------------------
(* POST /v1/names.                                                         *)

Never == -1
NoTx == [id |-> <<0, 0>>, sig |-> NoSig]
Free == [pc |-> "free", sig |-> NoSig, tx |-> NoTx]

\* The relay reads the window, and lets go of the lock before it simulates.
RelayName(i, s) ==
  /\ requests[i].pc = "free"
  /\ now <= s.deadline
  /\ ~(nameRelayLast[s.account] # Never /\ now - nameRelayLast[s.account] < NameRelayWindow)
  /\ requests' = [requests EXCEPT ![i] = [pc |-> "simulate", sig |-> s, tx |-> NoTx]]
  /\ Count("requests")
  /\ UNCHANGED <<wiring, contract, nameRelayLast, signed, pool, now, hinting>>

\* What the resolver would reject is refused for the price of a call.
SimulateName(i) ==
  LET s == requests[i].sig
  IN  /\ requests[i].pc = "simulate"
      /\ IF Accepts(s)
         THEN /\ nameRelayLast' = [nameRelayLast EXCEPT ![s.account] = now]
              /\ requests' = [requests EXCEPT ![i].pc = "send"]
         ELSE /\ requests' = [requests EXCEPT ![i] = Free]
              /\ UNCHANGED nameRelayLast
      /\ UNCHANGED <<wiring, contract, signed, pool, now, trouble, hinting>>

\* A claim that could not be sent gives its window back.
SendName(i) ==
  LET s == requests[i].sig
      t == [id |-> <<i, trouble.seen["requests"]>>, sig |-> s]
  IN  /\ requests[i].pc = "send"
      /\ \/ /\ pool' = pool \cup {t}
            /\ requests' = [requests EXCEPT ![i].pc = "wait", ![i].tx = t]
            /\ UNCHANGED <<nameRelayLast, trouble>>
         \/ /\ Count("faults")
            /\ requests' = [requests EXCEPT ![i] = Free]
            /\ nameRelayLast' = [nameRelayLast EXCEPT ![s.account] = Never]
            /\ UNCHANGED pool
      /\ UNCHANGED <<wiring, contract, signed, now, hinting>>

\* The answer waits for the receipt, or says that it did not arrive in time.
AnswerName(i) ==
  /\ requests[i].pc \in {"wait", "mined"}
  /\ requests' = [requests EXCEPT ![i] = Free]
  /\ UNCHANGED <<wiring, contract, nameRelayLast, signed, pool, now, trouble, hinting>>

-----------------------------------------------------------------------------
(* POST and GET /v1/accounts/{address}/hint.                               *)

NoHint == [digest |-> None, deadline |-> -1, at |-> -1]
NoPost == [pc |-> "free", account |-> None, digest |-> None, deadline |-> 0]

SignHint(a, digest, deadline) ==
  /\ signedHints' = signedHints \cup {[account |-> a, digest |-> digest, deadline |-> deadline]}
  /\ signedHints' # signedHints
  /\ Count("hints")
  /\ UNCHANGED <<wiring, contract, relay, signed, pool, hints, posts, replaced, now>>

\* The handler checks the signature and reads when the stored hint was put.
PostAccountHint(i, h) ==
  /\ posts[i].pc = "free"
  /\ now <= h.deadline
  /\ ~(hints[h.account] # NoHint /\ now - hints[h.account].at < HintMinGap)
  /\ posts' = [posts EXCEPT ![i] = [pc |-> "put", account |-> h.account, digest |-> h.digest,
                                   deadline |-> h.deadline]]
  /\ Count("posts")
  /\ UNCHANGED <<wiring, contract, relay, signed, pool, hints, signedHints, replaced, now>>

Rises(a, deadline) == hints[a].deadline < deadline

\* PutAccountHint, one statement: a stored hint gives way only to a later deadline.
PutAccountHint(i) ==
  LET p == posts[i]
      old == hints[p.account]
  IN  /\ p.pc = "put"
      /\ IF Rises(p.account, p.deadline)
         THEN /\ hints' = [hints EXCEPT ![p.account] =
                            [digest |-> p.digest, deadline |-> p.deadline, at |-> now]]
              /\ replaced' = IF old = NoHint \/ old.digest = p.digest THEN replaced
                             ELSE [replaced EXCEPT ![p.account] =
                                     @ \cup {[digest |-> old.digest, deadline |-> old.deadline]}]
         ELSE UNCHANGED <<hints, replaced>>
      /\ posts' = [posts EXCEPT ![i] = NoPost]
      /\ UNCHANGED <<wiring, contract, relay, signed, pool, signedHints, now, trouble>>

\* What GET serves: the reader's own, or one built from the index.
AccountHintBytes(a) == IF hints[a] # NoHint THEN hints[a].digest ELSE "index"

-----------------------------------------------------------------------------

Init ==
  /\ \E x \in Scenarios :
       /\ trouble = [allowed |-> x.allowed, seen |-> [e \in Event |-> 0]]
       /\ deployed = IF x.attached THEN {LastGoal} ELSE {}
       /\ goal = IF x.attached THEN LastGoal ELSE FirstGoal
       /\ ens = IF x.attached THEN [proxy |-> TRUE, linked |-> TRUE, points |-> LastGoal]
                ELSE [proxy |-> FALSE, linked |-> FALSE, points |-> None]
  /\ outbox = <<>> /\ tool = Idle
  /\ accountOfLabel = [l \in Labels |-> None]
  /\ labelOfAccount = [a \in Accounts |-> None]
  /\ nonces = [a \in Accounts |-> 0]
  /\ withdrawals = [a \in Accounts |-> 0]
  /\ author = [a \in Accounts |-> NoSig]
  /\ signed = {} /\ pool = {} /\ now = 0
  /\ nameRelayLast = [a \in Accounts |-> Never]
  /\ requests = [i \in Slots |-> Free]
  /\ hints = [a \in Accounts |-> NoHint] /\ signedHints = {}
  /\ posts = [i \in Slots |-> NoPost] /\ replaced = [a \in Accounts |-> {}]

ToolStep ==
  \/ DeployResolver \/ DeployResolverWait \/ Attach \/ DeployProxyWait
  \/ SetSubregistry \/ SetSubregistryWait \/ PointLabel \/ PointLabelWait
  \/ ReadBack \/ LinkByHandWait

Next ==
  \/ ToolStep \/ LinkByHand \/ ChangeGoal \/ MineOutbox \/ DropOutbox
  \/ \E kind \in {"claim", "release"}, l \in Labels, a \in Accounts, d \in 0..MaxTime :
       Sign(kind, l, a, d)
  \/ \E s \in signed : CarriedByOther(s) \/ \E i \in Slots : RelayName(i, s)
  \/ \E t \in pool : MinePool(t) \/ DropPool(t)
  \/ \E i \in Slots : SimulateName(i) \/ SendName(i) \/ AnswerName(i)
  \/ \E a \in Accounts, g \in Digests, d \in 0..MaxTime : SignHint(a, g, d)
  \/ \E i \in Slots : PutAccountHint(i) \/ \E h \in signedHints : PostAccountHint(i, h)
  \/ Tick

Spec == Init /\ [][Next]_vars

FairSpec ==
  /\ Spec
  /\ WF_vars(ToolStep) /\ WF_vars(MineOutbox) /\ SF_vars(LinkByHand)

-----------------------------------------------------------------------------

\* The two mappings say the same: an account that answers to a label is the one the
\* label resolves to, whatever claims, refreshes and releases were mined in whatever
\* order (HintAliasResolver.sol, labelOfAccount: "the reverse of accountOfLabel").
NamesInverse ==
  \A a \in Accounts, l \in Labels : labelOfAccount[a] = l <=> accountOfLabel[l] = a

\* A name its owner withdrew does not come back from a signature made before: not
\* from the relay's pool, not from anyone who kept a copy.
WithdrawnStaysWithdrawn ==
  \A a \in Accounts : labelOfAccount[a] # None => author[a].after = withdrawals[a]

\* A hint its account has replaced is not served again: a copy of the old signature,
\* posted once more or overlapping the new one, does not put it back (accounthint.go,
\* "the deadline keeps an old signature from putting an old hint back").
ReplacedHintIsGone ==
  \A a \in Accounts : \A h \in replaced[a] :
    AccountHintBytes(a) = h.digest => hints[a].deadline > h.deadline

\* What an account said of itself last, its alias on the chain and its hint in the store,
\* stands: no signature made before that is given effect again, and the two directions of
\* an alias agree.
LastWordStands == NamesInverse /\ WithdrawnStaysWithdrawn /\ ReplacedHintIsGone

\* An attach that is run again until the label resolves does get there, although runs
\* time out, die, lose a nonce and leave transactions to be mined later; the one state
\* no rerun leaves by itself is repaired by hand.
AttachCompletes == <>[]Resolves
=============================================================================
