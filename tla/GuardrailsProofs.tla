--------------------------- MODULE GuardrailsProofs ---------------------------
(***************************************************************************)
(* Proofs about Guardrails, for any clients, pairs, requests and           *)
(* configurations, any time and any number of restarts.                    *)
(*                                                                         *)
(* The lock lets one client at a time past the verdict, so that only time, *)
(* the cleanup and a restart can meet it (VerdictOK).  The cooldown of an  *)
(* acknowledged order is either still owed by the client inside the lock   *)
(* (OwedOK) or in the table and on disk (KeptOK).  The cleanup deletes     *)
(* what was over when it was read (DoomedOK): if it takes a row that is    *)
(* not over, the row is not the one it read.                               *)
(***************************************************************************)
EXTENDS Guardrails, TLAPS

\* Who is inside the lock has a request.
RequestOK == \A c \in Clients : pc[c] # "idle" => req[c] \in Request

\* The verdict of a client whose order is about to go out.
VerdictOK == \A c \in Clients : pc[c] = "place" => Passes(req[c])

Until(row) == row.last + row.secs

DoomedOK == \A x \in doomed : Until(seen[x]) <= now

\* A cooldown that was promised, is not over and was not taken away.
Bound(x) == promised[x] > now /\ ~lapsed[x]

Owed(x) == \E c \in Clients : pc[c] \in Owing /\ req[c].pair = x

\* Before the client has written the cooldown the promise is no longer than what it will
\* write; afterwards it has been written.
OwedOK ==
    \A c \in Clients :
        /\ pc[c] \in {"record", "upsert"} => promised[req[c].pair] <= now + config.secs
        /\ pc[c] = "commit" /\ Bound(req[c].pair)
              => Until(cool[req[c].pair]) >= promised[req[c].pair]

KeptOK ==
    \A x \in Pairs :
        Bound(x) => \/ Owed(x)
                    \/ Until(cool[x]) >= promised[x] /\ Until(coolDisk[x]) >= promised[x]

IInv == TypeOK /\ RequestOK /\ VerdictOK /\ DoomedOK /\ OwedOK /\ KeptOK

-----------------------------------------------------------------------------
(* Types *)

\* What the evaluator holds has a length of the cooldown.
LEMMA ConfigTypes ==
    ASSUME TypeOK
    PROVE  config.secs \in Nat
  <1>1. PICK c \in Configs : config = Load(c)
        BY DEF TypeOK
  <1>2. c \in [listed : SUBSET Pairs, min : Nat, max : Nat, secs : Nat]
        BY GuardrailAssumption
  <1>3. config.secs = OrDefault(c.secs, DefaultSecs)
        BY <1>1, <1>2 DEF Load
  <1>4. QED
        BY <1>2, <1>3, GuardrailAssumption DEF OrDefault

\* The variables have their types at the start.
LEMMA InitTypes == Init => TypeOK
  <1> SUFFICES ASSUME Init PROVE TypeOK
      OBVIOUS
  <1>1. cool \in [Pairs -> Row] /\ coolDisk \in [Pairs -> Row] /\ seen \in [Pairs -> Row]
        BY DEF Init, NoRow, Row
  <1>2. now \in 0 .. MaxTime /\ crashes \in 0 .. MaxCrashes
        BY GuardrailAssumption DEF Init
  <1>3. \A c \in Clients : holder = c <=> pc[c] # "idle"
        BY GuardrailAssumption DEF Init
  <1>4. QED
        BY <1>1, <1>2, <1>3 DEF Init, TypeOK, Points

\* The lock: one client leaves, or goes on inside.
LEMMA LockKept ==
    ASSUME TypeOK, NEW c \in Clients, NEW from, NEW to \in Points,
           from # "idle", (Goto(c, from, to) /\ to # "idle") \/ Leave(c, from)
    PROVE  /\ holder' \in Clients \cup {None}
           /\ pc' \in [Clients -> Points]
           /\ req' \in [Clients -> Request \cup {NoRequest}]
           /\ \A d \in Clients : holder' = d <=> pc'[d] # "idle"
  BY GuardrailAssumption DEF TypeOK, Goto, Leave, Points

\* Every step keeps the types.
LEMMA StepTypes == TypeOK /\ [Next]_vars => TypeOK'
  <1> SUFFICES ASSUME TypeOK, [Next]_vars PROVE TypeOK'
      OBVIOUS
  <1> USE GuardrailAssumption
  <1>1. ASSUME NEW c \in Clients, NEW x \in Pairs, NEW n \in Notionals,
               Submit(c, [pair |-> x, notional |-> n])
        PROVE  TypeOK'
    <2>1. [pair |-> x, notional |-> n] \in Request
          BY DEF Request
    <2>2. /\ holder' \in Clients \cup {None}
          /\ pc' \in [Clients -> Points]
          /\ req' \in [Clients -> Request \cup {NoRequest}]
          /\ \A d \in Clients : holder' = d <=> pc'[d] # "idle"
          BY <1>1, <2>1 DEF Submit, TypeOK, Points
    <2>3. QED
          BY <1>1, <2>2 DEF Submit, TypeOK, cooldowns, cleanup, history
  <1>2. ASSUME NEW c \in Clients, EvaluatePass(c) \/ RecordOrder(c)
        PROVE  TypeOK'
    <2>1. /\ holder' \in Clients \cup {None}
          /\ pc' \in [Clients -> Points]
          /\ req' \in [Clients -> Request \cup {NoRequest}]
          /\ \A d \in Clients : holder' = d <=> pc'[d] # "idle"
          BY <1>2, LockKept DEF EvaluatePass, RecordOrder, Points
    <2>2. QED
          BY <1>2, <2>1 DEF EvaluatePass, RecordOrder, TypeOK, cleanup, history
  <1>3. ASSUME NEW c \in Clients, EvaluateBreach(c) \/ PlaceFails(c)
        PROVE  TypeOK'
    <2>1. /\ holder' \in Clients \cup {None}
          /\ pc' \in [Clients -> Points]
          /\ req' \in [Clients -> Request \cup {NoRequest}]
          /\ \A d \in Clients : holder' = d <=> pc'[d] # "idle"
          BY <1>3, LockKept DEF EvaluateBreach, PlaceFails, Points
    <2>2. QED
          BY <1>3, <2>1 DEF EvaluateBreach, PlaceFails, TypeOK, cooldowns, cleanup, history
  <1>4. ASSUME NEW c \in Clients, Place(c)
        PROVE  TypeOK'
    <2>1. /\ holder' \in Clients \cup {None}
          /\ pc' \in [Clients -> Points]
          /\ req' \in [Clients -> Request \cup {NoRequest}]
          /\ \A d \in Clients : holder' = d <=> pc'[d] # "idle"
          BY <1>4, LockKept DEF Place, Points
    <2>2. now + config.secs \in Nat
          BY ConfigTypes DEF TypeOK
    <2>3. promised' \in [Pairs -> Nat] /\ lapsed' \in [Pairs -> BOOLEAN]
          BY <1>4, <2>2 DEF Place, TypeOK
    <2>4. QED
          BY <1>4, <2>1, <2>3 DEF Place, TypeOK, cooldowns, cleanup
  <1>5. ASSUME NEW c \in Clients, Reject(c) \/ RecordCommit(c)
        PROVE  TypeOK'
    <2>1. /\ holder' \in Clients \cup {None}
          /\ pc' \in [Clients -> Points]
          /\ req' \in [Clients -> Request \cup {NoRequest}]
          /\ \A d \in Clients : holder' = d <=> pc'[d] # "idle"
          BY <1>5, LockKept DEF Reject, RecordCommit, Points
    <2>2. QED
          BY <1>5, <2>1 DEF Reject, RecordCommit, TypeOK, cleanup, history
  <1>6. ASSUME NEW c \in Clients, RecordTrade(c)
        PROVE  TypeOK'
    <2>1. /\ holder' \in Clients \cup {None}
          /\ pc' \in [Clients -> Points]
          /\ req' \in [Clients -> Request \cup {NoRequest}]
          /\ \A d \in Clients : holder' = d <=> pc'[d] # "idle"
          BY <1>6, LockKept DEF RecordTrade, Points
    <2>2. [last |-> now, secs |-> config.secs] \in Row
          BY ConfigTypes DEF TypeOK, Row
    <2>3. cool' \in [Pairs -> Row]
          BY <1>6, <2>2 DEF RecordTrade, TypeOK
    <2>4. QED
          BY <1>6, <2>1, <2>3 DEF RecordTrade, TypeOK, cleanup, history
  <1>7. CASE CleanupSelect
        BY <1>7 DEF CleanupSelect, TypeOK, cooldowns, clients, history
  <1>8. ASSUME NEW x \in Pairs, CleanupDelete(x)
        PROVE  TypeOK'
    <2>1. NoRow \in Row
          BY DEF NoRow, Row
    <2>2. cool' \in [Pairs -> Row] /\ lapsed' \in [Pairs -> BOOLEAN] /\ doomed' \subseteq Pairs
          BY <1>8, <2>1 DEF CleanupDelete, TypeOK
    <2>3. QED
          BY <1>8, <2>2 DEF CleanupDelete, TypeOK, clients
  <1>9. CASE CleanupCommit
    <2>1. seen' \in [Pairs -> Row]
          BY <1>9 DEF CleanupCommit, NoRow, Row
    <2>2. QED
          BY <1>9, <2>1 DEF CleanupCommit, TypeOK, clients, history
  <1>10. CASE Tick
         BY <1>10 DEF Tick, TypeOK, cooldowns, clients, cleanup, history
  <1>11. ASSUME NEW c \in Configs, SetConfig(c)
         PROVE  TypeOK'
         BY <1>11 DEF SetConfig, TypeOK, clients, cleanup, history
  <1>12. CASE SomeoneCommits
         BY <1>12 DEF SomeoneCommits, TypeOK, clients, cleanup, history
  <1>13. CASE Restart
    <2>1. seen' \in [Pairs -> Row]
          BY <1>13 DEF Restart, NoRow, Row
    <2>2. lapsed' \in [Pairs -> BOOLEAN]
          BY <1>13 DEF Restart, TypeOK
    <2>3. /\ holder' \in Clients \cup {None}
          /\ pc' \in [Clients -> Points]
          /\ req' \in [Clients -> Request \cup {NoRequest}]
          /\ \A d \in Clients : holder' = d <=> pc'[d] # "idle"
          BY <1>13 DEF Restart, Points
    <2>4. config' \in {Load(c) : c \in Configs} /\ crashes' \in 0 .. MaxCrashes
          BY <1>13 DEF Restart, TypeOK
    <2>5. QED
          BY <1>13, <2>1, <2>2, <2>3, <2>4 DEF Restart, TypeOK
  <1>14. CASE UNCHANGED vars
         BY <1>14 DEF vars, TypeOK
  <1>15. QED
         BY <1>1, <1>2, <1>3, <1>4, <1>5, <1>6, <1>7, <1>8, <1>9, <1>10, <1>11, <1>12, <1>13,
            <1>14
            DEF Next, ClientStep, CleanupStep

-----------------------------------------------------------------------------
(* The lock and the verdict *)

\* Who is inside is alone inside.
LEMMA Exclusive ==
    ASSUME TypeOK, NEW c \in Clients, NEW d \in Clients, pc[c] # "idle", pc[d] # "idle"
    PROVE  c = d
  BY DEF TypeOK

\* Nobody inside, no verdict.
LEMMA InitVerdict == Init => RequestOK /\ VerdictOK
  BY DEF Init, RequestOK, VerdictOK

\* Every step keeps the request and the verdict of who is inside.
LEMMA StepVerdict ==
    ASSUME TypeOK, TypeOK', RequestOK, VerdictOK, [Next]_vars
    PROVE  RequestOK' /\ VerdictOK'
  <1>1. ASSUME NEW c \in Clients, NEW x \in Pairs, NEW n \in Notionals,
               Submit(c, [pair |-> x, notional |-> n])
        PROVE  RequestOK' /\ VerdictOK'
    <2>1. [pair |-> x, notional |-> n] \in Request
          BY GuardrailAssumption DEF Request
    <2>2. RequestOK'
          BY <1>1, <2>1 DEF Submit, RequestOK, TypeOK
    <2>3. \A d \in Clients : pc'[d] # "place"
          BY <1>1, Exclusive DEF Submit, TypeOK
    <2>4. QED
          BY <2>2, <2>3 DEF VerdictOK
  <1>2. ASSUME NEW c \in Clients, EvaluatePass(c)
        PROVE  RequestOK' /\ VerdictOK'
    <2>1. RequestOK'
          BY <1>2 DEF EvaluatePass, Goto, RequestOK, TypeOK
    <2>2. /\ Passes(req[c])
          /\ UNCHANGED <<now, cool, config, req>>
          BY <1>2 DEF EvaluatePass, Goto
    <2>3. Passes(req[c])'
          BY <2>2 DEF Passes, CooldownRule, AssetWhitelistRule, OrderNotionalRule,
                      PortfolioRules, Snapshot, InCooldown
    <2>4. \A d \in Clients : pc'[d] = "place" => d = c
          BY <1>2, Exclusive DEF EvaluatePass, Goto, TypeOK
    <2>5. QED
          BY <2>1, <2>3, <2>4 DEF VerdictOK
  <1>3. ASSUME NEW c \in Clients,
               \/ EvaluateBreach(c) \/ Place(c) \/ PlaceFails(c) \/ Reject(c)
               \/ RecordOrder(c) \/ RecordTrade(c) \/ RecordCommit(c)
        PROVE  RequestOK' /\ VerdictOK'
    <2>1. /\ pc[c] # "idle" /\ pc'[c] # "place"
          /\ \A d \in Clients : pc'[d] # "idle" => pc[d] # "idle" /\ req'[d] = req[d]
          /\ \A d \in Clients : d # c => pc'[d] = pc[d]
          BY <1>3 DEF EvaluateBreach, Place, PlaceFails, Reject, RecordOrder, RecordTrade,
                      RecordCommit, Goto, Leave, TypeOK, clients
    <2>2. \A d \in Clients : pc'[d] # "place"
          BY <2>1, Exclusive
    <2>3. QED
          BY <2>1, <2>2 DEF RequestOK, VerdictOK
  <1>4. ASSUME UNCHANGED clients, config' = config, now' \in {now, now + 1},
               \A x \in Pairs : cool'[x] \in {cool[x], NoRow}
        PROVE  RequestOK' /\ VerdictOK'
    <2>1. pc' = pc /\ req' = req /\ now' \in Nat /\ now <= now'
          BY <1>4, GuardrailAssumption DEF clients, TypeOK
    <2>2. RequestOK'
          BY <2>1 DEF RequestOK
    <2>3. ASSUME NEW c \in Clients, pc'[c] = "place"
          PROVE  Passes(req[c])'
      <3>1. req[c].pair \in Pairs /\ Passes(req[c])
            BY <2>1, <2>3 DEF RequestOK, VerdictOK, Request
      <3> DEFINE r == req[c]
      <3>2. Passes(r) /\ r.pair \in Pairs /\ cool'[r.pair] \in {cool[r.pair], NoRow}
            BY <3>1, <1>4
      <3> HIDE DEF r
      <3>3. /\ AssetWhitelistRule(req[c])' = AssetWhitelistRule(r)
            /\ OrderNotionalRule(req[c])' = OrderNotionalRule(r)
            /\ PortfolioRules(req[c])' = PortfolioRules(r)
            BY <1>4, <2>1 DEF r, AssetWhitelistRule, OrderNotionalRule, PortfolioRules, Snapshot
      <3>4. ~InCooldown(r.pair)'
        <4>1. cool[r.pair] \in Row /\ now \in Nat
              BY <3>2, GuardrailAssumption DEF TypeOK
        <4>2. cool[r.pair].last \in Nat /\ cool[r.pair].secs \in Nat
              BY <4>1 DEF Row
        <4>3. cool[r.pair] = NoRow \/ cool[r.pair].last + cool[r.pair].secs <= now
              BY <3>2, <4>1, <4>2 DEF Passes, CooldownRule, InCooldown
        <4>4. QED
              BY <3>2, <2>1, <4>1, <4>2, <4>3 DEF InCooldown, r
      <3>5. QED
            BY <2>1, <3>2, <3>3, <3>4 DEF Passes, CooldownRule, r
    <2>4. QED
          BY <2>2, <2>3 DEF VerdictOK
  <1>5. CASE CleanupSelect \/ CleanupCommit \/ Tick \/ SomeoneCommits
        BY <1>4, <1>5 DEF CleanupSelect, CleanupCommit, Tick, SomeoneCommits, cooldowns
  <1>6. ASSUME NEW x \in Pairs, CleanupDelete(x)
        PROVE  RequestOK' /\ VerdictOK'
        BY <1>4, <1>6 DEF CleanupDelete, TypeOK
  <1>7. ASSUME NEW c \in Configs, SetConfig(c)
        PROVE  RequestOK' /\ VerdictOK'
        BY <1>4, <1>7 DEF SetConfig
  <1>8. CASE Restart
        BY <1>8 DEF Restart, RequestOK, VerdictOK
  <1>9. CASE UNCHANGED vars
        BY <1>4, <1>9 DEF vars, clients
  <1>10. QED
         BY <1>1, <1>2, <1>3, <1>5, <1>6, <1>7, <1>8, <1>9 DEF Next, ClientStep, CleanupStep

-----------------------------------------------------------------------------
(* The cleanup and the cooldowns *)

\* Lengths and times are numbers.
LEMMA Times ==
    ASSUME TypeOK
    PROVE  /\ now \in Nat /\ config.secs \in Nat
           /\ \A x \in Pairs : /\ promised[x] \in Nat /\ lapsed[x] \in BOOLEAN
                               /\ Until(cool[x]) \in Nat /\ Until(coolDisk[x]) \in Nat
                               /\ Until(seen[x]) \in Nat
  <1>1. \A row \in Row : Until(row) \in Nat
        BY DEF Row, Until
  <1>2. QED
        BY <1>1, ConfigTypes, GuardrailAssumption DEF TypeOK

\* Nothing is promised and nothing doomed at the start.
LEMMA InitKept == Init => DoomedOK /\ OwedOK /\ KeptOK
  BY DEF Init, DoomedOK, OwedOK, KeptOK, Bound

\* What the cleanup is about to delete was over when it was read.
LEMMA StepDoomed ==
    ASSUME TypeOK, DoomedOK, [Next]_vars
    PROVE  DoomedOK'
  <1>1. CASE CleanupSelect
        BY <1>1 DEF CleanupSelect, DoomedOK, Until
  <1>2. CASE doomed' = {}
        BY <1>2 DEF DoomedOK
  <1>3. CASE doomed' \subseteq doomed /\ seen' = seen /\ now' \in {now, now + 1}
    <2>1. now \in Nat /\ doomed \subseteq Pairs
          BY GuardrailAssumption DEF TypeOK
    <2>2. \A x \in Pairs : Until(seen[x]) \in Nat /\ Until(seen[x])' = Until(seen[x])
          BY <1>3, Times DEF Until
    <2>3. QED
          BY <1>3, <2>1, <2>2 DEF DoomedOK
  <1>4. CleanupSelect \/ doomed' = {}
          \/ (doomed' \subseteq doomed /\ seen' = seen /\ now' \in {now, now + 1})
        BY DEF Next, ClientStep, CleanupStep, Submit, EvaluatePass, EvaluateBreach, Place,
               PlaceFails, Reject, RecordOrder, RecordTrade, RecordCommit, CleanupSelect,
               CleanupDelete, CleanupCommit, Tick, SetConfig, SomeoneCommits, Restart, vars,
               cleanup
  <1>5. QED
        BY <1>1, <1>2, <1>3, <1>4

\* A step that neither promises, owes nor writes anything anew keeps the cooldowns: rows stay
\* or are committed, time passes, and who is inside goes on to where it owes as much.
LEMMA QuietKept ==
    ASSUME TypeOK, OwedOK, KeptOK,
           UNCHANGED <<cool, promised, lapsed, config>>, now' \in {now, now + 1},
           coolDisk' \in {cool, coolDisk},
           \A c \in Clients : pc'[c] \in Owing =>
               req'[c] = req[c] /\ req[c].pair \in Pairs
               /\ (pc'[c] = pc[c] \/ (pc[c] = "record" /\ pc'[c] = "upsert")),
           \A c \in Clients : pc[c] \in Owing => pc'[c] \in Owing /\ req'[c] = req[c]
    PROVE  OwedOK' /\ KeptOK'
  <1>1. \A x \in Pairs : Bound(x)' => Bound(x)
        BY Times DEF Bound
  <1>2. ASSUME NEW c \in Clients, pc'[c] \in {"record", "upsert"}
        PROVE  promised[req[c].pair]' <= now' + config.secs'
    <2>1. pc[c] \in {"record", "upsert"} /\ req'[c] = req[c] /\ req[c].pair \in Pairs
          BY <1>2 DEF Owing
    <2>2. promised[req[c].pair] <= now + config.secs
          BY <2>1 DEF OwedOK
    <2>3. promised[req[c].pair] \in Nat /\ now \in Nat /\ config.secs \in Nat
          BY <2>1, Times
    <2>4. QED
          BY <2>1, <2>2, <2>3
  <1>3. ASSUME NEW c \in Clients, pc'[c] = "commit", Bound(req[c].pair)'
        PROVE  (Until(cool[req[c].pair]) >= promised[req[c].pair])'
    <2>1. pc[c] = "commit" /\ req'[c] = req[c] /\ req[c].pair \in Pairs
          BY <1>3 DEF Owing
    <2>2. promised[req[c].pair] > now
          BY <1>3, <2>1, Times DEF Bound
    <2>3. Bound(req[c].pair)
          BY <1>3, <2>1, <2>2 DEF Bound
    <2>4. QED
          BY <2>1, <2>3 DEF OwedOK, Until
  <1>4. OwedOK'
        BY <1>2, <1>3 DEF OwedOK
  <1>5. ASSUME NEW x \in Pairs, Bound(x)'
        PROVE  \/ Owed(x)'
               \/ Until(cool[x])' >= promised[x]' /\ Until(coolDisk[x])' >= promised[x]'
    <2>1. Bound(x)
          BY <1>1, <1>5
    <2>2. CASE Owed(x)
          BY <2>2 DEF Owed
    <2>3. CASE Until(cool[x]) >= promised[x] /\ Until(coolDisk[x]) >= promised[x]
          BY <2>3 DEF Until
    <2>4. QED
          BY <2>1, <2>2, <2>3 DEF KeptOK
  <1>6. QED
        BY <1>4, <1>5 DEF KeptOK

\* Every step keeps what is owed and what is kept.
LEMMA StepKept ==
    ASSUME TypeOK, TypeOK', RequestOK, DoomedOK, OwedOK, KeptOK, [Next]_vars
    PROVE  OwedOK' /\ KeptOK'
  <1>0. \A c \in Clients : pc[c] \in Owing => req[c].pair \in Pairs
        BY DEF RequestOK, Request, Owing
  <1>1. ASSUME NEW c \in Clients, NEW x \in Pairs, NEW n \in Notionals,
               Submit(c, [pair |-> x, notional |-> n])
        PROVE  OwedOK' /\ KeptOK'
    <2>1. /\ UNCHANGED <<cool, coolDisk, promised, lapsed, config, now>>
          /\ pc[c] = "idle" /\ pc'[c] = "evaluate"
          /\ \A d \in Clients : d # c => pc'[d] = pc[d] /\ req'[d] = req[d]
          BY <1>1 DEF Submit, cooldowns, history, TypeOK
    <2>2. QED
          BY <2>1, <1>0, QuietKept DEF Owing
  <1>2. ASSUME NEW c \in Clients, EvaluatePass(c) \/ PlaceFails(c) \/ RecordOrder(c)
        PROVE  OwedOK' /\ KeptOK'
    <2>1. /\ UNCHANGED <<cool, promised, lapsed, config, now, req>>
          /\ coolDisk' \in {cool, coolDisk}
          /\ \/ pc[c] \notin Owing /\ pc'[c] \notin Owing
             \/ pc[c] = "record" /\ pc'[c] = "upsert"
          /\ \A d \in Clients : d # c => pc'[d] = pc[d]
          BY <1>2 DEF EvaluatePass, PlaceFails, RecordOrder, Goto, cooldowns, history, TypeOK,
                      Owing
    <2>2. QED
          BY <2>1, <1>0, QuietKept DEF Owing
  <1>3. ASSUME NEW c \in Clients, EvaluateBreach(c) \/ Reject(c)
        PROVE  OwedOK' /\ KeptOK'
    <2>1. /\ UNCHANGED <<cool, promised, lapsed, config, now>>
          /\ coolDisk' \in {cool, coolDisk}
          /\ pc[c] \notin Owing /\ pc'[c] \notin Owing
          /\ \A d \in Clients : d # c => pc'[d] = pc[d] /\ req'[d] = req[d]
          BY <1>3 DEF EvaluateBreach, Reject, Leave, cooldowns, history, TypeOK, Owing
    <2>2. QED
          BY <2>1, <1>0, QuietKept
  <1>4. ASSUME NEW c \in Clients, Place(c)
        PROVE  OwedOK' /\ KeptOK'
    <2> DEFINE x == req[c].pair
    <2>1. /\ UNCHANGED <<cool, coolDisk, config, now, req>>
          /\ pc[c] = "place" /\ pc' = [pc EXCEPT ![c] = "record"]
          /\ promised' = [promised EXCEPT ![x] = now + config.secs]
          /\ lapsed' = [lapsed EXCEPT ![x] = FALSE]
          BY <1>4 DEF Place, Goto, cooldowns
    <2>2. x \in Pairs
          BY <2>1 DEF RequestOK, Request
    <2>3. pc'[c] = "record" /\ \A d \in Clients : d # c => pc'[d] = "idle" /\ pc[d] = "idle"
          BY <2>1, Exclusive DEF TypeOK
    <2>4. OwedOK'
          BY <2>1, <2>2, <2>3, Times DEF OwedOK, TypeOK
    <2>5. ASSUME NEW y \in Pairs, Bound(y)'
          PROVE  \/ Owed(y)'
                 \/ Until(cool[y])' >= promised[y]' /\ Until(coolDisk[y])' >= promised[y]'
      <3>1. CASE y = x
            BY <2>1, <2>3, <3>1 DEF Owed, Owing
      <3>2. CASE y # x
        <4>1. promised'[y] = promised[y] /\ Bound(y)
              BY <2>1, <2>5, <3>2 DEF Bound, TypeOK
        <4>2. ~Owed(y)
              BY <2>1, <2>3 DEF Owed, Owing
        <4>3. QED
              BY <2>1, <4>1, <4>2 DEF KeptOK, Until
      <3>3. QED
            BY <3>1, <3>2
    <2>6. QED
          BY <2>4, <2>5 DEF KeptOK
  <1>5. ASSUME NEW c \in Clients, RecordTrade(c)
        PROVE  OwedOK' /\ KeptOK'
    <2> DEFINE x == req[c].pair
               row == [last |-> now, secs |-> config.secs]
    <2>1. /\ UNCHANGED <<coolDisk, config, now, req, promised, lapsed>>
          /\ pc[c] = "upsert" /\ pc' = [pc EXCEPT ![c] = "commit"]
          /\ cool' = [cool EXCEPT ![x] = row]
          BY <1>5 DEF RecordTrade, Goto, history
    <2>2. x \in Pairs
          BY <1>0, <2>1 DEF Owing
    <2>3. pc'[c] = "commit" /\ \A d \in Clients : d # c => pc'[d] = "idle" /\ pc[d] = "idle"
          BY <2>1, Exclusive DEF TypeOK
    <2>4. Until(cool[x])' >= promised[x]'
      <3>1. promised[x] <= now + config.secs
            BY <2>1 DEF OwedOK
      <3>2. cool'[x] = row
            BY <2>1, <2>2 DEF TypeOK
      <3>3. Until(cool[x])' = now + config.secs
            BY <2>1, <3>2 DEF Until
      <3>4. QED
            BY <2>1, <2>2, <3>1, <3>3, Times
    <2>5. OwedOK'
          BY <2>1, <2>3, <2>4 DEF OwedOK
    <2>6. ASSUME NEW y \in Pairs, Bound(y)'
          PROVE  \/ Owed(y)'
                 \/ Until(cool[y])' >= promised[y]' /\ Until(coolDisk[y])' >= promised[y]'
      <3>1. CASE y = x
            BY <2>1, <2>3, <3>1 DEF Owed, Owing
      <3>2. CASE y # x
        <4>1. cool'[y] = cool[y] /\ Bound(y)
              BY <2>1, <2>6, <3>2 DEF Bound, TypeOK
        <4>2. ~Owed(y)
              BY <2>3, <3>2 DEF Owed, Owing
        <4>3. QED
              BY <2>1, <4>1, <4>2 DEF KeptOK, Until
      <3>3. QED
            BY <3>1, <3>2
    <2>7. QED
          BY <2>5, <2>6 DEF KeptOK
  <1>6. ASSUME NEW c \in Clients, RecordCommit(c)
        PROVE  OwedOK' /\ KeptOK'
    <2> DEFINE x == req[c].pair
    <2>1. /\ UNCHANGED <<cool, config, now, promised, lapsed>>
          /\ pc[c] = "commit" /\ pc' = [pc EXCEPT ![c] = "idle"] /\ coolDisk' = cool
          BY <1>6 DEF RecordCommit, Leave, history
    <2>2. \A d \in Clients : pc'[d] = "idle" /\ (d # c => pc[d] = "idle")
          BY <2>1, Exclusive DEF TypeOK
    <2>3. OwedOK'
          BY <2>2 DEF OwedOK
    <2>4. ASSUME NEW y \in Pairs, Bound(y)'
          PROVE  Until(cool[y])' >= promised[y]' /\ Until(coolDisk[y])' >= promised[y]'
      <3>1. Bound(y)
            BY <2>1, <2>4 DEF Bound
      <3>2. Until(cool[y]) >= promised[y]
        <4>1. CASE y = x
              BY <2>1, <3>1, <4>1 DEF OwedOK
        <4>2. CASE y # x
          <5>1. ~Owed(y)
                BY <2>2, <4>2 DEF Owed, Owing
          <5>2. QED
                BY <3>1, <5>1 DEF KeptOK
        <4>3. QED
              BY <4>1, <4>2
      <3>3. QED
            BY <2>1, <3>2 DEF Until
    <2>5. QED
          BY <2>3, <2>4 DEF KeptOK
  <1>7. ASSUME NEW x \in Pairs, CleanupDelete(x)
        PROVE  OwedOK' /\ KeptOK'
    <2>1. /\ x \in doomed /\ cool' = [cool EXCEPT ![x] = NoRow]
          /\ lapsed' = [lapsed EXCEPT ![x] = @ \/ cool[x] # seen[x]]
          /\ UNCHANGED <<now, coolDisk, config, pc, req, promised>>
          BY <1>7 DEF CleanupDelete, clients
    <2>2. Bound(x)' => Bound(x) /\ ~(Until(cool[x]) >= promised[x])
      <3> SUFFICES ASSUME Bound(x)' PROVE Bound(x) /\ ~(Until(cool[x]) >= promised[x])
          OBVIOUS
      <3>1. promised[x] > now /\ ~lapsed[x] /\ cool[x] = seen[x]
            BY <2>1 DEF Bound, TypeOK
      <3>2. Until(cool[x]) <= now
            BY <2>1, <3>1 DEF DoomedOK
      <3>3. QED
            BY <3>1, <3>2, Times DEF Bound
    <2>3. \A y \in Pairs : y # x => cool'[y] = cool[y] /\ (Bound(y)' => Bound(y))
          BY <2>1 DEF Bound, TypeOK
    <2>4. ASSUME NEW c \in Clients, pc'[c] = "commit", Bound(req[c].pair)'
          PROVE  (Until(cool[req[c].pair]) >= promised[req[c].pair])'
      <3>1. pc[c] = "commit" /\ req'[c].pair = req[c].pair /\ req[c].pair \in Pairs
            BY <2>1, <2>4, <1>0 DEF Owing
      <3>2. req[c].pair # x
            BY <2>1, <2>2, <2>4, <3>1 DEF OwedOK
      <3>3. Bound(req[c].pair)
            BY <2>1, <2>3, <2>4, <3>1, <3>2
      <3>4. Until(cool[req[c].pair]) >= promised[req[c].pair]
            BY <3>1, <3>3 DEF OwedOK
      <3>5. QED
            BY <2>1, <2>3, <3>1, <3>2, <3>4 DEF Until
    <2>5. OwedOK'
          BY <2>1, <2>4 DEF OwedOK
    <2>6. ASSUME NEW y \in Pairs, Bound(y)'
          PROVE  \/ Owed(y)'
                 \/ Until(cool[y])' >= promised[y]' /\ Until(coolDisk[y])' >= promised[y]'
      <3>1. Owed(y)' <=> Owed(y)
            BY <2>1 DEF Owed
      <3>2. CASE y = x
            BY <2>2, <2>6, <3>1, <3>2 DEF KeptOK
      <3>3. CASE y # x
            BY <2>1, <2>3, <2>6, <3>1, <3>3 DEF KeptOK, Until
      <3>4. QED
            BY <3>2, <3>3
    <2>7. QED
          BY <2>5, <2>6 DEF KeptOK
  <1>8. CASE CleanupSelect \/ CleanupCommit \/ Tick \/ SomeoneCommits
    <2>1. /\ UNCHANGED <<cool, promised, lapsed, config, pc, req>>
          /\ now' \in {now, now + 1} /\ coolDisk' \in {cool, coolDisk}
          BY <1>8 DEF CleanupSelect, CleanupCommit, Tick, SomeoneCommits, cooldowns, clients,
                      history
    <2>2. QED
          BY <2>1, <1>0, QuietKept
  <1>9. ASSUME NEW c \in Configs, SetConfig(c)
        PROVE  OwedOK' /\ KeptOK'
    <2>1. /\ UNCHANGED <<cool, promised, lapsed, config, pc, req, now>> /\ coolDisk' = cool
          BY <1>9 DEF SetConfig, clients, history
    <2>2. QED
          BY <2>1, <1>0, QuietKept
  <1>10. CASE Restart
    <2>1. /\ cool' = coolDisk /\ UNCHANGED <<now, coolDisk, promised>>
          /\ \A c \in Clients : pc'[c] = "idle"
          /\ \A x \in Pairs : lapsed'[x] = (lapsed[x] \/ Owed(x))
          BY <1>10 DEF Restart, Owed
    <2>2. OwedOK'
          BY <2>1 DEF OwedOK
    <2>3. ASSUME NEW x \in Pairs, Bound(x)'
          PROVE  Until(cool[x])' >= promised[x]' /\ Until(coolDisk[x])' >= promised[x]'
      <3>1. Bound(x) /\ ~Owed(x)
            BY <2>1, <2>3 DEF Bound
      <3>2. QED
            BY <2>1, <3>1 DEF KeptOK, Until
    <2>4. QED
          BY <2>2, <2>3 DEF KeptOK
  <1>11. CASE UNCHANGED vars
    <2>1. UNCHANGED <<cool, coolDisk, promised, lapsed, config, pc, req, now>>
          BY <1>11 DEF vars
    <2>2. QED
          BY <2>1, <1>0, QuietKept
  <1>12. QED
         BY <1>1, <1>2, <1>3, <1>4, <1>5, <1>6, <1>7, <1>8, <1>9, <1>10, <1>11
            DEF Next, ClientStep, CleanupStep

-----------------------------------------------------------------------------
(* Theorems *)

\* The inductive invariant is an invariant.
THEOREM Invariant == Spec => []IInv
  <1>1. Init => IInv
        BY InitTypes, InitVerdict, InitKept DEF IInv
  <1>2. IInv /\ [Next]_vars => IInv'
        BY StepTypes, StepVerdict, StepDoomed, StepKept DEF IInv
  <1>3. QED
        BY <1>1, <1>2, PTL DEF Spec

\* Every variable has its type and the lock of submit_order has one client inside.
THEOREM TypeCorrect == Spec => []TypeOK
  <1>1. IInv => TypeOK
        BY DEF IInv
  <1>2. QED
        BY <1>1, Invariant, PTL

\* A cooldown that was promised is on disk once its client is out of submit_order.
THEOREM CooldownsDurable == Spec => []PromiseDurable
  <1>1. IInv => PromiseDurable
        BY DEF IInv, KeptOK, Bound, Owed, Until, PromiseDurable
  <1>2. QED
        BY <1>1, Invariant, PTL

\* What evaluate passed still passes when submit_order calls the exchange.
THEOREM VerdictNotStale == Spec => VerdictHolds
  <1>1. ASSUME IInv, NEW c \in Clients, Place(c) \/ PlaceFails(c)
        PROVE  Passes(req[c])
    <2>1. pc[c] = "place"
          BY <1>1 DEF Place, PlaceFails, Goto
    <2>2. QED
          BY <1>1, <2>1 DEF IInv, VerdictOK
  <1>2. IInv /\ [Next]_vars =>
            [\A c \in Clients : Place(c) \/ PlaceFails(c) => Passes(req[c])]_vars
        BY <1>1
  <1>3. QED
        BY <1>2, Invariant, PTL DEF Spec, VerdictHolds

\* No order goes out on a pair before the cooldown of the last one is over.
THEOREM OrdersApart == Spec => PlacedApart
  <1>1. ASSUME IInv, NEW c \in Clients, Place(c) \/ PlaceFails(c)
        PROVE  promised[req[c].pair] <= now \/ lapsed[req[c].pair]
    <2> DEFINE x == req[c].pair
    <2>1. pc[c] = "place" /\ TypeOK
          BY <1>1 DEF Place, PlaceFails, Goto, IInv
    <2>2. x \in Pairs /\ ~InCooldown(x)
          BY <1>1, <2>1 DEF IInv, RequestOK, VerdictOK, Request, Passes, CooldownRule
    <2>3. /\ now \in Nat /\ promised[x] \in Nat /\ Until(cool[x]) \in Nat
          BY <2>1, <2>2, Times
    <2>4. Until(cool[x]) <= now
      <3>1. CASE cool[x] = NoRow
            BY <2>3, <3>1 DEF Until, NoRow
      <3>2. CASE cool[x] # NoRow
            BY <2>2, <2>3, <3>2 DEF InCooldown, Until
      <3>3. QED
            BY <3>1, <3>2
    <2>5. ~Owed(x)
          BY <2>1, Exclusive DEF Owed, Owing
    <2>6. ~Bound(x)
      <3>1. Bound(x) => Until(cool[x]) >= promised[x] /\ promised[x] > now
            BY <1>1, <2>2, <2>5 DEF IInv, KeptOK, Bound
      <3>2. QED
            BY <2>3, <2>4, <3>1
    <2>7. QED
          BY <2>3, <2>6 DEF Bound
  <1>2. IInv /\ [Next]_vars =>
            [\A c \in Clients :
               Place(c) \/ PlaceFails(c) =>
                   promised[req[c].pair] <= now \/ lapsed[req[c].pair]]_vars
        BY <1>1
  <1>3. QED
        BY <1>2, Invariant, PTL DEF Spec, PlacedApart
=============================================================================
