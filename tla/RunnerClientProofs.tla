------------------------ MODULE RunnerClientProofs ------------------------
(***************************************************************************)
(* RunnerClient: types, and the refinement of TurnCalls.  An answer is     *)
(* taken for that of its own request and a completion for that of its own  *)
(* turn, whatever is late, early or lost.                                  *)
(***************************************************************************)
EXTENDS RunnerClient, TLAPS

-----------------------------------------------------------------------------
(* Messages *)

Said(s) == {s[i] : i \in 1..Len(s)}

LEMMA SaidFirst ==
  ASSUME NEW s \in Seq(Message), s # <<>>
  PROVE  /\ Head(s) \in Said(s) /\ Head(s) \in Message
         /\ Tail(s) \in Seq(Message) /\ Said(Tail(s)) \subseteq Said(s)
<1>1. Len(s) \in Nat /\ Len(s) >= 1 /\ Head(s) = s[1]
  OBVIOUS
<1>2. Tail(s) \in Seq(Message) /\ Len(Tail(s)) = Len(s) - 1
  BY <1>1
<1>3. \A i \in 1..Len(Tail(s)) : Tail(s)[i] = s[i + 1] /\ i + 1 \in 1..Len(s)
  BY <1>1, <1>2
<1> QED
  BY <1>1, <1>2, <1>3 DEF Said

LEMMA SaidLast ==
  ASSUME NEW s \in Seq(Message), NEW m \in Message
  PROVE  Append(s, m) \in Seq(Message) /\ Said(Append(s, m)) = Said(s) \cup {m}
<1>1. /\ Append(s, m) \in Seq(Message) /\ Len(Append(s, m)) = Len(s) + 1 /\ Len(s) \in Nat
      /\ Append(s, m)[Len(s) + 1] = m /\ \A i \in 1..Len(s) : Append(s, m)[i] = s[i]
  OBVIOUS
<1>2. 1..(Len(s) + 1) = (1..Len(s)) \cup {Len(s) + 1}
  BY <1>1
<1> QED
  BY <1>1, <1>2 DEF Said

LEMMA SaidNothing == <<>> \in Seq(Message) /\ Said(<<>>) = {}
BY DEF Said

-----------------------------------------------------------------------------
(* The inductive invariant *)

(* The runs come one after another.                                         *)
Outcomes ==
  /\ \A r \in 1..Runs : (r < run => outcome[r] # "none")
                        /\ (r > run => outcome[r] = "none" /\ turn[r] = "none")
  /\ run > 0 => (stage = "idle" <=> outcome[run] # "none")
  /\ run = 0 => stage = "idle"

(* A request is one of the script: the app-server runner numbers them anew   *)
(* in every run, the codex-mcp runner goes on.                              *)
Numbers ==
  /\ kind = "app-server" /\ stage = "call" => awaited = step
  /\ kind = "codex-mcp" => awaited <= 2 * run
  /\ kind = "codex-mcp" /\ stage = "call" =>
       step \in {1, 2} /\ (step = 1 => awaited <= 2 * run - 1)

(* What the server owes is of runs that have begun; over one connection no   *)
(* two requests have one number, and the last one is the one awaited.       *)
Owes ==
  \A q \in owed :
    /\ q.run <= run
    /\ kind = "codex-mcp" =>
         /\ q.id <= awaited
         /\ stage = "call" /\ q.id = awaited => q.method = Script[step] /\ q.run = run
         /\ stage = "call" /\ step = 1 /\ q.run = run => q.method = "list"

(* What the server said was true when it said it, and turns do not revive.   *)
Truths ==
  /\ \A m \in Said(inbox) \cup Said(pending) :
       m.type = "turn/completed" /\ m.run > 0 => turn[m.run] = "over"
  /\ kind = "codex-mcp" => \A m \in Said(inbox) : m.type = "answer" =>
       /\ m.id <= awaited
       /\ stage = "call" /\ step = 2 /\ m.id = awaited /\ m.ok => turn[run] = "over"

(* Before its tool call a run has no turn; and a client that waits knows its *)
(* turn by name, or is confused.                                            *)
Begun ==
  /\ kind = "codex-mcp" /\ stage = "call" /\ step = 1 => turn[run] = "none"
  /\ stage = "wait" /\ run \notin confused => named

ClientInv == ClientTypeOK /\ Outcomes /\ Numbers /\ Owes /\ Truths /\ Begun

LEMMA ClientInitially == Init => ClientInv
<1> SUFFICES ASSUME Init PROVE ClientInv
  OBVIOUS
<1>1. Said(inbox) = {} /\ Said(pending) = {} /\ inbox \in Seq(Message) /\ pending \in Seq(Message)
  BY SaidNothing DEF Init
<1>2. ClientTypeOK
  <2>1. late \in BOOLEAN /\ named \in BOOLEAN /\ up \in BOOLEAN
    BY DEF Init
  <2>2. stage = "idle" <=> \A r \in 1..run : outcome[r] # "none"
    BY DEF Init
  <2>3. run \in 0..Runs /\ step \in 1..3
    BY ClientAssumption DEF Init
  <2>4. /\ turn \in [1..Runs -> {"none", "live", "over"}]
        /\ outcome \in [1..Runs -> {"none", "completed", "failed", "raised"}]
        /\ spent \in [DOMAIN Budget -> Nat]
    BY ClientAssumption DEF Init
  <2> QED
    BY <1>1, <2>1, <2>2, <2>3, <2>4, Zenon DEF Init, ClientTypeOK
<1>3. Outcomes /\ Numbers
  BY ClientAssumption DEF Init, Outcomes, Numbers
<1>4. Owes /\ Truths /\ Begun
  BY <1>1 DEF Init, Owes, Truths, Begun
<1> QED
  BY <1>2, <1>3, <1>4 DEF ClientInv

-----------------------------------------------------------------------------
(* The client's steps *)

(* A client is idle exactly when all runs up to the last have returned.      *)
LEMMA IdleWhenDone ==
  ASSUME NEW n \in 0..Runs, NEW out, NEW st,
         \A r \in 1..Runs : r < n => out[r] # "none",
         n > 0 => (st = "idle" <=> out[n] # "none"),
         n = 0 => st = "idle"
  PROVE  st = "idle" <=> \A r \in 1..n : out[r] # "none"
<1>1. CASE n = 0
  BY <1>1
<1>2. CASE n > 0
  <2>1. n \in 1..n /\ \A r \in 1..n : r \in 1..Runs /\ (r < n \/ r = n)
    BY <1>2, ClientAssumption
  <2> QED
    BY <1>2, <2>1
<1> QED
  BY <1>1, <1>2

LEMMA RunReached ==
  ASSUME ClientInv, stage # "idle"
  PROVE  run \in 1..Runs /\ outcome[run] = "none"
BY ClientAssumption DEF ClientInv, ClientTypeOK, Outcomes

(* runner.run comes back, with whatever result.                             *)
LEMMA FinishesInv ==
  ASSUME ClientInv, stage # "idle", NEW result \in {"completed", "failed", "raised"},
         NEW rest \in Seq(Message), Said(rest) \subseteq Said(inbox),
         Finishes(result, rest), confused' \subseteq 1..Runs
  PROVE  ClientInv'
<1>0. /\ run \in 1..Runs /\ run' = run /\ stage' = "idle"
      /\ outcome' = [outcome EXCEPT ![run] = result]
      /\ UNCHANGED <<kind, step, awaited, late, named, owed, turn, spent>>
  BY RunReached DEF Finishes
<1>1. /\ inbox' \in Seq(Message) /\ pending' \in Seq(Message) /\ up' \in BOOLEAN
      /\ Said(inbox') \subseteq Said(inbox) /\ Said(pending') \subseteq Said(pending)
      /\ kind = "codex-mcp" => pending' = <<>>
  <2>1. CASE kind = "app-server"
    BY <2>1, SaidNothing DEF Finishes
  <2>2. CASE kind # "app-server"
    BY <2>2 DEF Finishes, ClientInv, ClientTypeOK
  <2> QED
    BY <2>1, <2>2
<1>2. Outcomes'
  BY <1>0, ClientAssumption DEF ClientInv, ClientTypeOK, Outcomes
<1>3. stage' = "idle" <=> \A r \in 1..run' : outcome'[r] # "none"
  BY <1>0, <1>2, IdleWhenDone, ClientAssumption DEF Outcomes
<1>4. ClientTypeOK'
  <2>1. outcome' \in [1..Runs -> {"none", "completed", "failed", "raised"}]
    BY <1>0 DEF ClientInv, ClientTypeOK
  <2> QED
    BY <1>0, <1>1, <1>3, <2>1 DEF ClientInv, ClientTypeOK
<1>5. Numbers' /\ Owes' /\ Begun'
  BY <1>0 DEF ClientInv, Numbers, Owes, Begun
<1>6. Truths'
  BY <1>0, <1>1 DEF ClientInv, Truths
<1> QED
  BY <1>2, <1>4, <1>5, <1>6 DEF ClientInv

LEMMA ScriptIs ==
  /\ kind = "app-server" => Script[1] = "initialize" /\ Script[2] = "thread" /\ Script[3] = "turn"
  /\ kind # "app-server" => Script[1] = "list" /\ Script[2] = "tool"
BY DEF Script

LEMMA BeginsRunInv ==
  ASSUME ClientInv, BeginsRun
  PROVE  ClientInv'
<1> DEFINE n == IF kind = "app-server" THEN 1 ELSE awaited + 1
           q == [id |-> n, method |-> Script[1], run |-> run + 1]
<1>0. /\ stage = "idle" /\ run \in 0..Runs /\ run < Runs /\ run' = run + 1 /\ Runs \in Nat
      /\ stage' = "call" /\ step' = 1 /\ late' = FALSE /\ named' = FALSE
      /\ awaited' = n /\ owed' = owed \cup {q}
      /\ UNCHANGED <<kind, inbox, pending, turn, outcome, confused, spent>>
  BY ClientAssumption DEF BeginsRun, Sends, NextId, ClientInv, ClientTypeOK
<1>1. /\ kind \in {"app-server", "codex-mcp"} /\ awaited \in Nat
      /\ kind = "app-server" => n = 1 /\ q.method = "initialize"
      /\ kind = "codex-mcp" => n = awaited + 1 /\ n <= 2 * run' - 1 /\ q.method = "list"
  BY <1>0, ScriptIs DEF ClientInv, ClientTypeOK, Numbers, Ids
<1>2. up' \in BOOLEAN
  BY DEF BeginsRun, ClientInv, ClientTypeOK
<1>3. n \in Ids /\ q \in Request
  <2>1. n \in Ids
    BY <1>0, <1>1 DEF Ids
  <2>2. q.method \in {"initialize", "list"} /\ run + 1 \in 1..Runs
    BY <1>0, <1>1
  <2> QED
    BY <2>1, <2>2 DEF Request
<1> HIDE DEF n
<1>4. Outcomes'
  BY <1>0 DEF ClientInv, Outcomes
<1>5. stage' = "idle" <=> \A r \in 1..run' : outcome'[r] # "none"
  BY <1>0, <1>4, IdleWhenDone DEF Outcomes
<1>6. ClientTypeOK'
  <2>1. run' \in 0..Runs /\ owed' \subseteq Request /\ step' \in 1..3
    BY <1>0, <1>3 DEF ClientInv, ClientTypeOK
  <2>2. late' \in BOOLEAN /\ named' \in BOOLEAN
    BY <1>0
  <2> QED
    BY <1>0, <1>2, <1>3, <1>5, <2>1, <2>2, Zenon DEF ClientInv, ClientTypeOK
<1>7. Numbers'
  BY <1>0, <1>1 DEF Numbers
<1>8. Owes'
  <2> SUFFICES ASSUME NEW p \in owed'
               PROVE  /\ p.run <= run'
                      /\ kind = "codex-mcp" =>
                           /\ p.id <= awaited'
                           /\ p.id = awaited' => p.method = Script[1] /\ p.run = run'
                           /\ p.run = run' => p.method = "list"
    BY <1>0 DEF Owes, Script
  <2>1. CASE p = q
    BY <1>0, <1>1, <1>3, <2>1, ScriptIs DEF Ids
  <2>2. CASE p \in owed
    <3>1. p.run \in Nat /\ p.id \in Nat /\ p.run <= run /\ (kind = "codex-mcp" => p.id <= awaited)
      BY <2>2 DEF ClientInv, ClientTypeOK, Request, Ids, Owes
    <3> QED
      BY <1>0, <1>1, <3>1
  <2> QED
    BY <1>0, <2>1, <2>2
<1>9. Truths'
  <2>1. \A m \in Said(inbox) : m.type = "answer" /\ kind = "codex-mcp" => m.id <= awaited
    BY DEF ClientInv, Truths
  <2>2. \A m \in Said(inbox) : m.type = "answer" /\ kind = "codex-mcp" => m.id <= awaited'
    <3>1. \A m \in Said(inbox) : m.type = "answer" => m.id \in Nat
      BY DEF ClientInv, ClientTypeOK, Said, Message, Ids
    <3> QED
      BY <1>0, <1>1, <2>1, <3>1
  <2> QED
    BY <1>0, <2>2 DEF ClientInv, Truths
<1>10. Begun'
  BY <1>0 DEF ClientInv, Outcomes, Begun
<1> QED
  BY <1>4, <1>6, <1>7, <1>8, <1>9, <1>10 DEF ClientInv

LEMMA CannotBeginInv ==
  ASSUME ClientInv, CannotBegin
  PROVE  ClientInv'
<1>0. /\ stage = "idle" /\ run \in 0..Runs /\ run < Runs /\ run' = run + 1 /\ Runs \in Nat
      /\ outcome' = [outcome EXCEPT ![run + 1] = "raised"]
      /\ UNCHANGED <<kind, stage, step, awaited, late, named, inbox, pending, up,
                     owed, turn, confused, spent>>
  BY ClientAssumption DEF CannotBegin, ClientInv, ClientTypeOK
<1>1. Outcomes'
  BY <1>0 DEF ClientInv, ClientTypeOK, Outcomes
<1>2. stage' = "idle" <=> \A r \in 1..run' : outcome'[r] # "none"
  BY <1>0, <1>1, IdleWhenDone DEF Outcomes
<1>3. ClientTypeOK'
  <2>1. /\ run' \in 0..Runs
        /\ outcome' \in [1..Runs -> {"none", "completed", "failed", "raised"}]
    BY <1>0 DEF ClientInv, ClientTypeOK
  <2> QED
    BY <1>0, <1>2, <2>1 DEF ClientInv, ClientTypeOK
<1>4. Numbers'
  BY <1>0 DEF ClientInv, ClientTypeOK, Numbers, Ids
<1>5. Owes'
  BY <1>0 DEF ClientInv, ClientTypeOK, Owes, Request
<1>6. Truths' /\ Begun'
  BY <1>0 DEF ClientInv, Truths, Begun
<1> QED
  BY <1>1, <1>3, <1>4, <1>5, <1>6 DEF ClientInv

(* The answer to the last request but one of the script sends the next.      *)
LEMMA ContinuesInv ==
  ASSUME ClientInv, Continues
  PROVE  ClientInv'
<1> DEFINE q == [id |-> awaited + 1, method |-> Script[step + 1], run |-> run]
<1>0. /\ stage = "call" /\ inbox # <<>>
      /\ \/ Script[step] = "initialize" \/ Script[step] = "thread" \/ Script[step] = "list"
      /\ stage' = "call" /\ step' = step + 1 /\ late' = FALSE
      /\ awaited' = awaited + 1 /\ owed' = owed \cup {q} /\ inbox' = Tail(inbox)
      /\ confused' \in {confused, confused \cup {run}}
      /\ UNCHANGED <<kind, run, named, pending, up, turn, outcome, spent>>
  BY DEF Continues, Answered, Matches, Sends, NextId
<1>1. /\ run \in 1..Runs /\ Runs \in Nat /\ awaited \in Nat /\ step \in 1..3
      /\ kind \in {"app-server", "codex-mcp"}
  BY <1>0, RunReached, ClientAssumption DEF ClientInv, ClientTypeOK, Ids
<1>2. /\ kind = "app-server" => step \in {1, 2} /\ awaited = step /\ q.method \in {"thread", "turn"}
      /\ kind = "codex-mcp" => step = 1 /\ awaited <= 2 * run - 1 /\ q.method = "tool"
  BY <1>0, <1>1, ScriptIs DEF ClientInv, Numbers
<1>3. awaited + 1 \in Ids /\ q \in Request
  <2>1. awaited + 1 \in Ids
    BY <1>1, <1>2 DEF Ids
  <2> QED
    BY <1>1, <1>2, <2>1 DEF Request
<1>4. inbox' \in Seq(Message) /\ Said(inbox') \subseteq Said(inbox)
  BY <1>0, SaidFirst DEF ClientInv, ClientTypeOK
<1>5. Outcomes'
  BY <1>0 DEF ClientInv, Outcomes
<1>6. ClientTypeOK'
  <2>1. step' \in 1..3 /\ awaited' \in Ids
    BY <1>0, <1>1, <1>2, <1>3
  <2>2. late' \in BOOLEAN /\ confused' \subseteq 1..Runs /\ owed' \subseteq Request
    BY <1>0, <1>1, <1>3 DEF ClientInv, ClientTypeOK
  <2> QED
    BY <1>0, <1>4, <2>1, <2>2, Zenon DEF ClientInv, ClientTypeOK
<1>7. Numbers'
  BY <1>0, <1>1, <1>2 DEF Numbers
<1>8. Owes'
  <2> SUFFICES ASSUME NEW p \in owed'
               PROVE  /\ p.run <= run
                      /\ kind = "codex-mcp" =>
                           /\ p.id <= awaited + 1
                           /\ p.id = awaited + 1 => p.method = Script[2] /\ p.run = run
    BY <1>0, <1>1, <1>2 DEF Owes, Script
  <2>1. CASE p = q
    BY <1>1, <1>2, <1>3, <2>1, ScriptIs
  <2>2. CASE p \in owed
    <3>1. p.run \in Nat /\ p.id \in Nat /\ p.run <= run /\ (kind = "codex-mcp" => p.id <= awaited)
      BY <2>2 DEF ClientInv, ClientTypeOK, Request, Ids, Owes
    <3> QED
      BY <1>1, <3>1
  <2> QED
    BY <1>0, <2>1, <2>2
<1>9. Truths'
  <2>1. \A m \in Said(inbox) : m.type = "answer" /\ kind = "codex-mcp" =>
          m.id <= awaited + 1 /\ m.id # awaited + 1
    <3>1. \A m \in Said(inbox) : m.type = "answer" => m.id \in Nat
      BY DEF ClientInv, ClientTypeOK, Said, Message, Ids
    <3>2. \A m \in Said(inbox) : m.type = "answer" /\ kind = "codex-mcp" => m.id <= awaited
      BY DEF ClientInv, Truths
    <3> QED
      BY <1>1, <3>1, <3>2
  <2> QED
    BY <1>0, <1>4, <2>1 DEF ClientInv, Truths
<1>10. Begun'
  BY <1>0, <1>1, <1>2 DEF Begun
<1> QED
  BY <1>5, <1>6, <1>7, <1>8, <1>9, <1>10 DEF ClientInv

(* Only the app-server runner has a turn/start, and waits for its turn.      *)
LEMMA TurnAcceptedInv ==
  ASSUME ClientInv, TurnAccepted
  PROVE  ClientInv'
<1>0. /\ stage = "call" /\ inbox # <<>> /\ Script[step] = "turn" /\ stage' = "wait"
      /\ inbox' = Tail(inbox) /\ named' = (~Empty /\ Head(inbox).named)
      /\ Head(inbox).type \in {"answer", "request"}
      /\ confused' = IF Empty \/ ~Head(inbox).named THEN confused \cup {run} ELSE confused
      /\ UNCHANGED <<kind, run, step, awaited, late, pending, up, owed, turn, outcome, spent>>
  BY DEF TurnAccepted, Answered, Matches
<1>1. run \in 1..Runs /\ kind = "app-server"
  <2>1. kind \in {"app-server", "codex-mcp"} /\ (kind = "codex-mcp" => step \in {1, 2})
    BY <1>0 DEF ClientInv, ClientTypeOK, Numbers
  <2> QED
    BY <1>0, <2>1, RunReached, ScriptIs
<1>2. inbox' \in Seq(Message) /\ Said(inbox') \subseteq Said(inbox) /\ Head(inbox) \in Message
  BY <1>0, SaidFirst DEF ClientInv, ClientTypeOK
<1>3. Outcomes' /\ Numbers'
  BY <1>0, <1>1 DEF ClientInv, Outcomes, Numbers
<1>4. ClientTypeOK'
  <2>1. confused' \subseteq 1..Runs
    BY <1>0, <1>1 DEF ClientInv, ClientTypeOK
  <2>2. named' \in BOOLEAN
    BY <1>0
  <2> QED
    BY <1>0, <1>1, <1>2, <2>1, <2>2, Zenon DEF ClientInv, ClientTypeOK
<1>5. Owes' /\ Truths'
  BY <1>0, <1>1, <1>2 DEF ClientInv, Owes, Truths
<1>6. Begun'
  BY <1>0, <1>1 DEF Begun
<1> QED
  BY <1>3, <1>4, <1>5, <1>6 DEF ClientInv

(* Steps that only take messages from the inbox or the pending ones, or move *)
(* one over.                                                                *)
LEMMA TakesInv ==
  ASSUME ClientInv, inbox' \in Seq(Message), pending' \in Seq(Message),
         Said(inbox') \subseteq Said(inbox), Said(pending') \subseteq Said(inbox) \cup Said(pending),
         kind = "codex-mcp" => pending' = <<>>,
         up' \in BOOLEAN, late' \in BOOLEAN, spent' \in [DOMAIN Budget -> Nat],
         UNCHANGED <<kind, run, stage, step, awaited, named, owed, turn, outcome, confused>>
  PROVE  ClientInv'
<1>1. ClientTypeOK'
  BY Zenon DEF ClientInv, ClientTypeOK
<1>2. Outcomes' /\ Numbers' /\ Begun'
  BY DEF ClientInv, Outcomes, Numbers, Begun
<1>3. Owes'
  BY DEF ClientInv, Owes, Script
<1>4. Truths'
  BY DEF ClientInv, Truths
<1> QED
  BY <1>1, <1>2, <1>3, <1>4 DEF ClientInv

LEMMA WaitsInv ==
  ASSUME ClientInv, SetsAside \/ Ignores \/ DeadlinePasses
  PROVE  ClientInv'
<1>0. /\ inbox \in Seq(Message) /\ pending \in Seq(Message) /\ up \in BOOLEAN /\ late \in BOOLEAN
      /\ spent \in [DOMAIN Budget -> Nat] /\ kind \in {"app-server", "codex-mcp"}
      /\ kind = "codex-mcp" => pending = <<>>
      /\ kind = "codex-mcp" => stage # "wait"
  BY DEF ClientInv, ClientTypeOK
<1>1. CASE SetsAside
  <2>1. /\ inbox # <<>> /\ inbox' = Tail(inbox)
        /\ pending' = IF kind = "app-server" THEN Append(pending, Head(inbox)) ELSE pending
        /\ UNCHANGED <<kind, run, stage, step, awaited, late, named, up, owed, turn,
                       outcome, confused, spent>>
    BY <1>1 DEF SetsAside
  <2>2. /\ Head(inbox) \in Said(inbox) /\ Head(inbox) \in Message
        /\ inbox' \in Seq(Message) /\ Said(inbox') \subseteq Said(inbox)
    BY <1>0, <2>1, SaidFirst
  <2>3. /\ Append(pending, Head(inbox)) \in Seq(Message)
        /\ Said(Append(pending, Head(inbox))) = Said(pending) \cup {Head(inbox)}
    BY <1>0, <2>2, SaidLast
  <2>4. /\ pending' \in Seq(Message) /\ Said(pending') \subseteq Said(inbox) \cup Said(pending)
        /\ kind = "codex-mcp" => pending' = <<>>
    BY <1>0, <2>1, <2>2, <2>3
  <2> QED
    BY <1>0, <2>1, <2>2, <2>4, TakesInv
<1>2. CASE Ignores
  <2>1. /\ stage = "wait" /\ (pending # <<>> \/ inbox # <<>>)
        /\ IF pending # <<>> THEN pending' = Tail(pending) /\ UNCHANGED inbox
           ELSE inbox' = Tail(inbox) /\ UNCHANGED pending
        /\ UNCHANGED <<kind, run, stage, step, awaited, late, named, up, owed, turn,
                       outcome, confused, spent>>
    BY <1>2 DEF Ignores, Waiting
  <2>2. /\ inbox' \in Seq(Message) /\ Said(inbox') \subseteq Said(inbox)
        /\ pending' \in Seq(Message) /\ Said(pending') \subseteq Said(pending)
    BY <1>0, <2>1, SaidFirst
  <2> QED
    BY <1>0, <2>1, <2>2, TakesInv
<1>3. CASE DeadlinePasses
  <2>1. late' \in BOOLEAN
    BY <1>3 DEF DeadlinePasses
  <2> QED
    BY <1>0, <1>3, <2>1, TakesInv DEF DeadlinePasses
<1> QED
  BY <1>1, <1>2, <1>3

(* A run that comes back, from whichever place.                              *)
LEMMA ReturnsInv ==
  ASSUME ClientInv,
         NoThread \/ NoTool \/ ToolAnswers \/ Refused \/ CallTimesOut \/ TurnSeenToEnd
           \/ WaitTimesOut \/ SeesEnd
  PROVE  ClientInv'
<1>0. inbox \in Seq(Message) /\ confused \subseteq 1..Runs
  BY DEF ClientInv, ClientTypeOK
<1>1. CASE NoThread \/ NoTool \/ ToolAnswers
  <2>1. /\ stage = "call" /\ inbox # <<>> /\ confused' \in {confused, confused \cup {run}}
        /\ \E result \in {"completed", "failed", "raised"} : Finishes(result, Tail(inbox))
    BY <1>1 DEF NoThread, NoTool, ToolAnswers, Answered, Matches
  <2>2. confused' \subseteq 1..Runs
    BY <1>0, <2>1, RunReached
  <2> QED
    BY <1>0, <2>1, <2>2, SaidFirst, FinishesInv
<1>2. CASE Refused \/ CallTimesOut
  <2>1. stage = "call" /\ inbox # <<>> /\ Finishes("raised", Tail(inbox)) /\ confused' = confused
    BY <1>2 DEF Refused, CallTimesOut, Matches
  <2> QED
    BY <1>0, <2>1, SaidFirst, FinishesInv
<1>3. CASE TurnSeenToEnd \/ WaitTimesOut \/ SeesEnd
  <2>1. /\ stage # "idle" /\ confused' = confused
        /\ \E result \in {"completed", "failed", "raised"} : Finishes(result, inbox)
    BY <1>3 DEF TurnSeenToEnd, Waiting, WaitTimesOut, SeesEnd
  <2> QED
    BY <1>0, <2>1, FinishesInv
<1> QED
  BY <1>1, <1>2, <1>3

-----------------------------------------------------------------------------
(* The server's steps *)

LEMMA SaidTyped ==
  ASSUME ClientInv
  PROVE  \A m \in Said(inbox) \cup Said(pending) :
           m.type = "turn/completed" => m.run \in 0..Runs
<1>1. inbox \in Seq(Message) /\ pending \in Seq(Message)
  BY DEF ClientInv, ClientTypeOK
<1>2. \A s \in Seq(Message) : Said(s) \subseteq Message
  BY DEF Said
<1>3. \A m \in Message : m.type = "turn/completed" => m.run \in 0..Runs
  BY DEF Message
<1> QED
  BY <1>1, <1>2, <1>3

LEMMA TurnBeginsInv ==
  ASSUME ClientInv, NEW q \in owed, TurnBegins(q)
  PROVE  ClientInv'
<1>0. /\ q.method \in {"turn", "tool"} /\ turn[q.run] = "none"
      /\ turn' = [turn EXCEPT ![q.run] = "live"]
      /\ UNCHANGED <<kind, run, stage, step, awaited, late, named, inbox, pending, up,
                     owed, outcome, confused, spent>>
  BY DEF TurnBegins, cvars
<1>1. q.run \in 1..Runs /\ q.run <= run /\ run \in 0..Runs /\ Runs \in Nat
  BY ClientAssumption DEF ClientInv, ClientTypeOK, Request, Owes
<1>2. turn' \in [1..Runs -> {"none", "live", "over"}]
  BY <1>0, <1>1 DEF ClientInv, ClientTypeOK
<1>3. \A r \in 1..Runs : turn[r] = "over" => turn'[r] = "over"
  BY <1>0, <1>1 DEF ClientInv, ClientTypeOK
<1>4. ClientTypeOK'
  BY <1>0, <1>2, Zenon DEF ClientInv, ClientTypeOK
<1>5. Outcomes' /\ Numbers'
  BY <1>0, <1>1 DEF ClientInv, ClientTypeOK, Outcomes, Numbers
<1>6. Owes'
  BY <1>0 DEF ClientInv, Owes, Script
<1>7. Truths'
  <2>1. \A m \in Said(inbox) \cup Said(pending) : m.type = "turn/completed" => m.run \in 0..Runs
    BY SaidTyped
  <2>2. stage = "call" => run \in 1..Runs
    BY RunReached
  <2>3. \A m \in Said(inbox) \cup Said(pending) :
          m.type = "turn/completed" /\ m.run > 0 => turn'[m.run] = "over"
    BY <1>1, <1>3, <2>1 DEF ClientInv, Truths
  <2> QED
    BY <1>0, <1>3, <2>2, <2>3 DEF ClientInv, Truths
<1>8. Begun'
  <2>1. kind = "codex-mcp" /\ stage = "call" /\ step = 1 => q.run # run
    BY <1>0 DEF ClientInv, Owes
  <2> QED
    BY <1>0, <1>1, <2>1 DEF ClientInv, ClientTypeOK, Begun
<1> QED
  BY <1>4, <1>5, <1>6, <1>7, <1>8 DEF ClientInv

(* The server says something more: m, or nothing new.                        *)
LEMMA SaysInv ==
  ASSUME ClientInv, NEW m \in Message,
         inbox' = Append(inbox, m) \/ inbox' = inbox,
         turn' \in [1..Runs -> {"none", "live", "over"}],
         \A r \in 1..Runs : /\ turn[r] = "over" => turn'[r] = "over"
                            /\ turn'[r] = "none" <=> turn[r] = "none",
         owed' \subseteq owed, spent' \in [DOMAIN Budget -> Nat],
         m.type = "turn/completed" /\ m.run > 0 => turn'[m.run] = "over",
         kind = "codex-mcp" /\ m.type = "answer" =>
           /\ m.id <= awaited
           /\ stage = "call" /\ step = 2 /\ m.id = awaited /\ m.ok => turn'[run] = "over",
         UNCHANGED <<kind, run, stage, step, awaited, late, named, pending, up, outcome, confused>>
  PROVE  ClientInv'
<1>1. inbox' \in Seq(Message) /\ Said(inbox') \subseteq Said(inbox) \cup {m}
  BY SaidLast DEF ClientInv, ClientTypeOK
<1>2. ClientTypeOK'
  <2>1. owed' \subseteq Request
    BY DEF ClientInv, ClientTypeOK
  <2> QED
    BY <1>1, <2>1, Zenon DEF ClientInv, ClientTypeOK
<1>3. Outcomes' /\ Numbers'
  BY DEF ClientInv, Outcomes, Numbers
<1>4. Owes'
  BY DEF ClientInv, Owes, Script
<1>5. Truths'
  <2>1. \A n \in Said(inbox) \cup Said(pending) : n.type = "turn/completed" => n.run \in 0..Runs
    BY SaidTyped
  <2>2. stage = "call" => run \in 1..Runs
    BY RunReached
  <2>3. \A n \in Said(inbox) \cup Said(pending) :
          n.type = "turn/completed" /\ n.run > 0 => turn'[n.run] = "over"
    BY ClientAssumption, <2>1 DEF ClientInv, Truths
  <2> QED
    BY <1>1, <2>2, <2>3 DEF ClientInv, Truths
<1>6. Begun'
  <2>1. stage = "call" => run \in 1..Runs
    BY RunReached
  <2> QED
    BY <2>1 DEF ClientInv, Begun
<1> QED
  BY <1>2, <1>3, <1>4, <1>5, <1>6 DEF ClientInv

LEMMA TurnEndsInv ==
  ASSUME ClientInv, NEW r \in 1..Runs, TurnEnds(r)
  PROVE  ClientInv'
<1> DEFINE m == [type |-> "turn/completed", run |-> r]
<1>1. m \in Message
  BY ClientAssumption DEF Message
<1>2. /\ turn[r] = "live" /\ turn' = [turn EXCEPT ![r] = "over"]
      /\ inbox' = Append(inbox, m) \/ inbox' = inbox
      /\ UNCHANGED <<kind, run, stage, step, awaited, late, named, pending, up, owed,
                     outcome, confused, spent>>
  BY DEF TurnEnds, Tells
<1>3. /\ turn' \in [1..Runs -> {"none", "live", "over"}] /\ turn'[r] = "over"
      /\ \A i \in 1..Runs : /\ turn[i] = "over" => turn'[i] = "over"
                            /\ turn'[i] = "none" <=> turn[i] = "none"
      /\ spent' \in [DOMAIN Budget -> Nat]
  BY <1>2 DEF ClientInv, ClientTypeOK
<1>4. m.type = "turn/completed" /\ m.run = r
  OBVIOUS
<1> HIDE DEF m
<1> QED
  BY <1>1, <1>2, <1>3, <1>4, SaysInv

LEMMA SpendOK ==
  ASSUME ClientInv, NEW b \in {"other", "request", "break"}, Spend(b)
  PROVE  spent' \in [DOMAIN Budget -> Nat]
<1>1. DOMAIN Budget = {"other", "request", "break"}
  BY ClientAssumption
<1>2. spent \in [DOMAIN Budget -> Nat] /\ spent' = [spent EXCEPT ![b] = @ + 1]
  BY DEF Spend, ClientInv, ClientTypeOK
<1>3. b \in DOMAIN Budget /\ spent[b] + 1 \in Nat
  BY <1>1, <1>2
<1> HIDE DEF Spend
<1> QED
  BY <1>2, <1>3

LEMMA OtherTurnEndsInv ==
  ASSUME ClientInv, OtherTurnEnds
  PROVE  ClientInv'
<1> DEFINE m == [type |-> "turn/completed", run |-> Other]
<1>1. m \in Message
  BY ClientAssumption DEF Message, Other
<1>2. /\ inbox' = Append(inbox, m) \/ inbox' = inbox
      /\ Spend("other")
      /\ UNCHANGED <<kind, run, stage, step, awaited, late, named, pending, up, owed,
                     turn, outcome, confused>>
  BY DEF OtherTurnEnds, Tells
<1>3. turn \in [1..Runs -> {"none", "live", "over"}] /\ spent' \in [DOMAIN Budget -> Nat]
  BY <1>2, SpendOK DEF ClientInv, ClientTypeOK
<1>4. m.type = "turn/completed" /\ m.run = 0
  BY DEF Other
<1> HIDE DEF m
<1> QED
  BY <1>1, <1>2, <1>3, <1>4, SaysInv

LEMMA AnswersInv ==
  ASSUME ClientInv, NEW q \in owed, Answers(q)
  PROVE  ClientInv'
<1>1. PICK ok \in BOOLEAN, tells \in BOOLEAN :
        /\ MayAnswer(q, ok)
        /\ inbox' = IF Hears(q.run)
                    THEN Append(inbox, [type |-> "answer", id |-> q.id, ok |-> ok, named |-> tells])
                    ELSE inbox
  BY DEF Answers
<1> DEFINE m == [type |-> "answer", id |-> q.id, ok |-> ok, named |-> tells]
<1>2. q \in Request
  BY DEF ClientInv, ClientTypeOK
<1>3. m \in Message
  BY <1>2 DEF Message, Request
<1>4. /\ owed' = owed \ {q}
      /\ UNCHANGED <<kind, run, stage, step, awaited, late, named, pending, up, turn,
                     outcome, confused, spent>>
  BY DEF Answers
<1>5. turn \in [1..Runs -> {"none", "live", "over"}] /\ spent' \in [DOMAIN Budget -> Nat]
  BY <1>4 DEF ClientInv, ClientTypeOK
<1>6. kind = "codex-mcp" =>
        /\ q.id <= awaited
        /\ stage = "call" /\ step = 2 /\ q.id = awaited /\ ok => turn[run] = "over"
  <2>1. kind = "codex-mcp" /\ stage = "call" /\ step = 2 /\ q.id = awaited =>
          q.method = "tool" /\ q.run = run
    BY DEF ClientInv, Owes, Script
  <2>2. q.method = "tool" /\ ok => turn[q.run] = "over"
    BY <1>1 DEF MayAnswer
  <2> QED
    BY <2>1, <2>2 DEF ClientInv, Owes
<1>7. m.type = "answer" /\ m.id = q.id /\ m.ok = ok
  OBVIOUS
<1>8. inbox' = Append(inbox, m) \/ inbox' = inbox
  BY <1>1
<1> HIDE DEF m
<1> QED
  BY <1>3, <1>4, <1>5, <1>6, <1>7, <1>8, SaysInv

LEMMA AsksClientInv ==
  ASSUME ClientInv, AsksClient
  PROVE  ClientInv'
<1>1. PICK i \in Ids : inbox' = Append(inbox, [type |-> "request", id |-> i])
  BY DEF AsksClient
<1> DEFINE m == [type |-> "request", id |-> i]
<1>2. m \in Message
  BY DEF Message
<1>3. /\ Spend("request")
      /\ UNCHANGED <<kind, run, stage, step, awaited, late, named, pending, up, owed,
                     turn, outcome, confused>>
  BY DEF AsksClient
<1>4. turn \in [1..Runs -> {"none", "live", "over"}] /\ spent' \in [DOMAIN Budget -> Nat]
  BY <1>3, SpendOK DEF ClientInv, ClientTypeOK
<1>5. m.type = "request" /\ inbox' = Append(inbox, m)
  BY <1>1
<1> HIDE DEF m
<1> QED
  BY <1>2, <1>3, <1>4, <1>5, SaysInv

LEMMA BreaksInv ==
  ASSUME ClientInv, Breaks
  PROVE  ClientInv'
<1>1. /\ Spend("break") /\ up' = FALSE
      /\ UNCHANGED <<kind, run, stage, step, awaited, late, named, inbox, pending, owed,
                     turn, outcome, confused>>
  BY DEF Breaks, cvars
<1>2. spent' \in [DOMAIN Budget -> Nat] /\ up' \in BOOLEAN
  BY <1>1, SpendOK
<1>3. /\ inbox \in Seq(Message) /\ pending \in Seq(Message) /\ late \in BOOLEAN
      /\ kind = "codex-mcp" => pending = <<>>
  BY DEF ClientInv, ClientTypeOK
<1> QED
  BY <1>1, <1>2, <1>3, TakesInv

-----------------------------------------------------------------------------
(* Types *)

LEMMA ClientSteps ==
  ASSUME ClientInv, [Next]_vars
  PROVE  ClientInv'
<1>1. CASE BeginsRun \/ CannotBegin
  BY <1>1, BeginsRunInv, CannotBeginInv
<1>2. CASE Reads
  BY <1>2, ContinuesInv, TurnAcceptedInv, ReturnsInv, WaitsInv DEF Reads
<1>3. CASE DeadlinePasses \/ WaitTimesOut
  BY <1>3, ReturnsInv, WaitsInv
<1>4. CASE Serves
  BY <1>4, TurnBeginsInv, AnswersInv, TurnEndsInv DEF Serves
<1>5. CASE OtherTurnEnds \/ AsksClient \/ Breaks
  BY <1>5, OtherTurnEndsInv, AsksClientInv, BreaksInv
<1>6. CASE UNCHANGED vars
  BY <1>6 DEF vars, cvars, ClientInv, ClientTypeOK, Outcomes, Numbers, Owes, Truths, Begun, Script
<1> QED
  BY <1>1, <1>2, <1>3, <1>4, <1>5, <1>6 DEF Next

(* An answer under the awaited id is that of the awaited request, and what   *)
(* the server said of a turn stays true, in every reachable state.          *)
THEOREM ClientInvariant == Spec => []ClientInv
BY ClientInitially, ClientSteps, PTL DEF Spec

(* Both clients are always in a state their code can be in: a client is idle *)
(* exactly when every run so far has returned, and the stdio client never    *)
(* sets a message aside (app_server.py, stdio_mcp_client.py).                *)
THEOREM ClientTypes == Spec => []ClientTypeOK
<1>1. ClientInv => ClientTypeOK
  BY DEF ClientInv
<1> QED
  BY <1>1, ClientInvariant, PTL

-----------------------------------------------------------------------------
(* Refinement of TurnCalls *)

(* The run under way may act: those before it have returned.                 *)
LEMMA RunMayAct ==
  ASSUME ClientInv, NEW r \in 1..Runs, r <= run
  PROVE  Calls!Reached(r)
<1>1. run \in 0..Runs /\ Runs \in Nat
  BY ClientAssumption DEF ClientInv, ClientTypeOK
<1>2. \A i \in 1..(r - 1) : i \in 1..Runs /\ i < run
  BY <1>1
<1> QED
  BY <1>2 DEF ClientInv, Outcomes, Calls!Reached

(* What a step that returns the run has to show.                             *)
LEMMA RunReturns ==
  ASSUME ClientInv, stage # "idle", NEW result \in {"completed", "failed", "raised"},
         NEW rest, Finishes(result, rest),
         \/ confused' = confused \cup {run}
         \/ confused' = confused /\ (run \in confused \/ Calls!MayReturn(run, result))
  PROVE  Calls!Returns(run) /\ run \in 1..Runs
<1>1. run \in 1..Runs /\ outcome[run] = "none" /\ Calls!Reached(run)
  BY RunReached, RunMayAct
<1>2. outcome' = [outcome EXCEPT ![run] = result] /\ UNCHANGED turn
  BY DEF Finishes
<1>3. \/ Calls!MayReturn(run, result) /\ confused' \in {confused, confused \cup {run}}
      \/ confused' = confused \cup {run}
  OBVIOUS
<1> QED
  BY <1>1, <1>2, <1>3 DEF Calls!Returns

(* An answer to the awaited request of a codex-mcp client is that request's. *)
LEMMA ToolAnswered ==
  ASSUME ClientInv, ToolAnswers
  PROVE  Calls!Returns(run) /\ run \in 1..Runs
<1>1. /\ stage = "call" /\ inbox # <<>> /\ Head(inbox).id = awaited
      /\ Head(inbox).type \in {"answer", "request"} /\ Script[step] = "tool"
      /\ ~Empty => Head(inbox).ok
      /\ confused' = IF Empty THEN confused \cup {run} ELSE confused
      /\ Finishes("completed", Tail(inbox))
  BY DEF ToolAnswers, Answered, Matches
<1>2. kind = "codex-mcp" /\ step = 2
  <2>1. kind \in {"app-server", "codex-mcp"} /\ step \in 1..3 /\ (kind = "codex-mcp" => step \in {1, 2})
    BY <1>1 DEF ClientInv, ClientTypeOK, Numbers
  <2> QED
    BY <1>1, <2>1, ScriptIs
<1>3. Head(inbox) \in Said(inbox)
  BY <1>1, SaidFirst DEF ClientInv, ClientTypeOK
<1>4. ~Empty => turn[run] = "over"
  BY <1>1, <1>2, <1>3 DEF ClientInv, Truths, Empty
<1>5. ~Empty => Calls!MayReturn(run, "completed")
  BY <1>4 DEF Calls!MayReturn
<1>6. CASE Empty
  BY <1>1, <1>6, RunReturns
<1>7. CASE ~Empty
  BY <1>1, <1>5, <1>7, RunReturns
<1> QED
  BY <1>6, <1>7

(* A client that knows its turn by name waits for the end of that one.       *)
LEMMA TurnSeen ==
  ASSUME ClientInv, TurnSeenToEnd
  PROVE  Calls!Returns(run) /\ run \in 1..Runs
<1>1. stage = "wait" /\ (pending # <<>> \/ inbox # <<>>) /\ confused' = confused
      /\ NextMessage.type = "turn/completed" /\ (named => NextMessage.run = run)
  BY DEF TurnSeenToEnd, Waiting, EndsTurn
<1>2. PICK result \in {"completed", "failed"} : Finishes(result, inbox)
  BY DEF TurnSeenToEnd
<1>3. run \in 1..Runs
  BY <1>1, RunReached
<1>4. NextMessage \in Said(inbox) \cup Said(pending)
  BY <1>1, SaidFirst DEF NextMessage, ClientInv, ClientTypeOK
<1>5. run \notin confused => turn[run] = "over"
  BY <1>1, <1>3, <1>4 DEF ClientInv, Begun, Truths
<1>6. run \notin confused => Calls!MayReturn(run, result)
  BY <1>2, <1>5 DEF Calls!MayReturn
<1> QED
  BY <1>1, <1>2, <1>6, RunReturns

(* The server has no tool: the run has no turn yet.                          *)
LEMMA ToolMissing ==
  ASSUME ClientInv, NoTool
  PROVE  Calls!Returns(run) /\ run \in 1..Runs
<1>1. /\ stage = "call" /\ Script[step] = "list" /\ confused' \in {confused, confused \cup {run}}
      /\ Finishes("failed", Tail(inbox))
  BY DEF NoTool, Answered, Matches
<1>2. kind = "codex-mcp" /\ step = 1
  <2>1. kind \in {"app-server", "codex-mcp"} /\ step \in 1..3 /\ (kind = "codex-mcp" => step \in {1, 2})
    BY <1>1 DEF ClientInv, ClientTypeOK, Numbers
  <2> QED
    BY <1>1, <2>1, ScriptIs
<1>3. turn[run] = "none"
  BY <1>1, <1>2 DEF ClientInv, Begun
<1>4. Calls!MayReturn(run, "failed")
  BY <1>3 DEF Calls!MayReturn
<1> QED
  BY <1>1, <1>4, RunReturns

LEMMA RunRaised ==
  ASSUME ClientInv, NoThread \/ Refused \/ CallTimesOut \/ WaitTimesOut \/ SeesEnd
  PROVE  Calls!Returns(run) /\ run \in 1..Runs
<1>1. /\ stage # "idle" /\ confused' \in {confused, confused \cup {run}}
      /\ \E rest : Finishes("raised", rest)
  BY DEF NoThread, Refused, CallTimesOut, WaitTimesOut, SeesEnd, Answered, Matches
<1>2. Calls!MayReturn(run, "raised")
  BY DEF Calls!MayReturn
<1> QED
  BY <1>1, <1>2, RunReturns

LEMMA CannotBeginReturns ==
  ASSUME ClientInv, CannotBegin
  PROVE  Calls!Returns(run + 1) /\ run + 1 \in 1..Runs
<1>1. /\ stage = "idle" /\ run \in 0..Runs /\ run < Runs /\ Runs \in Nat
      /\ outcome' = [outcome EXCEPT ![run + 1] = "raised"]
      /\ UNCHANGED <<turn, confused>>
  BY ClientAssumption DEF CannotBegin, ClientInv, ClientTypeOK
<1>2. run + 1 \in 1..Runs /\ outcome[run + 1] = "none"
  BY <1>1 DEF ClientInv, Outcomes
<1>3. Calls!Reached(run + 1)
  <2>1. \A i \in 1..run : outcome[i] # "none"
    BY <1>1 DEF ClientInv, ClientTypeOK
  <2> QED
    BY <1>1, <2>1 DEF Calls!Reached
<1>4. Calls!MayReturn(run + 1, "raised")
  BY DEF Calls!MayReturn
<1> QED
  BY <1>1, <1>2, <1>3, <1>4 DEF Calls!Returns

LEMMA AnswerConfuses ==
  ASSUME ClientInv, Continues \/ TurnAccepted
  PROVE  \/ UNCHANGED <<turn, outcome, confused>>
         \/ Calls!Confuses(run) /\ run \in 1..Runs
<1>1. /\ stage = "call" /\ confused' \in {confused, confused \cup {run}}
      /\ UNCHANGED <<turn, outcome>>
  BY DEF Continues, TurnAccepted, Answered, Matches
<1>2. run \in 1..Runs /\ outcome[run] = "none" /\ Calls!Reached(run)
  BY <1>1, RunReached, RunMayAct
<1> QED
  BY <1>1, <1>2 DEF Calls!Confuses

LEMMA ServerTurns ==
  ASSUME ClientInv, Serves
  PROVE  \/ UNCHANGED <<turn, outcome, confused>>
         \/ \E r \in 1..Runs : Calls!Begins(r) \/ Calls!Ends(r)
<1>1. ASSUME NEW q \in owed, TurnBegins(q) PROVE Calls!Begins(q.run) /\ q.run \in 1..Runs
  <2>1. q.run \in 1..Runs /\ q.run <= run
    BY DEF ClientInv, ClientTypeOK, Request, Owes
  <2> QED
    BY <1>1, <2>1, RunMayAct DEF TurnBegins, Calls!Begins
<1>2. ASSUME NEW q \in owed, Answers(q) PROVE UNCHANGED <<turn, outcome, confused>>
  BY <1>2 DEF Answers
<1>3. ASSUME NEW r \in 1..Runs, TurnEnds(r) PROVE Calls!Ends(r)
  BY <1>3 DEF TurnEnds, Calls!Ends
<1> QED
  BY <1>1, <1>2, <1>3 DEF Serves

LEMMA ClientStepsRefine ==
  ASSUME ClientInv, [Next]_vars
  PROVE  [Calls!TNext]_(Calls!tvars)
<1> DEFINE Stutters == UNCHANGED <<turn, outcome, confused>>
<1>1. Stutters => UNCHANGED Calls!tvars
  BY DEF Calls!tvars
<1>2. CASE Serves
  BY <1>1, <1>2, ServerTurns DEF Calls!TNext
<1>3. CASE NoThread \/ NoTool \/ ToolAnswers \/ Refused \/ CallTimesOut \/ TurnSeenToEnd
             \/ WaitTimesOut \/ SeesEnd
  BY <1>3, ToolMissing, ToolAnswered, TurnSeen, RunRaised DEF Calls!TNext
<1>4. CASE CannotBegin
  BY <1>4, CannotBeginReturns DEF Calls!TNext
<1>5. CASE Continues \/ TurnAccepted
  BY <1>1, <1>5, AnswerConfuses DEF Calls!TNext
<1>6. CASE BeginsRun \/ SetsAside \/ Ignores \/ DeadlinePasses \/ OtherTurnEnds
             \/ AsksClient \/ Breaks \/ UNCHANGED vars
  BY <1>1, <1>6 DEF BeginsRun, SetsAside, Ignores, DeadlinePasses, OtherTurnEnds, AsksClient,
                    Breaks, vars, cvars
<1> QED
  BY <1>2, <1>3, <1>4, <1>5, <1>6 DEF Next, Reads

(* Whatever is late, early, reordered, lost, said of another run, or of      *)
(* another client's turn on the thread: a run is reported completed only     *)
(* once its own turn is over, unless the client took a request of the server *)
(* for its answer or the answer did not name the turn (run_turn and          *)
(* wait_for_turn of app_server.py, call of stdio_mcp_client.py).             *)
THEOREM ClientImplementsCalls == Spec => CallsSpec
<1>1. Init => Calls!TInit
  BY DEF Init, Calls!TInit
<1>2. ClientInv /\ [Next]_vars => [Calls!TNext]_(Calls!tvars)
  BY ClientStepsRefine
<1> QED
  BY <1>1, <1>2, ClientInvariant, PTL DEF Spec, CallsSpec, Calls!TSpec

===========================================================================
